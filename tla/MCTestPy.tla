------------------------------ MODULE MCTestPy ------------------------------
(***************************************************************************)
(* A file that compiles and one that should fail, at a stage where it is   *)
(* executed and one where it is not; the compiler gives one of three       *)
(* results, two of which differ in what they write to stderr alone.  For   *)
(* --from-file at most three entries with a stdout and a stderr, with a    *)
(* stdout, or with none; the file whole, or cut off after any token.       *)
(***************************************************************************)
EXTENDS TestPy

CONSTANTS pass, fail

MCStages == <<"ast", "bin">>
MCInfo ==
  {[code |-> 1, stdout |-> "", stderr |-> "^ expected"], [code |-> 1, stdout |-> "", stderr |-> ""],
   [code |-> 0, stdout |-> "block{}", stderr |-> ""]}
MCEntry ==
  {[stage |-> "bin", path |-> path, code |-> "0", texts |-> texts] :
     path \in {"a", "b"}, texts \in {<< >>, <<"out">>, <<"out", "err">>}}
=============================================================================
