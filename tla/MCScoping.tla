----------------------------- MODULE MCScoping ------------------------------
(***************************************************************************)
(* Two variables that may point to the same object, in every list of at    *)
(* most two, and a list of nine and of ten; two scopes deep, and two of    *)
(* them left by jumps.                                                     *)
(***************************************************************************)
EXTENDS Scoping

CONSTANTS v1, v2
MCVar == {v1, v2}
MCArgLists ==
  UNION {[1 .. n -> MCVar] : n \in 0 .. 2} \cup {[k \in 1 .. n |-> v1] : n \in {9, 10}}
=============================================================================
