------------------------------ MODULE MCReturns -----------------------------
(***************************************************************************)
(* What the comment above codegen_stmt says of its result, on the programs *)
(* of MCCodegen.                                                           *)
(***************************************************************************)
EXTENDS MCCodegen

(* Every way through the statement ends in a return; what a condition is
   worth is left open. *)
RECURSIVE AlwaysReturns(_)
AlwaysReturns(n) ==
  CASE n.kind = "NKSt_RETURN" -> TRUE
    [] n.kind = "NKSt_BLOCK" -> \E k \in 1 .. Len(n.list) : AlwaysReturns(n.list[k])
    [] n.kind = "NKSt_IF" ->
         AlwaysReturns(n.block) /\ n.ifnot # NULL /\ AlwaysReturns(n.ifnot)
    [] OTHER -> FALSE

Leaves(n) == Len(stack') < Len(stack) /\ Top.node = n /\ n.kind \in StmtKinds

(* "returns whether this returns or not" (codegen.c:55): when codegen_stmt
   is done with a statement, its result says whether every way through the
   statement returns. *)
TellsWhetherItReturns ==
  [][stack # << >> /\ Leaves(Top.node) => terminated' = AlwaysReturns(Top.node)]_vars
=============================================================================
