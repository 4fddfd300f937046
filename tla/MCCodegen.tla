------------------------------ MODULE MCCodegen -----------------------------
(***************************************************************************)
(* The code generator on every tree of a bounded shape: blocks of at most  *)
(* two statements, compound statements nested two deep, and every kind of  *)
(* expression.                                                             *)
(***************************************************************************)
EXTENDS Codegen, MCPrograms

X == Id("x")
MCExprs == {Num(1), X, NewUnary("UNAOP_NEG", X), Ass("x", Sub(X, NewUnary("UNAOP_NEG", Num(1))))}

MCReturn == NewStReturn(Num(1))
MCSimple == {MCReturn, NewStExpr(Ass("x", X))}
MCAddr == NewStExpr(NewUnary("UNAOP_ADDR", X))

(* One compound statement around at most one simple statement. *)
MCInner ==
  LET blocks == BlocksOf(MCSimple, 1)
  IN  IfsOf({X}, blocks) \cup WhilesOf({X}, blocks)
        \cup ForsOf({X}, {X}, {Ass("x", X)}, blocks)

(* Two compound statements, one inside the other; of the two branches of the
   outer if, one may be compound. *)
MCOuter ==
  LET inner == BlocksOf(MCInner, 1)
      simple == BlocksOf(MCSimple, 1)
  IN  {NewStIf(X, b, e) : b \in inner, e \in simple \cup {NULL}}
        \cup {NewStIf(X, b, e) : b \in simple, e \in inner}
        \cup WhilesOf({X}, inner) \cup ForsOf({X}, {X}, {X}, inner)

(* Two statements in a row, the second of every kind, a block without
   statements among them; an address, which the generator refuses, is reached
   or lies behind a return. *)
MCEmpty == NewStBlock(<< >>)
MCSeconds ==
  LET block == NewStBlock(<<MCReturn>>)
  IN  MCSimple \cup {MCEmpty, MCAddr, NewStIf(X, block, block), NewStForWhile(X, block),
                     NewStFor(X, X, X, block)}
MCRows ==
  {NewStBlock(<<s, t>>) : s \in MCSimple \cup MCInner \cup {MCEmpty}, t \in MCSeconds}

(* Every operator on every operand. *)
MCOperators ==
  {NewStReturn(e) : e \in MCExprs
     \cup {NewUnary(op, e) : op \in UnaopKind, e \in MCExprs}
     \cup {NewBinop(op, l, r) : op \in ArithKind, l \in MCExprs, r \in MCExprs}}

MCPrograms1 == MCInner \cup MCOuter \cup MCRows \cup MCOperators

MCNode == NodesOf(MCPrograms1)
=============================================================================
