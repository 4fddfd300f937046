----------------------------- MODULE MCCompiler -----------------------------
(***************************************************************************)
(* Programs that run: a word has 4 bits and a long 6, so that sums leave   *)
(* either range; the stack holds 5 slots, so that a loop overflows it.     *)
(***************************************************************************)
EXTENDS Compiler, Refusal, MCPrograms

X == Id("x")
Y == Id("y")
Neg(e) == NewUnary("UNAOP_NEG", e)
Mul(l, r) == NewBinop("BINOP_MUL", l, r)
Quot(l, r) == NewBinop("BINOP_DIV", l, r)
Do(e) == NewStExpr(e)
Back(e) == NewStReturn(e)
B0 == NewStBlock(<< >>)
B1(s) == NewStBlock(<<s>>)
B2(s, t) == NewStBlock(<<s, t>>)

(* Expressions on both sides of every boundary: the ranges, zero, signs,
   operands that assign what the other operand reads. *)
MCAtoms == {Num(0), Num(3), X, Neg(X), Ass("x", Add(X, Num(1)))}
MCExprs ==
  MCAtoms
    \cup {NewBinop(op, l, r) : op \in ArithKind, l \in MCAtoms, r \in MCAtoms}
    \cup {Mul(Mul(X, X), Num(k)) : k \in {1, 3}}
    \cup {Quot(Mul(Num(7), X), Num(3)), Quot(Neg(Num(7)), X), Quot(X, Neg(Num(2))),
          Quot(Num(32), Neg(Num(1))), Quot(Neg(Num(32)), Neg(Num(1)))}
    \cup {NewUnary("UNAOP_STAR", X), NewUnary("UNAOP_ADDR", X), Y,
          Ass("y", Ass("x", Num(2))), Ass("x", Num(9)), Ass("y", NewUnary("UNAOP_ADDR", X))}

(* Statements that leave their mark in x or y. *)
MCSteps == {Do(Ass("x", Sub(X, Num(1)))), Do(Ass("y", X)), Back(Y), Back(Add(X, Num(4)))}
MCBodies == {B0} \cup {B1(s) : s \in MCSteps}
MCTests == {X, Sub(X, Num(1)), Sub(Num(2), X)}

MCIfs == {NewStIf(c, b, e) : c \in MCTests, b \in MCBodies, e \in MCBodies \cup {NULL}}
MCLoops ==
  LET posts == {Num(0), Ass("x", Sub(X, Num(1)))}
  IN  {NewStForWhile(c, b) : c \in MCTests, b \in MCBodies}
        \cup {NewStFor(i, c, p, b) :
                i \in {Num(0), Ass("y", Num(1)), Ass("x", Num(2))}, c \in MCTests,
                p \in posts, b \in MCBodies}

(* A branch or a loop in a loop. *)
MCNested ==
  LET down == Do(Ass("x", Sub(X, Num(1))))
      test == Sub(X, Num(1))
  IN  {NewStForWhile(X, B2(NewStIf(test, b, e), down)) :
         b \in MCBodies, e \in MCBodies \cup {NULL}}
        \cup {NewStFor(Num(0), X, Ass("x", Sub(X, Num(1))), B1(NewStForWhile(test, b))) :
                b \in MCBodies}

MCPrograms2 ==
  {NewStBlock(<<Do(Ass("x", Num(k))), Back(e)>>) : k \in {0, 2, 7}, e \in MCExprs}
    \cup {NewStBlock(<<Do(Ass("x", Num(k))), s, Back(X)>>) :
            k \in {0, 2}, s \in MCIfs \cup MCLoops \cup MCNested}
    \cup {NewStBlock(<<NewStIf(X, b, NULL), Do(NewUnary("UNAOP_ADDR", X))>>) : b \in MCBodies}
    \cup {NewStBlock(<<s, Do(NewUnary("UNAOP_ADDR", X))>>) :
            s \in {Back(Num(1)), NewStBlock(<<Do(Num(1)), Back(Num(1))>>)}}
    \cup {NewStFor(Num(1), Num(1), NewUnary("UNAOP_ADDR", Num(1)), b) :
            b \in {B0, B1(Back(Num(3)))}}
    \cup MCSteps

MCNode == NodesOf(MCPrograms2)

-----------------------------------------------------------------------------
Observed ==
  IF phase = "error" THEN <<"refused", 0>>
  ELSE IF status = "running" THEN <<"none", 0>>
  ELSE <<status, result>>

Lang == INSTANCE Language WITH outcome <- Observed

(* Whatever the tree, the text that codegen writes computes what the tree
   means: the variables it spells, the order in which it evaluates operands,
   the branches it takes and the rounds of its loops, the code it leaves out
   after a return, and the slots its assignments take from the stack.  A tree
   is refused just when an address operator is reached. *)
ImplementsLanguage == Lang!Spec

(* A program whose loops end is compiled, runs and ends. *)
Ends == Lang!Answered
=============================================================================
