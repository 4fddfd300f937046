------------------------------ MODULE Language ------------------------------
(***************************************************************************)
(* What a program of Aleron means, said without reference to the compiler: *)
(* a tree is evaluated by recursion over its structure, with numbers that  *)
(* have no width and variables that are names.  The compiler promises this *)
(* meaning where no number leaves the range in which the machine and the   *)
(* mathematics agree, and where the program ends within Fuel rounds of its *)
(* loops; otherwise the outcome is open.                                   *)
(***************************************************************************)
EXTENDS Integers, Sequences, TLC, Syntax

CONSTANTS
  Refused,   \* of a tree, whether it is refused (module Refusal)
  WordBits, LongBits, MaxSlots, Fuel

VARIABLES ast, outcome

InRange(v, bits) == -(2 ^ (bits - 1)) <= v /\ v < 2 ^ (bits - 1)
IsWord(v) == InRange(v, WordBits)
IsLong(v) == InRange(v, LongBits)

-----------------------------------------------------------------------------
(***************************************************************************)
(* A state of the evaluation: how it goes ("ok" while it does), the value  *)
(* of the last expression, the variables, the number of assignments made   *)
(* and the rounds of loops left.                                           *)
(***************************************************************************)
Start == [how |-> "ok", value |-> 0, env |-> << >>, made |-> 0, fuel |-> Fuel]

Ends(s, how) == [s EXCEPT !.how = how]
Goes(s) == s.how = "ok"
Yields(s, v) == IF IsLong(v) THEN [s EXCEPT !.value = v] ELSE Ends(s, "range")

Quotient(a, b) ==
  LET q == (IF a < 0 THEN -a ELSE a) \div (IF b < 0 THEN -b ELSE b)
  IN  IF a * b < 0 THEN -q ELSE q

Apply(op, s, a, b) ==
  CASE op = "BINOP_ADD" -> Yields(s, a + b)
    [] op = "BINOP_SUB" -> Yields(s, a - b)
    [] op = "BINOP_MUL" -> Yields(s, a * b)
    [] op = "BINOP_DIV" -> IF b = 0 THEN Ends(s, "trap") ELSE Yields(s, Quotient(a, b))

Assign(s, x) ==
  IF s.made = MaxSlots THEN Ends(s, "overflow")
  ELSE IF ~IsWord(s.value) THEN Ends(s, "range")
  ELSE [s EXCEPT !.env = (x :> s.value) @@ @, !.made = @ + 1]

RECURSIVE Eval(_, _)
Eval(e, s) ==
  IF ~Goes(s) THEN s ELSE
  CASE e.kind = "NKEx_LIT" /\ e.lit = "LK_INT" -> Yields(s, e.str)
    [] e.kind = "NKEx_LIT" /\ e.lit = "LK_ID" ->
         IF e.str \in DOMAIN s.env THEN Yields(s, s.env[e.str])
                                   ELSE Ends(s, "undefined")
    [] e.kind = "NKEx_UNAOP" ->
         LET t == Eval(e.expr, s)
         IN  IF ~Goes(t) THEN t
             ELSE IF e.op = "UNAOP_NEG" THEN Yields(t, -t.value)
             ELSE Ends(t, "fault")
    [] e.kind = "NKEx_BINOP" /\ e.op = "BINOP_ASS" ->
         LET t == Eval(e.right, s)
         IN  IF Goes(t) THEN Assign(t, e.left.str) ELSE t
    [] e.kind = "NKEx_BINOP" /\ e.op # "BINOP_ASS" ->
         LET l == Eval(e.left, s)
             r == Eval(e.right, l)
         IN  IF Goes(r) THEN Apply(e.op, r, l.value, r.value) ELSE r

(* A condition is true when it is not zero. *)
Test(e, s) ==
  LET t == Eval(e, s)
  IN  IF Goes(t) /\ ~IsWord(t.value) THEN Ends(t, "range") ELSE t

RECURSIVE Run(_, _), Rounds(_, _, _, _)
Run(n, s) ==
  IF ~Goes(s) THEN s ELSE
  CASE n.kind = "NKSt_EXPR" -> Eval(n.expr, s)
    [] n.kind = "NKSt_RETURN" ->
         LET t == Test(n.expr, s)
         IN  IF Goes(t) THEN Ends(t, "returned") ELSE t
    [] n.kind = "NKSt_BLOCK" ->
         IF n.list = << >> THEN s
         ELSE Run(NewStBlock(Tail(n.list)), Run(Head(n.list), s))
    [] n.kind = "NKSt_IF" ->
         LET t == Test(n.cond, s)
         IN  IF ~Goes(t) THEN t
             ELSE IF t.value # 0 THEN Run(n.block, t)
             ELSE IF n.ifnot # NULL THEN Run(n.ifnot, t) ELSE t
    [] n.kind = "NKSt_FOR_WHILE" -> Rounds(n.cond, n.block, NewStBlock(<< >>), s)
    [] n.kind = "NKSt_FOR" ->
         Rounds(n.cond, n.block, NewStExpr(n.post), Eval(n.init, s))

(* The rounds of a loop: condition, body, what comes after the body. *)
Rounds(cond, block, post, s) ==
  LET t == Test(cond, s)
  IN  IF ~Goes(t) \/ t.value = 0 THEN t
      ELSE IF t.fuel = 0 THEN Ends(t, "fuel")
      ELSE Rounds(cond, block, post,
                  Run(post, Run(block, [t EXCEPT !.fuel = @ - 1])))

-----------------------------------------------------------------------------
(* How a program ends and with what value; a program that does not return
   returns 0. *)
Outcome(how, value) == <<how, value>>

Meaning(n) ==
  IF Refused[n] THEN Outcome("refused", 0)
  ELSE LET s == Run(n, Start)
       IN  IF s.how = "returned" THEN Outcome("returned", s.value)
           ELSE IF s.how = "ok" THEN Outcome("returned", 0)
           ELSE Outcome(s.how, 0)

IsOpen(n) == Meaning(n)[1] \in {"range", "fuel"}

-----------------------------------------------------------------------------
None == Outcome("none", 0)

Init == outcome = None

(* The outcome appears, once and for all. *)
Answer ==
  /\ outcome = None
  /\ ~IsOpen(ast)
  /\ outcome' = Meaning(ast)
  /\ UNCHANGED ast

AnswerOpen ==
  /\ outcome = None
  /\ IsOpen(ast)
  /\ outcome'[1] # "refused"
  /\ UNCHANGED ast

Spec == Init /\ [][Answer \/ AnswerOpen]_<<ast, outcome>>

Answered == <>(outcome # None \/ IsOpen(ast))
=============================================================================
