---------------------------- MODULE ParserProofs ----------------------------
(***************************************************************************)
(* Theorems about the parser, for every set of texts, in two parts.        *)
(*                                                                         *)
(* The parser by itself: an invalid token is reported first, the tree that *)
(* parse returns is well-formed, as the code generator assumes, the        *)
(* variables have their types, and "unclosed" points at the innermost open *)
(* bracket.  Every step between parse's first and last does one of four    *)
(* things to the tokens (Moves), and one of four to the stack: the running *)
(* function goes on, calls, returns, or the process exits.  To the         *)
(* brackets it does one of three: none is passed, one is opened or one is  *)
(* closed, by the frame on top (Passes, OpensOne, ClosesOne).              *)
(*                                                                         *)
(* The parser against the grammar: what parse returns is the one program   *)
(* that the grammar gives the text, and it refuses only texts that have    *)
(* none.  First, the grammar's recursion has a solution, and every rule is *)
(* what it says of shorter stretches.  Then, sound: the frames on the      *)
(* stack began at tokens b, and each has read from its b on what the rules *)
(* say (DerivationInv).  Then, complete: if the text has a program n, then *)
(* the frames can still return trees that make n (CompletionInv); as this  *)
(* is so for each program and what is returned is one tree, there is one.  *)
(***************************************************************************)
EXTENDS ParserGrammar, SeqLemmas, FiniteSetTheorems

-----------------------------------------------------------------------------
(***************************************************************************)
(* Where the parser stands.                                                *)
(***************************************************************************)
NoneInvalidUpTo(j) ==
  \A k \in 1 .. Len(text) : Tok(k).kind = "TK_INVALID" => j < k

AInv ==
  /\ text \in Texts
  /\ at \in Nat
  /\ phase \in {"parsing", "done"} => at >= 1
  /\ phase = "parsing" => NoneInvalidUpTo(at + 1)
  /\ InvalidReportedFirst

Stays == UNCHANGED <<phase, at, error>>
Advances == Advance
Exits == phase' = "error" /\ UNCHANGED at
ExitsAhead == phase' = "error" /\ at' = at + 1 /\ Tok(at + 2).kind # "TK_INVALID"

Moves ==
  /\ phase = "parsing" /\ text' = text
  /\ Stays \/ Advances \/ Exits \/ ExitsAhead

LEMMA StmtMoves == StmtStep => Moves
<1> USE DEF Moves, Stays, Advances, Exits, Running
<1>1. SStmt \/ BlockStmt \/ SExpr \/ IfBlock \/ ForDefault \/ ForInit \/ WhileBlock
        \/ ForPost \/ ForBlock => Moves
  BY DEF SStmt, BlockStmt, InBlock, SExpr, IfBlock, ForDefault, ForInit, WhileBlock,
         ForPost, ForBlock
<1>2. IfEnd \/ IfElseEnd \/ WhileEnd \/ ForEnd => Moves
  BY DEF IfEnd, IfElseEnd, WhileEnd, ForEnd
<1>3. BlockOpen \/ BlockClose \/ SReturn \/ SIf \/ IfElse \/ SFor \/ ForCond \/ ForSemi
        => Moves
  BY DEF BlockOpen, BlockClose, InBlock, SReturn, SIf, IfElse, SFor, ForCond, ForSemi
<1>4. SExprEnd \/ SReturnEnd => Moves
  BY DEF SExprEnd, SReturnEnd, Semi
<1>5. BlockExpected \/ BlockUnclosed \/ SemiExpected => Moves
  BY DEF BlockExpected, BlockUnclosed, InBlock, SemiExpected, Expected, Unclosed, Fail
<1> QED
  BY <1>1, <1>2, <1>3, <1>4, <1>5 DEF StmtStep

LEMMA ExprMoves == ExprStep => Moves
<1> USE DEF Moves, Stays, Advances, Exits, Running
<1>1. Descend \/ NoAssign \/ AssignEnd \/ NoOperator \/ UnaryMinusEnd \/ UnaryPrimary
        \/ NoPostfix => Moves
  BY DEF Descend, NoAssign, AssignEnd, NoOperator, InLoop, UnaryMinusEnd, UnaryPrimary,
         NoPostfix
<1>2. Operator \/ UnaryPlus \/ UnaryMinus \/ Postfix \/ ParenOpen \/ ParenClose \/ Literal
        => Moves
  BY DEF Operator, InLoop, UnaryPlus, UnaryMinus, Postfix, ParenOpen, ParenClose, Literal
<1>3. Assign => Moves
  BY DEF Assign, ExitsAhead, Fail
<1>4. ParenUnclosed \/ ExprExpected => Moves
  BY DEF ParenUnclosed, ExprExpected, Expected, Unclosed, Fail
<1> QED
  BY <1>1, <1>2, <1>3, <1>4 DEF ExprStep

LEMMA TokenKinds ==
  ASSUME text \in Texts
  PROVE  /\ Len(text) \in Nat
         /\ \A k \in 1 .. Len(text) : Tok(k) = text[k] /\ Tok(k).kind # "TK_EOF"
         /\ \A k \in Nat : k > Len(text) => Tok(k).kind = "TK_EOF"
<1>1. text \in Seq(ToSet(text)) /\ \A k \in 1 .. Len(text) : text[k].kind # "TK_EOF"
  BY TextsAssumption DEF InText
<1>2. Len(text) \in Nat
  BY <1>1, LenProperties
<1> QED
  BY <1>1, <1>2 DEF Tok, Token

LEMMA Reported ==
  ASSUME NEW j \in Nat, text' = text, Len(text) \in Nat, Fail("invalid token", j),
         \A k \in 1 .. Len(text) : Tok(k).kind = "TK_INVALID" => j <= k
  PROVE  phase' = "error" /\ InvalidReportedFirst'
<1>1. phase' = "error"
  BY DEF Fail
<1>2. error' = [what |-> "invalid token", at |-> j]
  BY DEF Fail
<1>3. error'.what = "invalid token" /\ error'.at = j
  BY <1>2
<1>4. InvalidReportedFirst'
  BY <1>3 DEF InvalidReportedFirst, Tok
<1> QED
  BY <1>1, <1>4

LEMMA MovesKeep == AInv /\ Moves => AInv'
<1> SUFFICES ASSUME AInv, Moves PROVE AInv'
  OBVIOUS
<1>1. /\ text' = text /\ at \in Nat /\ at >= 1 /\ phase = "parsing" /\ text \in Texts
      /\ NoneInvalidUpTo(at + 1) /\ Len(text) \in Nat
  BY TokenKinds DEF AInv, Moves
<1>2. \A k : Tok(k)' = Tok(k)
  BY <1>1 DEF Tok
<1>3. CASE Stays
  BY <1>1, <1>2, <1>3 DEF AInv, Stays, NoneInvalidUpTo, InvalidReportedFirst, Tok
<1>4. CASE Advances
  <2>1. CASE Tok(at + 2).kind = "TK_INVALID"
    <3>1. at' = at + 1
      BY <1>4 DEF Advances, Advance
    <3>0. Fail("invalid token", at + 2)
      BY <1>4, <2>1 DEF Advances, Advance
    <3>4. at + 2 \in Nat
      BY <1>1
    <3>2. \A k \in 1 .. Len(text) : Tok(k).kind = "TK_INVALID" => at + 2 <= k
      BY <1>1 DEF NoneInvalidUpTo
    <3>3. phase' = "error" /\ InvalidReportedFirst'
      BY <1>1, <3>0, <3>2, <3>4, Reported, Zenon
    <3> QED
      BY <1>1, <3>1, <3>3 DEF AInv
  <2>2. CASE Tok(at + 2).kind # "TK_INVALID"
    <3>1. at' = at + 1 /\ phase' = phase /\ error' = error
      BY <1>4, <2>2 DEF Advances, Advance
    <3>2. \A k \in 1 .. Len(text) : Tok(k).kind = "TK_INVALID" => at + 1 + 1 < k
      BY <1>1, <2>2 DEF NoneInvalidUpTo
    <3>3. NoneInvalidUpTo(at + 1)' /\ InvalidReportedFirst'
      BY <1>1, <3>1, <3>2 DEF InvalidReportedFirst, NoneInvalidUpTo, Tok
    <3> QED
      BY <1>1, <3>1, <3>3 DEF AInv
  <2> QED
    BY <2>1, <2>2
<1>5. CASE Exits
  BY <1>1, <1>5 DEF AInv, Exits, NoneInvalidUpTo, InvalidReportedFirst, Tok
<1>6. CASE ExitsAhead
  <2>1. \A k \in 1 .. Len(text) : Tok(k).kind = "TK_INVALID" => at + 1 + 1 < k
    BY <1>1, <1>6 DEF NoneInvalidUpTo, ExitsAhead
  <2>2. InvalidReportedFirst'
    BY <1>1, <1>6, <2>1 DEF ExitsAhead, InvalidReportedFirst, Tok
  <2> QED
    BY <1>1, <1>6, <2>2 DEF AInv, ExitsAhead
<1> QED
  BY <1>3, <1>4, <1>5, <1>6 DEF Moves

LEMMA AInit == Init => AInv
BY DEF Init, AInv, InvalidReportedFirst

LEMMA ParseStartKeeps == AInv /\ ParseStart => AInv'
<1> SUFFICES ASSUME AInv, ParseStart PROVE AInv'
  OBVIOUS
<1>1. text' = text /\ at' = 1 /\ text \in Texts /\ Len(text) \in Nat
  BY TokenKinds DEF ParseStart, AInv
<1>2. CASE Tok(1).kind = "TK_INVALID"
  <2>1. \E k \in 1 .. 2 : Tok(k).kind = "TK_INVALID"
    BY <1>2
  <2>2. Fail("invalid token", 1)
    BY <1>2, <2>1 DEF ParseStart
  <2>3. \A k \in 1 .. Len(text) : Tok(k).kind = "TK_INVALID" => 1 <= k
    BY <1>1
  <2>4. phase' = "error" /\ InvalidReportedFirst'
    BY <1>1, <2>2, <2>3, Reported, 1 \in Nat, Zenon
  <2> QED
    BY <1>1, <2>4 DEF AInv
<1>3. CASE Tok(1).kind # "TK_INVALID" /\ Tok(2).kind = "TK_INVALID"
  <2>1. \E k \in 1 .. 2 : Tok(k).kind = "TK_INVALID"
    BY <1>3
  <2>2. Fail("invalid token", 2)
    BY <1>3, <2>1 DEF ParseStart
  <2>3. \A k \in 1 .. Len(text) : Tok(k).kind = "TK_INVALID" => 2 <= k
    BY <1>1, <1>3
  <2>4. phase' = "error" /\ InvalidReportedFirst'
    BY <1>1, <2>2, <2>3, Reported, 2 \in Nat, Zenon
  <2> QED
    BY <1>1, <2>4 DEF AInv
<1>4. CASE Tok(1).kind # "TK_INVALID" /\ Tok(2).kind # "TK_INVALID"
  <2>1. \A k \in 1 .. Len(text) : Tok(k).kind = "TK_INVALID" => 1 + 1 < k
    BY <1>4
  <2>2. NoneInvalidUpTo(at + 1)' /\ InvalidReportedFirst'
    BY <1>1, <2>1 DEF NoneInvalidUpTo, InvalidReportedFirst, Tok
  <2> QED
    BY <1>1, <2>2 DEF AInv
<1> QED
  BY <1>2, <1>3, <1>4

LEMMA ParseEndKeeps == AInv /\ ParseEnd => AInv'
<1> SUFFICES ASSUME AInv, ParseEnd PROVE AInv'
  OBVIOUS
<1>1. /\ text' = text /\ text \in Texts /\ at \in Nat /\ at >= 1
      /\ NoneInvalidUpTo(at + 1) /\ phase' # "parsing" /\ Len(text) \in Nat
  BY TokenKinds DEF ParseEnd, AInv, Fail
<1>2. CASE Check("TK_EOF")
  <2>1. at' = at + 1
    BY <1>2 DEF ParseEnd
  <2>2. \A k \in 1 .. Len(text) : Tok(k).kind # "TK_INVALID"
    <3>1. ~(at <= Len(text))
      BY <1>1, <1>2, TokenKinds DEF Check, CTok
    <3> QED
      BY <1>1, <3>1, TokenKinds DEF NoneInvalidUpTo
  <2>3. InvalidReportedFirst'
    BY <1>1, <2>2 DEF InvalidReportedFirst, Tok
  <2> QED
    BY <1>1, <2>1, <2>3 DEF AInv
<1>3. CASE ~Check("TK_EOF")
  <2>1. at' = at
    BY <1>3 DEF ParseEnd
  <2>2. InvalidReportedFirst'
    BY <1>1, <2>1 DEF InvalidReportedFirst, NoneInvalidUpTo, Tok
  <2> QED
    BY <1>1, <1>3, <2>1, <2>2 DEF AInv, ParseEnd, Fail
<1> QED
  BY <1>2, <1>3

LEMMA AInductive == Spec => []AInv
<1>1. AInv /\ UNCHANGED vars => AInv'
  BY DEF AInv, vars, NoneInvalidUpTo, InvalidReportedFirst, Tok
<1>2. AInv /\ [Next]_vars => AInv'
  BY <1>1, StmtMoves, ExprMoves, MovesKeep, ParseStartKeeps, ParseEndKeeps DEF Next
<1> QED
  BY <1>2, AInit, PTL DEF Spec

(* On every text: an invalid token is reported before the parser has looked
   past the token before it, and no other error is once it is scanned. *)
THEOREM InvalidIsReportedFirst == Spec => []InvalidReportedFirst
<1>1. AInv => InvalidReportedFirst
  BY DEF AInv
<1> QED
  BY <1>1, AInductive, PTL

-----------------------------------------------------------------------------
(***************************************************************************)
(* The trees of the parser.                                                *)
(***************************************************************************)
(* A set of trees that is closed under taking subtrees. *)
Good(N) == \A n \in N : WellFormed(n, N)

StmtFns == {"sstmt", "sblock", "sexpr", "sfor", "sif", "sreturn"}
ExprFns == {"eass", "eadd", "emul", "eunary", "eprimary"}

FT(N) == [fn : Functions, pc : PCs, kids : Seq(N), op : ArithKind \cup {""}, start : Nat]

(* What a frame keeps at each of its points. *)
KidsOK(f, N) ==
  /\ f.pc = "enter" => f.kids = << >>
  /\ f.fn = "sblock" /\ f.pc \in {"list", "stmt"} => f.kids \in Seq(Stmts(N))
  /\ f.fn = "sif" /\ f.pc \in {"block", "else"} => Len(f.kids) >= 1 /\ f.kids[1] \in Exprs(N)
  /\ f.fn = "sif" /\ f.pc = "block" => Len(f.kids) = 1
  /\ f.fn = "sif" /\ f.pc = "else" => f.kids[2] \in Blocks(N)
  /\ f.fn = "sfor" /\ f.pc \in {"while", "cond", "semi", "post", "block"} =>
       f.kids \in Seq(Exprs(N))
  /\ f.fn = "sfor" /\ f.pc \in {"while", "cond"} => Len(f.kids) = 1
  /\ f.fn = "sfor" /\ f.pc \in {"semi", "post"} => Len(f.kids) = 2
  /\ f.fn = "sfor" /\ f.pc = "block" => Len(f.kids) = 3
  /\ f.pc = "right" => f.kids[1] \in Exprs(N)
  /\ f.fn = "eass" /\ f.pc = "right" => IsVariable(f.kids[1])
  /\ f.fn \in {"eadd", "emul"} /\ f.pc = "right" => f.op \in ArithKind

(* The results a caller that stands at pc goes on with, and the functions
   that have them. *)
AwaitsBlock == {"block", "else", "while"}

Wanted(pc, N) ==
  IF pc \in AwaitsBlock THEN Blocks(N) ELSE IF pc = "stmt" THEN Stmts(N) ELSE Exprs(N)

Answers(fn, pc) ==
  /\ pc \notin {"enter", "list", "head"}
  /\ IF pc \in AwaitsBlock THEN fn = "sblock"
     ELSE IF pc = "stmt" THEN fn \in StmtFns ELSE fn \in ExprFns

Result(fn, N) ==
  IF fn = "sblock" THEN Blocks(N) ELSE IF fn \in StmtFns THEN Stmts(N) ELSE Exprs(N)

(* Where the caller of the k-th frame stands; parse awaits a statement. *)
Under(s, k) == IF k = 1 THEN "stmt" ELSE s[k - 1].pc

StackOK(s, N) ==
  /\ s \in Seq(FT(N))
  /\ \A k \in 1 .. Len(s) : KidsOK(s[k], N) /\ Answers(s[k].fn, Under(s, k))

(* The top frame, or parse, has what it goes on with. *)
RetOK(s, r, N) ==
  LET pc == Under(s, Len(s) + 1)
  IN  pc \notin {"enter", "list", "head"} => r \in Wanted(pc, N)

Well(N, s, r) == Good(N) /\ StackOK(s, N) /\ RetOK(s, r, N)

TInv ==
  /\ phase = "parsing" => \E N : Well(N, stack, ret)
  /\ phase = "done" => \E N : Good(N) /\ ret \in Stmts(N)

-----------------------------------------------------------------------------
(***************************************************************************)
(* Adding a tree.                                                          *)
(***************************************************************************)
LEMMA SeqGrows ==
  ASSUME NEW S, NEW T, S \subseteq T, NEW s \in Seq(S)
  PROVE  s \in Seq(T)
OBVIOUS

LEMMA SetsGrow ==
  ASSUME NEW N, NEW M, N \subseteq M
  PROVE  /\ Exprs(N) \subseteq Exprs(M)
         /\ Stmts(N) \subseteq Stmts(M)
         /\ Blocks(N) \subseteq Blocks(M)
BY DEF Exprs, Stmts, Blocks

LEMMA WellFormedGrows ==
  ASSUME NEW N, NEW M, N \subseteq M, NEW n, WellFormed(n, N)
  PROVE  WellFormed(n, M)
<1>1. n.list \in Seq(Stmts(N)) => n.list \in Seq(Stmts(M))
  BY SetsGrow, SeqGrows
<1> QED
  BY <1>1, SetsGrow DEF WellFormed

LEMMA GoodGrows ==
  ASSUME NEW N, Good(N), NEW n, WellFormed(n, N)
  PROVE  Good(N \cup {n})
BY WellFormedGrows DEF Good

LEMMA KidsGrow ==
  ASSUME NEW N, NEW M, N \subseteq M, NEW f, KidsOK(f, N)
  PROVE  KidsOK(f, M)
<1>1. /\ f.kids \in Seq(Stmts(N)) => f.kids \in Seq(Stmts(M))
      /\ f.kids \in Seq(Exprs(N)) => f.kids \in Seq(Exprs(M))
  BY SetsGrow, SeqGrows
<1> QED
  BY <1>1, SetsGrow DEF KidsOK

LEMMA StackGrows ==
  ASSUME NEW N, NEW M, N \subseteq M, NEW s, StackOK(s, N)
  PROVE  StackOK(s, M)
<1>1. FT(N) \subseteq FT(M)
  BY SeqGrows DEF FT
<1>2. s \in Seq(FT(M))
  BY <1>1, SeqGrows DEF StackOK
<1> QED
  BY <1>2, KidsGrow DEF StackOK

LEMMA AnswerFits ==
  ASSUME NEW N, NEW fn, NEW pc, Answers(fn, pc), NEW r \in Result(fn, N)
  PROVE  r \in Wanted(pc, N)
BY DEF Answers, Result, Wanted, Stmts, Blocks, StmtKinds, AwaitsBlock, ExprFns, StmtFns

-----------------------------------------------------------------------------
(***************************************************************************)
(* The stack: the top frame goes on, calls, or leaves its result.          *)
(***************************************************************************)
LEMMA TopFrame ==
  ASSUME NEW N, NEW s, StackOK(s, N), s # << >>
  PROVE  /\ Len(s) \in Nat \ {0}
         /\ Last(s) \in FT(N)
         /\ KidsOK(Last(s), N)
         /\ Answers(Last(s).fn, Under(s, Len(s)))
         /\ Under(s, Len(s) + 1) = Last(s).pc
<1>1. s \in Seq(FT(N))
  BY DEF StackOK
<1>2. Len(s) \in Nat \ {0} /\ Last(s) = s[Len(s)] /\ Last(s) \in FT(N)
  BY <1>1, FrontType
<1>3. Len(s) \in 1 .. Len(s) /\ Len(s) + 1 # 1 /\ Len(s) + 1 - 1 = Len(s)
  BY <1>2
<1> QED
  BY <1>2, <1>3 DEF StackOK, Under

LEMMA GoesOK ==
  ASSUME NEW N, NEW s, StackOK(s, N), s # << >>,
         NEW f \in FT(N), KidsOK(f, N), Answers(f.fn, Under(s, Len(s)))
  PROVE  LET t == Append(Front(s), f)
         IN  StackOK(t, N) /\ Under(t, Len(t) + 1) = f.pc
<1> DEFINE t == Append(Front(s), f)
<1>1. s \in Seq(FT(N))
  BY DEF StackOK
<1>2. /\ Len(s) \in Nat \ {0} /\ Front(s) \in Seq(FT(N)) /\ Len(Front(s)) = Len(s) - 1
      /\ \A k \in 1 .. Len(s) - 1 : Front(s)[k] = s[k]
  BY <1>1, FrontType
<1>3. /\ t \in Seq(FT(N)) /\ Len(t) = Len(s) /\ t[Len(s)] = f
      /\ \A k \in 1 .. Len(s) - 1 : t[k] = s[k]
  BY <1>2
<1> HIDE DEF t
<1>4. ASSUME NEW k \in 1 .. Len(s)
      PROVE  KidsOK(t[k], N) /\ Answers(t[k].fn, Under(t, k))
  <2>1. Under(t, k) = Under(s, k)
    BY <1>2, <1>3 DEF Under
  <2>2. CASE k = Len(s)
    BY <1>3, <2>1, <2>2
  <2>3. CASE k # Len(s)
    <3>1. t[k] = s[k]
      BY <1>2, <1>3, <2>3
    <3> QED
      BY <2>1, <3>1 DEF StackOK
  <2> QED
    BY <2>2, <2>3
<1>5. Under(t, Len(t) + 1) = f.pc
  BY <1>2, <1>3 DEF Under
<1> QED
  BY <1>3, <1>4, <1>5 DEF StackOK, t

LEMMA LeavesOK ==
  ASSUME NEW N, NEW s, StackOK(s, N), s # << >>
  PROVE  /\ StackOK(Front(s), N)
         /\ Under(Front(s), Len(Front(s)) + 1) = Under(s, Len(s))
<1>1. s \in Seq(FT(N))
  BY DEF StackOK
<1>2. /\ Len(s) \in Nat \ {0} /\ Front(s) \in Seq(FT(N)) /\ Len(Front(s)) = Len(s) - 1
      /\ \A k \in 1 .. Len(s) - 1 : Front(s)[k] = s[k]
  BY <1>1, FrontType
<1>3. ASSUME NEW k \in 1 .. Len(s) - 1
      PROVE  KidsOK(Front(s)[k], N) /\ Answers(Front(s)[k].fn, Under(Front(s), k))
  <2>1. Under(Front(s), k) = Under(s, k) /\ Front(s)[k] = s[k] /\ k \in 1 .. Len(s)
    BY <1>2 DEF Under
  <2> QED
    BY <2>1 DEF StackOK
<1>4. Under(Front(s), Len(Front(s)) + 1) = Under(s, Len(s))
  BY <1>2 DEF Under
<1> QED
  BY <1>2, <1>3, <1>4 DEF StackOK

LEMMA FrameOK ==
  ASSUME NEW N, NEW fn \in Functions
  PROVE  /\ Frame(fn) \in FT(N) /\ KidsOK(Frame(fn), N)
         /\ Frame(fn).fn = fn /\ Frame(fn).pc = "enter"
<1>1. << >> \in Seq(N)
  OBVIOUS
<1> QED
  BY <1>1 DEF Frame, FT, PCs, KidsOK, Functions

LEMMA PushOK ==
  ASSUME NEW N, NEW s, StackOK(s, N), NEW fn \in Functions,
         Answers(fn, Under(s, Len(s) + 1))
  PROVE  LET t == Append(s, Frame(fn))
         IN  StackOK(t, N) /\ Under(t, Len(t) + 1) = "enter"
<1> DEFINE t == Append(s, Frame(fn))
<1>1. s \in Seq(FT(N)) /\ Len(s) \in Nat
  BY DEF StackOK
<1>2. /\ t \in Seq(FT(N)) /\ Len(t) = Len(s) + 1 /\ t[Len(s) + 1] = Frame(fn)
      /\ \A k \in 1 .. Len(s) : t[k] = s[k]
  BY <1>1, FrameOK
<1> HIDE DEF t
<1>3. ASSUME NEW k \in 1 .. Len(s) + 1
      PROVE  KidsOK(t[k], N) /\ Answers(t[k].fn, Under(t, k))
  <2>1. Under(t, k) = Under(s, k)
    BY <1>1, <1>2 DEF Under
  <2>2. CASE k = Len(s) + 1
    BY <1>2, <2>1, <2>2, FrameOK
  <2>3. CASE k # Len(s) + 1
    <3>1. t[k] = s[k] /\ k \in 1 .. Len(s)
      BY <1>1, <1>2, <2>3
    <3> QED
      BY <2>1, <3>1 DEF StackOK
  <2> QED
    BY <2>2, <2>3
<1>4. Under(t, Len(t) + 1) = "enter"
  BY <1>1, <1>2, FrameOK DEF Under
<1> QED
  BY <1>2, <1>3, <1>4 DEF StackOK, t

(* What the running function knows. *)
LEMMA Knows ==
  ASSUME NEW N, NEW s, NEW r, Well(N, s, r), s # << >>
  PROVE  /\ Last(s) \in FT(N) /\ KidsOK(Last(s), N)
         /\ Last(s).pc \notin {"enter", "list", "head"} => r \in Wanted(Last(s).pc, N)
BY TopFrame DEF Well, RetOK

LEMMA WellGoes ==
  ASSUME NEW N, NEW s, NEW r, NEW q, Well(N, s, r), s # << >>,
         NEW f \in FT(N), KidsOK(f, N), f.fn = Last(s).fn,
         f.pc \in {"enter", "list", "head"} \/ q \in Wanted(f.pc, N)
  PROVE  Well(N, Append(Front(s), f), q)
<1>1. StackOK(s, N) /\ Answers(f.fn, Under(s, Len(s)))
  BY TopFrame DEF Well
<1> QED
  BY <1>1, GoesOK DEF Well, RetOK

LEMMA WellCalls ==
  ASSUME NEW N, NEW s, NEW r, NEW q, Well(N, s, r), s # << >>,
         NEW f \in FT(N), KidsOK(f, N), f.fn = Last(s).fn,
         NEW fn \in Functions, Answers(fn, f.pc)
  PROVE  Well(N, Append(Append(Front(s), f), Frame(fn)), q)
<1> DEFINE t == Append(Front(s), f)
<1>1. StackOK(s, N) /\ Answers(f.fn, Under(s, Len(s)))
  BY TopFrame DEF Well
<1>2. StackOK(t, N) /\ Under(t, Len(t) + 1) = f.pc
  BY <1>1, GoesOK
<1> HIDE DEF t
<1>3. StackOK(Append(t, Frame(fn)), N)
      /\ Under(Append(t, Frame(fn)), Len(Append(t, Frame(fn))) + 1) = "enter"
  BY <1>2, PushOK
<1> QED
  BY <1>3 DEF Well, RetOK, t

LEMMA WellGrows ==
  ASSUME NEW N, NEW s, NEW r, Well(N, s, r), NEW n, WellFormed(n, N)
  PROVE  Well(N \cup {n}, s, r)
<1>1. N \subseteq N \cup {n}
  OBVIOUS
<1>2. Good(N \cup {n}) /\ StackOK(s, N \cup {n})
  BY <1>1, GoodGrows, StackGrows DEF Well
<1>3. RetOK(s, r, N \cup {n})
  BY <1>1, SetsGrow DEF Well, RetOK, Wanted
<1> QED
  BY <1>2, <1>3 DEF Well

LEMMA WellLeaves ==
  ASSUME NEW N, NEW s, NEW r, Well(N, s, r), s # << >>,
         NEW n, WellFormed(n, N), n \in Result(Last(s).fn, N \cup {n})
  PROVE  Well(N \cup {n}, Front(s), n)
<1> DEFINE M == N \cup {n}
<1>1. Good(M) /\ StackOK(s, M)
  BY WellGrows DEF Well
<1> HIDE DEF M
<1>2. Answers(Last(s).fn, Under(s, Len(s)))
  BY <1>1, TopFrame
<1>3. StackOK(Front(s), M) /\ Under(Front(s), Len(Front(s)) + 1) = Under(s, Len(s))
  BY <1>1, LeavesOK
<1>4. n \in Wanted(Under(s, Len(s)), M)
  BY <1>2, AnswerFits DEF M
<1> QED
  BY <1>1, <1>3, <1>4 DEF Well, RetOK, M

-----------------------------------------------------------------------------
(***************************************************************************)
(* The steps of the functions.                                             *)
(***************************************************************************)
Kept == \E M : Well(M, stack', ret')

LEMMA Runs ==
  ASSUME NEW N, Well(N, stack, ret), NEW fn, NEW pc, Running(fn, pc)
  PROVE  /\ stack # << >> /\ Top \in FT(N) /\ KidsOK(Top, N)
         /\ Top.fn = fn /\ Top.pc = pc
         /\ pc \notin {"enter", "list", "head"} => ret \in Wanted(pc, N)
BY Knows DEF Running, Top

LEMMA GoesStep ==
  ASSUME NEW N, Well(N, stack, ret), stack # << >>,
         NEW f \in FT(N), KidsOK(f, N), f.fn = Top.fn, Goes(f),
         f.pc \in {"enter", "list", "head"} \/ ret' \in Wanted(f.pc, N)
  PROVE  Kept
BY WellGoes DEF Goes, Top, Kept

LEMMA CallStep ==
  ASSUME NEW N, Well(N, stack, ret), stack # << >>,
         NEW f \in FT(N), KidsOK(f, N), f.fn = Top.fn,
         NEW fn \in Functions, Answers(fn, f.pc), Call(f, fn)
  PROVE  Kept
BY WellCalls DEF Call, Top, Kept

LEMMA LeaveStep ==
  ASSUME NEW N, Well(N, stack, ret), stack # << >>,
         NEW n, WellFormed(n, N), n \in Result(Top.fn, N \cup {n}), Leave(n)
  PROVE  Kept
BY WellLeaves DEF Leave, Top, Kept

(* What the running function makes of its frame. *)
To(f, p) == [f EXCEPT !.pc = p]
Open(f, p, j) == [f EXCEPT !.pc = p, !.start = j]
Keep(f, p, k) == [f EXCEPT !.pc = p, !.kids = k]
Join(f, p, k, o) == [f EXCEPT !.pc = p, !.kids = k, !.op = o]

Updated(g, f, p, k, N) == g \in FT(N) /\ g.fn = f.fn /\ g.pc = p /\ g.kids = k

LEMMA Update ==
  ASSUME NEW N, NEW f \in FT(N), NEW p \in PCs
  PROVE  /\ Updated(To(f, p), f, p, f.kids, N)
         /\ \A j \in Nat : Updated(Open(f, p, j), f, p, f.kids, N)
         /\ \A k \in Seq(N) : Updated(Keep(f, p, k), f, p, k, N)
         /\ \A k \in Seq(N), o \in ArithKind :
              Updated(Join(f, p, k, o), f, p, k, N) /\ Join(f, p, k, o).op = o
BY DEF FT, To, Open, Keep, Join, Updated

LEMMA NodeSets ==
  ASSUME NEW N
  PROVE  Exprs(N) \subseteq N /\ Stmts(N) \subseteq N /\ Blocks(N) \subseteq Stmts(N)
BY DEF Exprs, Stmts, Blocks, StmtKinds

(* Calls that keep nothing. *)
LEMMA PlainCall ==
  ASSUME NEW N, Well(N, stack, ret), NEW fn, NEW pc, Running(fn, pc),
         NEW p \in {"semi", "cond", "init", "left", "minus", "postfix"},
         \/ fn \in {"sexpr", "sreturn"} /\ p = "semi"
         \/ fn = "sif" /\ p = "cond"
         \/ p \in {"init", "left", "minus", "postfix"},
         NEW callee \in ExprFns, Call(To(Top, p), callee)
  PROVE  Kept
<1>1. stack # << >> /\ Top \in FT(N) /\ Top.fn = fn
  BY Runs
<1>2. p \in PCs /\ callee \in Functions
  BY DEF PCs, Functions, ExprFns
<1>3. Updated(To(Top, p), Top, p, Top.kids, N)
  BY <1>1, <1>2, Update
<1>4. KidsOK(To(Top, p), N)
  BY <1>1, <1>3 DEF KidsOK, Updated
<1>5. Answers(callee, p)
  BY DEF Answers, AwaitsBlock, ExprFns
<1> QED
  BY <1>1, <1>2, <1>3, <1>4, <1>5, CallStep DEF Updated

LEMMA PlainCalls ==
  ASSUME NEW N, Well(N, stack, ret),
         SExpr \/ SReturn \/ SIf \/ ForInit \/ Descend \/ UnaryMinus \/ UnaryPrimary
  PROVE  Kept
<1> USE DEF To, ExprFns
<1>1. CASE SExpr
  BY <1>1, PlainCall DEF SExpr
<1>2. CASE SReturn
  BY <1>2, PlainCall DEF SReturn
<1>3. CASE SIf
  BY <1>3, PlainCall DEF SIf
<1>4. CASE ForInit
  BY <1>4, PlainCall DEF ForInit
<1>5. CASE Descend
  BY <1>5, PlainCall DEF Descend, Operand, Running
<1>6. CASE UnaryMinus
  BY <1>6, PlainCall DEF UnaryMinus
<1>7. CASE UnaryPrimary
  BY <1>7, PlainCall DEF UnaryPrimary
<1> QED
  BY <1>1, <1>2, <1>3, <1>4, <1>5, <1>6, <1>7

(* Calls that keep a list of nodes. *)
LEMMA KeepCall ==
  ASSUME NEW N, Well(N, stack, ret), stack # << >>, Top \in FT(N),
         NEW p \in PCs, NEW k \in Seq(N), KidsOK(Keep(Top, p, k), N),
         NEW callee \in Functions, Answers(callee, p), Call(Keep(Top, p, k), callee)
  PROVE  Kept
<1>1. Updated(Keep(Top, p, k), Top, p, k, N)
  BY Update
<1> QED
  BY <1>1, CallStep DEF Updated

LEMMA KeepFacts ==
  ASSUME NEW N, Top \in FT(N), NEW p \in PCs, NEW k \in Seq(N)
  PROVE  /\ Keep(Top, p, k) \in FT(N) /\ Keep(Top, p, k).fn = Top.fn
         /\ Keep(Top, p, k).pc = p /\ Keep(Top, p, k).kids = k
BY Update DEF Updated

LEMMA One ==
  ASSUME NEW S, NEW e \in S
  PROVE  <<e>> \in Seq(S) /\ Len(<<e>>) = 1 /\ <<e>>[1] = e
OBVIOUS

(* The first node is kept. *)
LEMMA KeepFirst ==
  ASSUME NEW N, Well(N, stack, ret), stack # << >>, Top \in FT(N), ret \in Exprs(N),
         NEW p \in {"block", "cond", "while"},
         \/ Top.fn = "sif" /\ p = "block"
         \/ Top.fn = "sfor" /\ p \in {"cond", "while"},
         NEW callee \in Functions, Answers(callee, p), Call(Keep(Top, p, <<ret>>), callee)
  PROVE  Kept
<1> DEFINE k == <<ret>>
           f == Keep(Top, p, k)
<1>1. k \in Seq(Exprs(N)) /\ k \in Seq(N) /\ Len(k) = 1 /\ k[1] \in Exprs(N)
  BY NodeSets, One
<1>2. p \in PCs
  BY DEF PCs
<1> HIDE DEF k
<1>3. f.fn = Top.fn /\ f.pc = p /\ f.kids = k
  BY <1>1, <1>2, KeepFacts
<1> HIDE DEF f
<1>4. KidsOK(f, N)
  <2>1. CASE Top.fn = "sif" /\ p = "block"
    <3>1. f.fn = "sif" /\ f.pc = "block" /\ Len(f.kids) = 1 /\ f.kids[1] \in Exprs(N)
      BY <1>1, <1>3, <2>1
    <3> QED
      BY <3>1 DEF KidsOK
  <2>2. CASE Top.fn = "sfor" /\ p \in {"cond", "while"}
    BY <1>1, <1>3, <2>2 DEF KidsOK
  <2> QED
    BY <2>1, <2>2
<1> QED
  BY <1>1, <1>2, <1>4, KeepCall DEF f, k

LEMMA FirstKept ==
  ASSUME NEW N, Well(N, stack, ret), IfBlock \/ ForCond \/ WhileBlock
  PROVE  Kept
<1>1. /\ "sblock" \in Functions /\ "eass" \in Functions
      /\ Answers("sblock", "block") /\ Answers("sblock", "while") /\ Answers("eass", "cond")
  BY DEF Functions, Answers, AwaitsBlock, ExprFns
<1>2. CASE IfBlock
  <2>1. Running("sif", "cond") /\ Call(Keep(Top, "block", <<ret>>), "sblock")
    BY <1>2 DEF IfBlock, Keep
  <2>2. /\ stack # << >> /\ Top \in FT(N) /\ Top.fn = "sif"
        /\ ret \in Wanted("cond", N)
    BY <2>1, Runs
  <2>3. ret \in Exprs(N)
    BY <2>2 DEF Wanted, AwaitsBlock
  <2> QED
    BY <1>1, <2>1, <2>2, <2>3, KeepFirst
<1>3. CASE ForCond
  <2>1. Running("sfor", "init") /\ Call(Keep(Top, "cond", <<ret>>), "eass")
    BY <1>3 DEF ForCond, Keep
  <2>2. /\ stack # << >> /\ Top \in FT(N) /\ Top.fn = "sfor"
        /\ ret \in Wanted("init", N)
    BY <2>1, Runs
  <2>3. ret \in Exprs(N)
    BY <2>2 DEF Wanted, AwaitsBlock
  <2> QED
    BY <1>1, <2>1, <2>2, <2>3, KeepFirst
<1>4. CASE WhileBlock
  <2>1. Running("sfor", "init") /\ Call(Keep(Top, "while", <<ret>>), "sblock")
    BY <1>4 DEF WhileBlock, Keep
  <2>2. /\ stack # << >> /\ Top \in FT(N) /\ Top.fn = "sfor"
        /\ ret \in Wanted("init", N)
    BY <2>1, Runs
  <2>3. ret \in Exprs(N)
    BY <2>2 DEF Wanted, AwaitsBlock
  <2> QED
    BY <1>1, <2>1, <2>2, <2>3, KeepFirst
<1> QED
  BY <1>2, <1>3, <1>4

LEMMA Appended ==
  ASSUME NEW S, NEW s \in Seq(S), NEW e \in S
  PROVE  /\ Append(s, e) \in Seq(S)
         /\ Len(Append(s, e)) = Len(s) + 1
         /\ Append(s, e)[Len(s) + 1] = e
         /\ \A k \in 1 .. Len(s) : Append(s, e)[k] = s[k]
         /\ Len(s) \in Nat
OBVIOUS

LEMMA LastAppended ==
  ASSUME NEW S, NEW s \in Seq(S), NEW e \in S
  PROVE  Append(s, e)[Len(s) + 1] = e
BY Appended

LEMMA FirstAppended ==
  ASSUME NEW S, NEW s \in Seq(S), NEW e \in S
  PROVE  \A k \in 1 .. Len(s) : Append(s, e)[k] = s[k]
BY Appended

LEMMA AppendedToOne ==
  ASSUME NEW S, NEW s \in Seq(S), Len(s) = 1, NEW e \in S
  PROVE  /\ Append(s, e) \in Seq(S)
         /\ Append(s, e)[1] = s[1] /\ Append(s, e)[2] = e
<1>1. Append(s, e) \in Seq(S)
  BY Appended, Zenon
<1>2. Append(s, e)[Len(s) + 1] = e
  BY LastAppended, Zenon
<1>3. \A k \in 1 .. Len(s) : Append(s, e)[k] = s[k]
  BY FirstAppended, Zenon
<1> DEFINE t == Append(s, e)
<1>4. t \in Seq(S) /\ t[Len(s) + 1] = e /\ \A k \in 1 .. Len(s) : t[k] = s[k]
  BY <1>1, <1>2, <1>3, Zenon
<1> HIDE DEF t
<1>5. t[1] = s[1] /\ t[2] = e
  BY <1>4
<1> QED
  BY <1>4, <1>5 DEF t

(* The block of an if is kept, and its else is called. *)
LEMMA IfElseKept ==
  ASSUME NEW N, Well(N, stack, ret), IfElse
  PROVE  Kept
<1> DEFINE k == Append(Top.kids, ret)
           f == Keep(Top, "else", k)
<1>1. Running("sif", "block") /\ "else" \in PCs
  BY DEF IfElse, PCs
<1>2. /\ Top \in FT(N) /\ KidsOK(Top, N) /\ Top.fn = "sif" /\ Top.pc = "block"
      /\ ret \in Blocks(N)
  BY <1>1, Runs DEF Wanted, AwaitsBlock
<1>3. Top.kids \in Seq(N) /\ Len(Top.kids) = 1 /\ Top.kids[1] \in Exprs(N) /\ ret \in N
  BY <1>2, NodeSets DEF FT, KidsOK
<1>4. k \in Seq(N) /\ Len(k) = 2 /\ k[1] = Top.kids[1] /\ k[2] = ret
  <2>1. /\ k \in Seq(N) /\ Len(k) = Len(Top.kids) + 1 /\ k[Len(Top.kids) + 1] = ret
        /\ \A j \in 1 .. Len(Top.kids) : k[j] = Top.kids[j]
    BY <1>3
  <2> QED
    BY <1>3, <2>1
<1>5. Call(f, "sblock")
  BY <1>2 DEF IfElse, Keep, FT
<1> HIDE DEF k
<1>6. f.fn = "sif" /\ f.pc = "else" /\ f.kids = k
  BY <1>1, <1>2, <1>4, KeepFacts
<1> HIDE DEF f
<1>7. KidsOK(f, N)
  BY <1>2, <1>3, <1>4, <1>6 DEF KidsOK
<1>8. Answers("sblock", "else") /\ "sblock" \in Functions
  BY DEF Functions, Answers, AwaitsBlock
<1> QED
  BY <1>1, <1>2, <1>4, <1>5, <1>7, <1>8, KeepCall, Runs DEF f

(* The statements of a block. *)
LEMMA ListOK ==
  ASSUME NEW N, Well(N, stack, ret), InBlock
  PROVE  /\ stack # << >> /\ Top \in FT(N) /\ Top.fn = "sblock"
         /\ List \in Seq(Stmts(N)) /\ List \in Seq(N)
<1>1. /\ stack # << >> /\ Top \in FT(N) /\ KidsOK(Top, N) /\ Top.fn = "sblock"
      /\ Top.pc \in {"list", "stmt"}
      /\ Top.pc = "stmt" => ret \in Wanted("stmt", N)
  BY Runs DEF InBlock
<1>2. Top.kids \in Seq(Stmts(N))
  BY <1>1 DEF KidsOK
<1>3. Top.pc = "stmt" => ret \in Stmts(N)
  BY <1>1 DEF Wanted, AwaitsBlock
<1>4. List \in Seq(Stmts(N))
  BY <1>2, <1>3, Appended DEF List
<1>5. List \in Seq(N)
  BY <1>4, NodeSets, SeqGrows
<1> QED
  BY <1>1, <1>4, <1>5

LEMMA BlockStmtKept ==
  ASSUME NEW N, Well(N, stack, ret), BlockStmt
  PROVE  Kept
<1> DEFINE f == Keep(Top, "stmt", List)
<1>1. /\ stack # << >> /\ Top \in FT(N) /\ Top.fn = "sblock"
      /\ List \in Seq(Stmts(N)) /\ List \in Seq(N)
  BY ListOK DEF BlockStmt
<1>2. "stmt" \in PCs /\ "sstmt" \in Functions /\ Answers("sstmt", "stmt")
  BY DEF PCs, Functions, Answers, AwaitsBlock, StmtFns
<1>3. Call(f, "sstmt")
  BY DEF BlockStmt, Keep
<1>4. f.fn = "sblock" /\ f.pc = "stmt" /\ f.kids = List
  BY <1>1, <1>2, KeepFacts
<1> HIDE DEF f
<1>5. KidsOK(f, N)
  BY <1>1, <1>4 DEF KidsOK
<1> QED
  BY <1>1, <1>2, <1>3, <1>5, KeepCall DEF f

(* The expressions of a for. *)
LEMMA ForKids ==
  ASSUME NEW N, Well(N, stack, ret),
         NEW pc \in {"cond", "semi", "post"}, Running("sfor", pc)
  PROVE  /\ stack # << >> /\ Top \in FT(N) /\ Top.fn = "sfor" /\ Top.pc = pc
         /\ Top.kids \in Seq(Exprs(N)) /\ ret \in Exprs(N)
         /\ Len(Top.kids) = IF pc = "cond" THEN 1 ELSE 2
<1>1. /\ stack # << >> /\ Top \in FT(N) /\ KidsOK(Top, N) /\ Top.fn = "sfor" /\ Top.pc = pc
      /\ ret \in Wanted(pc, N)
  BY Runs
<1>2. Top.kids \in Seq(Exprs(N))
  BY <1>1 DEF KidsOK
<1>3. Len(Top.kids) = IF pc = "cond" THEN 1 ELSE 2
  BY <1>1 DEF KidsOK
<1>4. ret \in Exprs(N)
  BY <1>1 DEF Wanted, AwaitsBlock
<1> QED
  BY <1>1, <1>2, <1>3, <1>4

LEMMA ForPostKept ==
  ASSUME NEW N, Well(N, stack, ret), ForPost
  PROVE  Kept
<1> DEFINE f == To(Top, "post")
<1>1. Running("sfor", "semi") /\ Call(f, "eass")
  BY DEF ForPost, To
<1>2. /\ stack # << >> /\ Top \in FT(N) /\ Top.fn = "sfor"
      /\ Top.kids \in Seq(Exprs(N)) /\ Len(Top.kids) = 2
  BY <1>1, ForKids
<1>3. "post" \in PCs /\ "eass" \in Functions /\ Answers("eass", "post")
  BY DEF PCs, Functions, Answers, AwaitsBlock, ExprFns
<1>4. f \in FT(N) /\ f.fn = "sfor" /\ f.pc = "post" /\ f.kids = Top.kids
  BY <1>2, <1>3, Update DEF Updated
<1> HIDE DEF f
<1>5. f.kids \in Seq(Exprs(N)) /\ Len(f.kids) = 2
  BY <1>2, <1>4
<1>6. KidsOK(f, N)
  BY <1>4, <1>5 DEF KidsOK
<1> QED
  BY <1>1, <1>2, <1>3, <1>4, <1>6, CallStep

LEMMA Built ==
  ASSUME NEW N, NEW e1 \in Exprs(N), NEW e2 \in Exprs(N), NEW e3 \in Exprs(N)
  PROVE  /\ \A op \in ArithKind : WellFormed(NewBinop(op, e1, e2), N)
         /\ IsVariable(e1) => WellFormed(NewBinop("BINOP_ASS", e1, e2), N)
         /\ \A op \in UnaopKind : WellFormed(NewUnary(op, e1), N)
         /\ WellFormed(NewStReturn(e1), N) /\ WellFormed(NewStExpr(e1), N)
         /\ \A b \in Blocks(N) :
              /\ WellFormed(NewStIf(e1, b, NULL), N)
              /\ \A c \in Blocks(N) : WellFormed(NewStIf(e1, b, c), N)
              /\ WellFormed(NewStFor(e1, e2, e3, b), N)
              /\ WellFormed(NewStForWhile(e1, b), N)
<1>1. /\ \A op \in ArithKind : WellFormed(NewBinop(op, e1, e2), N)
      /\ IsVariable(e1) => WellFormed(NewBinop("BINOP_ASS", e1, e2), N)
  BY DEF WellFormed, NewBinop, BinopKind, ArithKind, IsVariable
<1>2. /\ \A op \in UnaopKind : WellFormed(NewUnary(op, e1), N)
      /\ WellFormed(NewStReturn(e1), N) /\ WellFormed(NewStExpr(e1), N)
  BY DEF WellFormed, NewUnary, NewStReturn, NewStExpr
<1>3. ASSUME NEW b \in Blocks(N)
      PROVE  /\ WellFormed(NewStIf(e1, b, NULL), N)
             /\ \A c \in Blocks(N) : WellFormed(NewStIf(e1, b, c), N)
  BY DEF WellFormed, NewStIf
<1>4. ASSUME NEW b \in Blocks(N)
      PROVE  /\ WellFormed(NewStFor(e1, e2, e3, b), N)
             /\ WellFormed(NewStForWhile(e1, b), N)
  BY DEF WellFormed, NewStFor, NewStForWhile
<1> QED
  BY <1>1, <1>2, <1>3, <1>4

LEMMA BuiltLeaves ==
  ASSUME NEW N
  PROVE  /\ \A x : WellFormed(NewLit("LK_ID", x), N)
         /\ \A v \in Nat : WellFormed(NewLit("LK_INT", v), N)
         /\ \A l \in Seq(Stmts(N)) : WellFormed(NewStBlock(l), N)
BY DEF WellFormed, NewLit, NewStBlock

LEMMA Grown ==
  ASSUME NEW N, NEW n
  PROVE  /\ n.kind \in ExprKinds => n \in Exprs(N \cup {n})
         /\ n.kind \in StmtKinds => n \in Stmts(N \cup {n})
         /\ n.kind = "NKSt_BLOCK" => n \in Blocks(N \cup {n})
BY DEF Exprs, Stmts, Blocks

LEMMA Kinds ==
  /\ \A op, a, b : NewBinop(op, a, b).kind \in ExprKinds
  /\ \A op, a : NewUnary(op, a).kind \in ExprKinds
  /\ \A l, x : NewLit(l, x).kind \in ExprKinds
  /\ \A a : NewStReturn(a).kind \in StmtKinds /\ NewStExpr(a).kind \in StmtKinds
  /\ \A l : NewStBlock(l).kind = "NKSt_BLOCK"
  /\ \A a, b, c : NewStIf(a, b, c).kind \in StmtKinds
  /\ \A a, b, c, d : NewStFor(a, b, c, d).kind \in StmtKinds
  /\ \A a, b : NewStForWhile(a, b).kind \in StmtKinds
BY DEF NewBinop, NewUnary, NewLit, NewStReturn, NewStExpr, NewStBlock, NewStIf, NewStFor,
       NewStForWhile, ExprKinds, StmtKinds

-----------------------------------------------------------------------------
(***************************************************************************)
(* The steps that leave a result.                                          *)
(***************************************************************************)
LEMMA LeaveExpr ==
  ASSUME NEW N, Well(N, stack, ret), stack # << >>, Top.fn \in ExprFns,
         NEW n, WellFormed(n, N), n.kind \in ExprKinds, Leave(n)
  PROVE  Kept
<1>1. n \in Result(Top.fn, N \cup {n})
  BY Grown DEF Result, ExprFns, StmtFns
<1> QED
  BY <1>1, LeaveStep

LEMMA LeaveStmt ==
  ASSUME NEW N, Well(N, stack, ret), stack # << >>, Top.fn \in StmtFns \ {"sblock"},
         NEW n, WellFormed(n, N), n.kind \in StmtKinds, Leave(n)
  PROVE  Kept
<1>1. n \in Result(Top.fn, N \cup {n})
  BY Grown DEF Result
<1> QED
  BY <1>1, LeaveStep

LEMMA StmtLeaves ==
  ASSUME NEW N, Well(N, stack, ret), SExprEnd \/ SReturnEnd \/ BlockClose
  PROVE  Kept
<1>1. CASE BlockClose
  <2>1. InBlock /\ Leave(NewStBlock(List))
    BY <1>1 DEF BlockClose
  <2>2. /\ stack # << >> /\ Top.fn = "sblock"
        /\ WellFormed(NewStBlock(List), N)
    BY <2>1, ListOK, BuiltLeaves
  <2>3. NewStBlock(List) \in Result(Top.fn, N \cup {NewStBlock(List)})
    BY <2>2, Kinds, Grown DEF Result
  <2> QED
    BY <2>1, <2>2, <2>3, LeaveStep
<1>2. CASE SExprEnd
  <2>1. Running("sexpr", "semi") /\ Leave(NewStExpr(ret))
    BY <1>2 DEF SExprEnd, Semi
  <2>2. stack # << >> /\ Top.fn = "sexpr" /\ ret \in Wanted("semi", N)
    BY <2>1, Runs
  <2>3. ret \in Exprs(N)
    BY <2>2 DEF Wanted, AwaitsBlock
  <2>4. WellFormed(NewStExpr(ret), N)
    BY <2>3, Built
  <2>5. Top.fn \in StmtFns \ {"sblock"}
    BY <2>2 DEF StmtFns
  <2> QED
    BY <2>1, <2>2, <2>4, <2>5, Kinds, LeaveStmt
<1>3. CASE SReturnEnd
  <2>1. Running("sreturn", "semi") /\ Leave(NewStReturn(ret))
    BY <1>3 DEF SReturnEnd, Semi
  <2>2. stack # << >> /\ Top.fn = "sreturn" /\ ret \in Wanted("semi", N)
    BY <2>1, Runs
  <2>3. ret \in Exprs(N)
    BY <2>2 DEF Wanted, AwaitsBlock
  <2>4. WellFormed(NewStReturn(ret), N)
    BY <2>3, Built
  <2>5. Top.fn \in StmtFns \ {"sblock"}
    BY <2>2 DEF StmtFns
  <2> QED
    BY <2>1, <2>2, <2>4, <2>5, Kinds, LeaveStmt
<1> QED
  BY <1>1, <1>2, <1>3

LEMMA IfLeaves ==
  ASSUME NEW N, Well(N, stack, ret), IfEnd \/ IfElseEnd
  PROVE  Kept
<1>0. "sif" \in StmtFns \ {"sblock"}
  BY DEF StmtFns
<1>1. CASE IfEnd
  <2> DEFINE n == NewStIf(Top.kids[1], ret, NULL)
  <2>1. Running("sif", "block") /\ Leave(n)
    BY <1>1 DEF IfEnd
  <2>2. stack # << >> /\ Top.fn = "sif" /\ Top.pc = "block" /\ KidsOK(Top, N)
        /\ ret \in Wanted("block", N)
    BY <2>1, Runs
  <2>3. ret \in Blocks(N) /\ Top.kids[1] \in Exprs(N)
    BY <2>2 DEF Wanted, AwaitsBlock, KidsOK
  <2>4. WellFormed(n, N) /\ n.kind \in StmtKinds
    BY <2>3, Built, Kinds
  <2> QED
    BY <1>0, <2>1, <2>2, <2>4, LeaveStmt
<1>2. CASE IfElseEnd
  <2> DEFINE n == NewStIf(Top.kids[1], Top.kids[2], ret)
  <2>1. Running("sif", "else") /\ Leave(n)
    BY <1>2 DEF IfElseEnd
  <2>2. stack # << >> /\ Top.fn = "sif" /\ Top.pc = "else" /\ KidsOK(Top, N)
        /\ ret \in Wanted("else", N)
    BY <2>1, Runs
  <2>3. ret \in Blocks(N) /\ Top.kids[1] \in Exprs(N) /\ Top.kids[2] \in Blocks(N)
    BY <2>2 DEF Wanted, AwaitsBlock, KidsOK
  <2>4. WellFormed(n, N) /\ n.kind \in StmtKinds
    BY <2>3, Built, Kinds
  <2> QED
    BY <1>0, <2>1, <2>2, <2>4, LeaveStmt
<1> QED
  BY <1>1, <1>2

LEMMA ForLeaves ==
  ASSUME NEW N, Well(N, stack, ret), WhileEnd \/ ForEnd
  PROVE  Kept
<1>0. "sfor" \in StmtFns \ {"sblock"}
  BY DEF StmtFns
<1>1. CASE WhileEnd
  <2> DEFINE n == NewStForWhile(Top.kids[1], ret)
  <2>1. Running("sfor", "while") /\ Leave(n)
    BY <1>1 DEF WhileEnd
  <2>2. stack # << >> /\ Top.fn = "sfor" /\ Top.pc = "while" /\ KidsOK(Top, N)
        /\ ret \in Wanted("while", N)
    BY <2>1, Runs
  <2>3. ret \in Blocks(N) /\ Top.kids \in Seq(Exprs(N)) /\ Len(Top.kids) = 1
    BY <2>2 DEF Wanted, AwaitsBlock, KidsOK
  <2>4. Top.kids[1] \in Exprs(N)
    BY <2>3
  <2>5. WellFormed(n, N) /\ n.kind \in StmtKinds
    BY <2>3, <2>4, Built, Kinds
  <2> QED
    BY <1>0, <2>1, <2>2, <2>5, LeaveStmt
<1>2. CASE ForEnd
  <2> DEFINE n == NewStFor(Top.kids[1], Top.kids[2], Top.kids[3], ret)
  <2>1. Running("sfor", "block") /\ Leave(n)
    BY <1>2 DEF ForEnd
  <2>2. stack # << >> /\ Top.fn = "sfor" /\ Top.pc = "block" /\ KidsOK(Top, N)
        /\ ret \in Wanted("block", N)
    BY <2>1, Runs
  <2>3. ret \in Blocks(N) /\ Top.kids \in Seq(Exprs(N)) /\ Len(Top.kids) = 3
    BY <2>2 DEF Wanted, AwaitsBlock, KidsOK
  <2>4. /\ Top.kids[1] \in Exprs(N) /\ Top.kids[2] \in Exprs(N)
        /\ Top.kids[3] \in Exprs(N)
    BY <2>3
  <2>5. WellFormed(n, N) /\ n.kind \in StmtKinds
    BY <2>3, <2>4, Built, Kinds
  <2> QED
    BY <1>0, <2>1, <2>2, <2>5, LeaveStmt
<1> QED
  BY <1>1, <1>2

(* The node a loop of eadd or emul has so far. *)
LEMMA LeftOK ==
  ASSUME NEW N, Well(N, stack, ret), InLoop
  PROVE  /\ stack # << >> /\ Top \in FT(N) /\ Top.fn \in {"eadd", "emul"}
         /\ WellFormed(Left, N) /\ Left.kind \in ExprKinds
<1>1. PICK fn \in {"eadd", "emul"}, pc \in {"left", "right"} : Running(fn, pc)
  BY DEF InLoop, Operators
<1>2. /\ stack # << >> /\ Top \in FT(N) /\ KidsOK(Top, N) /\ Top.fn = fn /\ Top.pc = pc
      /\ ret \in Wanted(pc, N)
  BY <1>1, Runs
<1>3. ret \in Exprs(N)
  BY <1>1, <1>2 DEF Wanted, AwaitsBlock
<1>4. CASE pc = "right"
  <2>1. Top.kids[1] \in Exprs(N) /\ Top.op \in ArithKind
    BY <1>2, <1>4 DEF KidsOK
  <2>2. Left = NewBinop(Top.op, Top.kids[1], ret)
    BY <1>2, <1>4 DEF Left
  <2> QED
    BY <1>2, <1>3, <2>1, <2>2, Built, Kinds
<1>5. CASE pc = "left"
  <2>1. Left = ret
    BY <1>2, <1>5 DEF Left
  <2> QED
    BY <1>2, <1>3, <2>1 DEF Exprs, Well, Good
<1> QED
  BY <1>4, <1>5

(* A function of an expression has an expression to go on with. *)
LEMMA HasExpr ==
  ASSUME NEW N, Well(N, stack, ret), NEW fn \in ExprFns,
         NEW pc \in {"left", "right", "minus", "postfix", "paren"}, Running(fn, pc)
  PROVE  /\ stack # << >> /\ Top \in FT(N) /\ KidsOK(Top, N)
         /\ Top.fn = fn /\ Top.pc = pc
         /\ ret \in Exprs(N) /\ WellFormed(ret, N) /\ ret.kind \in ExprKinds
<1>1. /\ stack # << >> /\ Top \in FT(N) /\ KidsOK(Top, N) /\ Top.fn = fn /\ Top.pc = pc
      /\ ret \in Wanted(pc, N)
  BY Runs
<1>2. ret \in Exprs(N)
  BY <1>1 DEF Wanted, AwaitsBlock
<1> QED
  BY <1>1, <1>2 DEF Exprs, Well, Good

LEMMA ExprLeaves ==
  ASSUME NEW N, Well(N, stack, ret),
         NoAssign \/ AssignEnd \/ NoOperator \/ UnaryMinusEnd \/ NoPostfix \/ ParenClose
  PROVE  Kept
<1>0. /\ "eass" \in ExprFns /\ "eadd" \in ExprFns /\ "emul" \in ExprFns
      /\ "eunary" \in ExprFns /\ "eprimary" \in ExprFns
  BY DEF ExprFns
<1>1. CASE NoAssign
  <2>1. Running("eass", "left") /\ Leave(ret)
    BY <1>1 DEF NoAssign
  <2>2. stack # << >> /\ Top.fn = "eass" /\ WellFormed(ret, N) /\ ret.kind \in ExprKinds
    BY <1>0, <2>1, HasExpr
  <2> QED
    BY <1>0, <2>1, <2>2, LeaveExpr
<1>2. CASE NoPostfix
  <2>1. Running("eunary", "postfix") /\ Leave(ret)
    BY <1>2 DEF NoPostfix
  <2>2. stack # << >> /\ Top.fn = "eunary" /\ WellFormed(ret, N) /\ ret.kind \in ExprKinds
    BY <1>0, <2>1, HasExpr
  <2> QED
    BY <1>0, <2>1, <2>2, LeaveExpr
<1>3. CASE ParenClose
  <2>1. Running("eprimary", "paren") /\ Leave(ret)
    BY <1>3 DEF ParenClose
  <2>2. stack # << >> /\ Top.fn = "eprimary" /\ WellFormed(ret, N) /\ ret.kind \in ExprKinds
    BY <1>0, <2>1, HasExpr
  <2> QED
    BY <1>0, <2>1, <2>2, LeaveExpr
<1>4. CASE UnaryMinusEnd
  <2> DEFINE n == NewUnary("UNAOP_NEG", ret)
  <2>1. Running("eunary", "minus") /\ Leave(n)
    BY <1>4 DEF UnaryMinusEnd
  <2>2. stack # << >> /\ Top.fn = "eunary" /\ ret \in Exprs(N)
    BY <1>0, <2>1, HasExpr
  <2>3. "UNAOP_NEG" \in UnaopKind
    BY DEF UnaopKind
  <2>4. WellFormed(n, N) /\ n.kind \in ExprKinds
    BY <2>2, <2>3, Built, Kinds
  <2> QED
    BY <1>0, <2>1, <2>2, <2>4, LeaveExpr
<1>5. CASE AssignEnd
  <2> DEFINE n == NewBinop("BINOP_ASS", Top.kids[1], ret)
  <2>1. Running("eass", "right") /\ Leave(n)
    BY <1>5 DEF AssignEnd
  <2>2. /\ stack # << >> /\ Top.fn = "eass" /\ Top.pc = "right" /\ KidsOK(Top, N)
        /\ ret \in Exprs(N)
    BY <1>0, <2>1, HasExpr
  <2>3. Top.kids[1] \in Exprs(N) /\ IsVariable(Top.kids[1])
    BY <2>2 DEF KidsOK
  <2>4. WellFormed(n, N) /\ n.kind \in ExprKinds
    BY <2>2, <2>3, Built, Kinds
  <2> QED
    BY <1>0, <2>1, <2>2, <2>4, LeaveExpr
<1>6. CASE NoOperator
  <2>1. InLoop /\ Leave(Left)
    BY <1>6 DEF NoOperator
  <2>2. /\ stack # << >> /\ Top.fn \in {"eadd", "emul"}
        /\ WellFormed(Left, N) /\ Left.kind \in ExprKinds
    BY <2>1, LeftOK
  <2> QED
    BY <1>0, <2>1, <2>2, LeaveExpr
<1> QED
  BY <1>1, <1>2, <1>3, <1>4, <1>5, <1>6

(* A number of a text has a value. *)
LEMMA LiteralLeaves ==
  ASSUME NEW N, Well(N, stack, ret), AInv, phase = "parsing", Literal
  PROVE  Kept
<1> DEFINE n == NewLit(Literals[CTok.kind], CTok.str)
<1>1. Running("eprimary", "enter") /\ CTok.kind \in {"TK_ID", "TK_INT"} /\ Leave(n)
  BY DEF Literal, Literals
<1>2. stack # << >> /\ Top.fn \in ExprFns
  BY <1>1, Runs DEF ExprFns
<1>3. CTok.kind = "TK_INT" => CTok.str \in Nat
  <2>1. /\ text \in Texts /\ at \in Nat /\ at >= 1 /\ Len(text) \in Nat
        /\ CTok.kind # "TK_EOF"
    BY <1>1, TokenKinds DEF AInv
  <2>2. at \in 1 .. Len(text) /\ CTok = text[at]
    BY <2>1, TokenKinds DEF CTok
  <2> QED
    BY <2>1, <2>2, TextsAssumption DEF InText
<1>4. Literals["TK_ID"] = "LK_ID" /\ Literals["TK_INT"] = "LK_INT"
  BY DEF Literals
<1>5. WellFormed(n, N)
  <2>1. CASE CTok.kind = "TK_ID"
    BY <1>4, <2>1, BuiltLeaves
  <2>2. CASE CTok.kind = "TK_INT"
    BY <1>3, <1>4, <2>2, BuiltLeaves
  <2> QED
    BY <1>1, <2>1, <2>2
<1> QED
  BY <1>1, <1>2, <1>5, Kinds, LeaveExpr

-----------------------------------------------------------------------------
(***************************************************************************)
(* The steps that keep an expression and call.                             *)
(***************************************************************************)
LEMMA OperatorKept ==
  ASSUME NEW N, Well(N, stack, ret), Operator
  PROVE  Kept
<1> DEFINE M == N \cup {Left}
           k == <<Left>>
           o == Operators[Top.fn][CTok.kind]
           f == Join(Top, "right", k, o)
<1>1. InLoop /\ CTok.kind \in DOMAIN Operators[Top.fn] /\ Call(f, Operand[Top.fn])
  BY DEF Operator, Join
<1>2. /\ stack # << >> /\ Top.fn \in {"eadd", "emul"}
      /\ WellFormed(Left, N) /\ Left.kind \in ExprKinds
  BY <1>1, LeftOK
<1>3. Well(M, stack, ret) /\ Left \in Exprs(M) /\ Left \in M
  BY <1>2, WellGrows, Grown
<1>4. o \in ArithKind
  BY <1>1, <1>2 DEF Operators, ArithKind
<1>5. Operand[Top.fn] \in Functions /\ Answers(Operand[Top.fn], "right") /\ "right" \in PCs
  BY <1>2 DEF Operand, Functions, Answers, AwaitsBlock, ExprFns, PCs
<1> HIDE DEF M
<1>6. Top \in FT(M) /\ Top.fn \in {"eadd", "emul"}
  BY <1>2, <1>3, Knows DEF Top
<1>7. k \in Seq(M) /\ k[1] \in Exprs(M)
  BY <1>3, One
<1> HIDE DEF k, o
<1>8. f \in FT(M) /\ f.fn = Top.fn /\ f.pc = "right" /\ f.kids = k /\ f.op = o
  BY <1>4, <1>5, <1>6, <1>7, Update DEF Updated
<1> HIDE DEF f
<1>9. f.fn \in {"eadd", "emul"} /\ f.kids[1] \in Exprs(M) /\ f.op \in ArithKind
  BY <1>4, <1>6, <1>7, <1>8
<1>10. KidsOK(f, M)
  BY <1>8, <1>9 DEF KidsOK
<1> QED
  BY <1>1, <1>2, <1>3, <1>5, <1>8, <1>10, CallStep

LEMMA AssignKept ==
  ASSUME NEW N, Well(N, stack, ret), Assign, phase' = "parsing"
  PROVE  Kept
<1> DEFINE k == <<ret>>
           f == Keep(Top, "right", k)
<1>1. Running("eass", "left") /\ Call(f, "eass")
  BY DEF Assign, Keep
<1>2. IsVariable(ret)
  BY DEF Assign, Advance, Fail
<1>3. "eass" \in ExprFns /\ "eass" \in Functions /\ "right" \in PCs /\ Answers("eass", "right")
  BY DEF ExprFns, Functions, PCs, Answers, AwaitsBlock
<1>4. stack # << >> /\ Top \in FT(N) /\ Top.fn = "eass" /\ ret \in Exprs(N)
  BY <1>1, <1>3, HasExpr
<1>5. k \in Seq(N) /\ k[1] \in Exprs(N) /\ IsVariable(k[1])
  BY <1>2, <1>4, NodeSets, One
<1> HIDE DEF k
<1>6. f \in FT(N) /\ f.fn = "eass" /\ f.pc = "right" /\ f.kids = k
  BY <1>3, <1>4, <1>5, KeepFacts
<1> HIDE DEF f
<1>7. f.kids[1] \in Exprs(N) /\ IsVariable(f.kids[1])
  BY <1>5, <1>6
<1>8. KidsOK(f, N)
  BY <1>6, <1>7 DEF KidsOK
<1> QED
  BY <1>1, <1>3, <1>4, <1>6, <1>8, CallStep

LEMMA ParenKept ==
  ASSUME NEW N, Well(N, stack, ret), AInv, ParenOpen
  PROVE  Kept
<1> DEFINE f == Open(Top, "paren", at)
<1>1. Running("eprimary", "enter") /\ Call(f, "eass") /\ at \in Nat
  BY DEF ParenOpen, Open, AInv
<1>2. stack # << >> /\ Top \in FT(N) /\ Top.fn = "eprimary"
  BY <1>1, Runs
<1>3. "eass" \in Functions /\ "paren" \in PCs /\ Answers("eass", "paren")
  BY DEF ExprFns, Functions, PCs, Answers, AwaitsBlock
<1>4. f \in FT(N) /\ f.fn = "eprimary" /\ f.pc = "paren"
  BY <1>1, <1>2, <1>3, Update DEF Updated
<1> HIDE DEF f
<1>5. KidsOK(f, N)
  BY <1>4 DEF KidsOK
<1> QED
  BY <1>1, <1>2, <1>3, <1>4, <1>5, CallStep

LEMMA DefaultOK ==
  ASSUME NEW N, NEW v \in Nat
  PROVE  WellFormed(Default(v), N) /\ Default(v).kind \in ExprKinds
BY BuiltLeaves, Kinds DEF Default

LEMMA ForBlockKept ==
  ASSUME NEW N, Well(N, stack, ret), ForBlock
  PROVE  Kept
<1> DEFINE post == IF Top.pc = "post" THEN ret ELSE Default(0)
           M == N \cup {post}
           k == Append(Top.kids, post)
           f == Keep(Top, "block", k)
<1>1. PICK pc \in {"semi", "post"} : Running("sfor", pc)
  BY DEF ForBlock
<1>2. /\ stack # << >> /\ Top \in FT(N) /\ Top.fn = "sfor" /\ Top.pc = pc
      /\ Top.kids \in Seq(Exprs(N)) /\ ret \in Exprs(N) /\ Len(Top.kids) = 2
  BY <1>1, ForKids
<1>3. WellFormed(post, N) /\ post.kind \in ExprKinds
  <2>1. WellFormed(ret, N) /\ ret.kind \in ExprKinds
    BY <1>2 DEF Exprs, Well, Good
  <2> QED
    BY <2>1, DefaultOK
<1>4. Call(f, "sblock")
  BY <1>2 DEF ForBlock, Keep, FT
<1> HIDE DEF post
<1>5. Well(M, stack, ret) /\ post \in Exprs(M) /\ N \subseteq M
  BY <1>3, WellGrows, Grown
<1> HIDE DEF M
<1>6. Top \in FT(M) /\ Top.kids \in Seq(Exprs(M))
  BY <1>2, <1>5, Knows, SetsGrow, SeqGrows DEF Top
<1>7. k \in Seq(Exprs(M)) /\ Len(k) = 3
  <2>1. PICK s \in Seq(Exprs(M)) : s = Top.kids
    BY <1>2, <1>5, <1>6
  <2>2. PICK e \in Exprs(M) : e = post
    BY <1>2, <1>5, <1>6
  <2>3. Append(s, e) \in Seq(Exprs(M)) /\ Len(Append(s, e)) = Len(s) + 1
    OBVIOUS
  <2>4. k = Append(s, e) /\ Len(s) = 2
    BY <1>2, <2>1, <2>2
  <2> HIDE DEF k
  <2> QED
    BY <2>3, <2>4
<1> HIDE DEF k
<1>8. k \in Seq(M)
  BY <1>7, NodeSets, SeqGrows
<1>9. "block" \in PCs /\ "sblock" \in Functions /\ Answers("sblock", "block")
  BY DEF PCs, Functions, Answers, AwaitsBlock
<1>10. f \in FT(M) /\ f.fn = "sfor" /\ f.pc = "block" /\ f.kids = k
  BY <1>2, <1>6, <1>8, <1>9, KeepFacts
<1> HIDE DEF f
<1>11. f.kids \in Seq(Exprs(M)) /\ Len(f.kids) = 3
  BY <1>7, <1>10
<1>12. KidsOK(f, M)
  BY <1>10, <1>11 DEF KidsOK
<1> QED
  BY <1>2, <1>4, <1>5, <1>9, <1>10, <1>12, CallStep

-----------------------------------------------------------------------------
(***************************************************************************)
(* The steps that neither call nor leave.                                  *)
(***************************************************************************)
LEMMA SStmtKept ==
  ASSUME NEW N, Well(N, stack, ret), SStmt
  PROVE  Kept
<1> DEFINE f(fn) == Frame(fn)
<1>1. Running("sstmt", "enter") /\ UNCHANGED ret
  BY DEF SStmt
<1>2. PICK fn \in StmtFns : stack' = Append(Front(stack), Frame(fn))
  BY DEF SStmt, StmtFns
<1>3. stack # << >> /\ Top.fn = "sstmt" /\ StackOK(stack, N)
  BY <1>1, Runs DEF Well
<1>4. Answers("sstmt", Under(stack, Len(stack)))
  BY <1>3, TopFrame DEF Top
<1>5. fn \in Functions /\ Answers(fn, Under(stack, Len(stack)))
  BY <1>4 DEF Answers, AwaitsBlock, StmtFns, ExprFns, Functions
<1>6. /\ Frame(fn) \in FT(N) /\ KidsOK(Frame(fn), N)
      /\ Frame(fn).fn = fn /\ Frame(fn).pc = "enter"
  BY <1>5, FrameOK
<1>7. /\ StackOK(stack', N)
      /\ Under(stack', Len(stack') + 1) = "enter"
  BY <1>2, <1>3, <1>5, <1>6, GoesOK
<1> QED
  BY <1>7 DEF Well, RetOK, Kept

LEMMA OpensKept ==
  ASSUME NEW N, Well(N, stack, ret), AInv, BlockOpen \/ SFor
  PROVE  Kept
<1>1. CASE BlockOpen
  <2> DEFINE f == Open(Top, "list", at)
  <2>1. Running("sblock", "enter") /\ Goes(f) /\ at \in Nat
    BY <1>1 DEF BlockOpen, Open, AInv
  <2>2. /\ stack # << >> /\ Top \in FT(N) /\ Top.fn = "sblock" /\ Top.pc = "enter"
        /\ KidsOK(Top, N)
    BY <2>1, Runs
  <2>3. Top.kids = << >>
    BY <2>2 DEF KidsOK
  <2>4. "list" \in PCs
    BY DEF PCs
  <2>5. f \in FT(N) /\ f.fn = "sblock" /\ f.pc = "list" /\ f.kids = << >>
    BY <2>1, <2>2, <2>3, <2>4, Update DEF Updated
  <2> HIDE DEF f
  <2>6. f.kids \in Seq(Stmts(N))
    BY <2>5
  <2>7. KidsOK(f, N)
    BY <2>5, <2>6 DEF KidsOK
  <2> QED
    BY <2>1, <2>2, <2>5, <2>7, GoesStep
<1>2. CASE SFor
  <2> DEFINE f == To(Top, "head")
  <2>1. Running("sfor", "enter") /\ Goes(f)
    BY <1>2 DEF SFor, To
  <2>2. stack # << >> /\ Top \in FT(N) /\ Top.fn = "sfor"
    BY <2>1, Runs
  <2>3. "head" \in PCs
    BY DEF PCs
  <2>4. f \in FT(N) /\ f.fn = "sfor" /\ f.pc = "head"
    BY <2>2, <2>3, Update DEF Updated
  <2> HIDE DEF f
  <2>5. KidsOK(f, N)
    BY <2>4 DEF KidsOK
  <2> QED
    BY <2>1, <2>2, <2>4, <2>5, GoesStep
<1> QED
  BY <1>1, <1>2

LEMMA ForDefaultKept ==
  ASSUME NEW N, Well(N, stack, ret), ForDefault
  PROVE  Kept
<1> DEFINE v == IF Check("TK_SEMI") THEN 0 ELSE 1
           n == Default(v)
           M == N \cup {n}
           f == To(Top, "init")
<1>1. Running("sfor", "head") /\ Goes(f) /\ ret' = n
  BY DEF ForDefault, To
<1>2. v \in Nat
  OBVIOUS
<1> HIDE DEF v
<1>3. WellFormed(n, N) /\ n.kind \in ExprKinds
  BY <1>2, DefaultOK
<1> HIDE DEF n
<1>4. Well(M, stack, ret) /\ n \in Exprs(M)
  BY <1>3, WellGrows, Grown
<1> HIDE DEF M
<1>5. stack # << >> /\ Top \in FT(M) /\ Top.fn = "sfor"
  BY <1>1, <1>4, Runs
<1>6. "init" \in PCs
  BY DEF PCs
<1>7. f \in FT(M) /\ f.fn = "sfor" /\ f.pc = "init"
  BY <1>5, <1>6, Update DEF Updated
<1> HIDE DEF f
<1>8. KidsOK(f, M) /\ ret' \in Wanted(f.pc, M)
  BY <1>1, <1>4, <1>7 DEF KidsOK, Wanted, AwaitsBlock
<1> QED
  BY <1>1, <1>4, <1>5, <1>7, <1>8, GoesStep

LEMMA ForSemiKept ==
  ASSUME NEW N, Well(N, stack, ret), ForSemi
  PROVE  Kept
<1> DEFINE k == Append(Top.kids, ret)
           f == Keep(Top, "semi", k)
<1>1. Running("sfor", "cond") /\ ret' = ret
  BY DEF ForSemi
<1>2. /\ stack # << >> /\ Top \in FT(N) /\ Top.fn = "sfor"
      /\ Top.kids \in Seq(Exprs(N)) /\ ret \in Exprs(N) /\ Len(Top.kids) = 1
  BY <1>1, ForKids
<1>3. Goes(f)
  BY <1>2 DEF ForSemi, Keep, FT
<1>4. k \in Seq(Exprs(N)) /\ Len(k) = 2
  <2>1. PICK s \in Seq(Exprs(N)) : s = Top.kids
    BY <1>2
  <2>2. PICK e \in Exprs(N) : e = ret
    BY <1>2
  <2>3. Append(s, e) \in Seq(Exprs(N)) /\ Len(Append(s, e)) = Len(s) + 1
    OBVIOUS
  <2>4. k = Append(s, e) /\ Len(s) = 1
    BY <1>2, <2>1, <2>2
  <2> HIDE DEF k
  <2> QED
    BY <2>3, <2>4
<1> HIDE DEF k
<1>5. k \in Seq(N) /\ "semi" \in PCs
  BY <1>4, NodeSets, SeqGrows DEF PCs
<1>6. f \in FT(N) /\ f.fn = "sfor" /\ f.pc = "semi" /\ f.kids = k
  BY <1>2, <1>5, KeepFacts
<1> HIDE DEF f
<1>7. f.kids \in Seq(Exprs(N)) /\ Len(f.kids) = 2
  BY <1>4, <1>6
<1>8. KidsOK(f, N) /\ ret' \in Wanted(f.pc, N)
  BY <1>1, <1>2, <1>6, <1>7 DEF KidsOK, Wanted, AwaitsBlock
<1> QED
  BY <1>2, <1>3, <1>6, <1>8, GoesStep

LEMMA UnaryKept ==
  ASSUME NEW N, Well(N, stack, ret), UnaryPlus \/ Postfix
  PROVE  Kept
<1>1. CASE UnaryPlus
  <2>1. stack' = stack /\ ret' = ret
    BY <1>1 DEF UnaryPlus
  <2> QED
    BY <2>1 DEF Kept
<1>2. CASE Postfix
  <2> DEFINE n == NewUnary(PostfixOps[CTok.kind], ret)
             M == N \cup {n}
  <2>1. Running("eunary", "postfix") /\ IsPostfix /\ ret' = n /\ stack' = stack
    BY <1>2 DEF Postfix
  <2>2. PostfixOps[CTok.kind] \in UnaopKind
    BY <2>1 DEF IsPostfix, PostfixOps, UnaopKind
  <2>3. stack # << >> /\ Top.pc = "postfix" /\ ret \in Exprs(N)
    BY <2>1, HasExpr DEF ExprFns
  <2>4. WellFormed(n, N) /\ n.kind \in ExprKinds
    BY <2>2, <2>3, Built, Kinds
  <2> HIDE DEF n
  <2>5. Well(M, stack, ret) /\ n \in Exprs(M)
    BY <2>4, WellGrows, Grown
  <2> HIDE DEF M
  <2>6. Under(stack, Len(stack) + 1) = "postfix"
    BY <2>3, <2>5, TopFrame DEF Well, Top
  <2>7. RetOK(stack, n, M)
    BY <2>5, <2>6 DEF RetOK, Wanted, AwaitsBlock
  <2> QED
    BY <2>1, <2>5, <2>7 DEF Kept, Well
<1> QED
  BY <1>1, <1>2

-----------------------------------------------------------------------------
(***************************************************************************)
(* Every step.                                                             *)
(***************************************************************************)
LEMMA StmtKept ==
  ASSUME NEW N, Well(N, stack, ret), AInv, StmtStep
  PROVE  Kept
<1>1. SExpr \/ SReturn \/ SIf \/ ForInit => Kept
  BY PlainCalls
<1>2. IfBlock \/ ForCond \/ WhileBlock => Kept
  BY FirstKept
<1>3. IfElse \/ BlockStmt \/ ForPost \/ ForBlock => Kept
  BY IfElseKept, BlockStmtKept, ForPostKept, ForBlockKept
<1>4. SExprEnd \/ SReturnEnd \/ BlockClose => Kept
  BY StmtLeaves
<1>5. IfEnd \/ IfElseEnd \/ WhileEnd \/ ForEnd => Kept
  BY IfLeaves, ForLeaves
<1>6. SStmt \/ BlockOpen \/ SFor \/ ForDefault \/ ForSemi => Kept
  BY SStmtKept, OpensKept, ForDefaultKept, ForSemiKept
<1>7. BlockExpected \/ BlockUnclosed \/ SemiExpected => Kept
  BY DEF BlockExpected, BlockUnclosed, SemiExpected, Expected, Unclosed, Kept
<1> QED
  BY <1>1, <1>2, <1>3, <1>4, <1>5, <1>6, <1>7 DEF StmtStep

LEMMA ExprKept ==
  ASSUME NEW N, Well(N, stack, ret), AInv, phase = "parsing", ExprStep,
         Assign => phase' = "parsing"
  PROVE  Kept
<1>1. Descend \/ UnaryMinus \/ UnaryPrimary => Kept
  BY PlainCalls
<1>2. NoAssign \/ AssignEnd \/ NoOperator \/ UnaryMinusEnd \/ NoPostfix \/ ParenClose => Kept
  BY ExprLeaves
<1>3. Literal \/ Operator \/ ParenOpen => Kept
  BY LiteralLeaves, OperatorKept, ParenKept
<1>4. UnaryPlus \/ Postfix => Kept
  BY UnaryKept
<1>5. ParenUnclosed \/ ExprExpected => Kept
  BY DEF ParenUnclosed, ExprExpected, Expected, Unclosed, Kept
<1>6. Assign => Kept
  BY AssignKept
<1> QED
  BY <1>1, <1>2, <1>3, <1>4, <1>5, <1>6 DEF ExprStep

LEMMA StartKept == ParseStart /\ phase' = "parsing" => Kept
<1> SUFFICES ASSUME ParseStart PROVE Kept
  OBVIOUS
<1>1. stack' = <<Frame("sstmt")>>
  BY DEF ParseStart
<1>2. "sstmt" \in Functions /\ Answers("sstmt", "stmt")
  BY DEF Functions, Answers, AwaitsBlock, StmtFns
<1>3. StackOK(<< >>, {}) /\ Under(<< >>, Len(<< >>) + 1) = "stmt"
  BY DEF StackOK, Under
<1>4. Append(<< >>, Frame("sstmt")) = <<Frame("sstmt")>>
  BY DEF Frame
<1>5. /\ StackOK(<<Frame("sstmt")>>, {})
      /\ Under(<<Frame("sstmt")>>, Len(<<Frame("sstmt")>>) + 1) = "enter"
  BY <1>2, <1>3, <1>4, PushOK
<1>6. Good({})
  BY DEF Good
<1> QED
  BY <1>1, <1>5, <1>6 DEF Kept, Well, RetOK

LEMMA EndKept ==
  ASSUME NEW N, Well(N, stack, ret), ParseEnd
  PROVE  phase' # "parsing" /\ (phase' = "done" => Good(N) /\ ret' \in Stmts(N))
<1>1. phase' # "parsing" /\ ret' = ret /\ stack = << >>
  BY DEF ParseEnd, Fail
<1>2. Under(stack, Len(stack) + 1) = "stmt"
  BY <1>1 DEF Under
<1>3. ret \in Stmts(N)
  BY <1>2 DEF Well, RetOK, Wanted, AwaitsBlock
<1> QED
  BY <1>1, <1>3 DEF Well

LEMMA PhaseMoves ==
  /\ Moves => phase = "parsing" /\ phase' # "done"
  /\ ParseStart => phase = "called" /\ phase' # "done"
  /\ ParseEnd => phase = "parsing"
BY DEF Moves, Stays, Advances, Advance, Exits, ExitsAhead, Fail, ParseStart, ParseEnd

LEMMA TStep == TInv /\ AInv /\ Next => TInv'
<1> SUFFICES ASSUME TInv, AInv, Next PROVE TInv'
  OBVIOUS
<1>1. CASE ParseStart
  <2>1. phase' # "done" /\ (phase' = "parsing" => Kept)
    BY <1>1, StartKept, PhaseMoves
  <2> QED
    BY <2>1 DEF TInv, Kept
<1>2. CASE StmtStep \/ ExprStep
  <2>1. phase = "parsing" /\ phase' # "done"
    BY <1>2, StmtMoves, ExprMoves, PhaseMoves
  <2>2. PICK N : Well(N, stack, ret)
    BY <2>1 DEF TInv
  <2>3. phase' = "parsing" => Kept
    BY <1>2, <2>1, <2>2, StmtKept, ExprKept
  <2> QED
    BY <2>1, <2>3 DEF TInv, Kept
<1>3. CASE ParseEnd
  <2>1. PICK N : Well(N, stack, ret)
    BY <1>3, PhaseMoves DEF TInv
  <2>2. phase' # "parsing" /\ (phase' = "done" => Good(N) /\ ret' \in Stmts(N))
    BY <1>3, <2>1, EndKept
  <2> QED
    BY <2>2 DEF TInv
<1> QED
  BY <1>1, <1>2, <1>3 DEF Next

(* What the code generator assumes of its programs: the tree that parse
   returns, of whatever text, is a statement of a set of well-formed trees
   that is closed under taking subtrees. *)
BuildsTree ==
  phase = "done" => \E N : ret \in Stmts(N) /\ \A n \in N : WellFormed(n, N)

THEOREM TreesAreWellFormed == Spec => []BuildsTree
<1>1. Init => TInv
  BY DEF Init, TInv
<1>2. TInv /\ UNCHANGED vars => TInv'
  BY DEF TInv, vars
<1>3. TInv /\ AInv /\ [Next]_vars => TInv'
  BY <1>2, TStep
<1>4. TInv => BuildsTree
  BY DEF TInv, BuildsTree, Good
<1> QED
  BY <1>1, <1>3, <1>4, AInductive, PTL DEF Spec

-----------------------------------------------------------------------------
(***************************************************************************)
(* What a step does to the places of the frames.                           *)
(***************************************************************************)
(* A frame of a function that is between two brackets. *)
Within(fn, pc) ==
  \/ fn = "sblock" /\ pc \in {"list", "stmt"}
  \/ fn = "eprimary" /\ pc = "paren"

Bracket(f) == Within(f.fn, f.pc)

(* The functions that consume their first token without a look at it, and
   those that are called: sstmt goes on as the others. *)
Heads == [sif |-> "KW_IF", sfor |-> "KW_FOR", sreturn |-> "KW_RETURN"]

Callees == Functions \ DOMAIN Heads

HeadsFit(f) == f.pc = "enter" /\ f.fn \in DOMAIN Heads => CTok.kind = Heads[f.fn]

HeadOK == stack # << >> => HeadsFit(Top)

(* The running function goes on, or calls, with frame f. *)
Replaces(f) ==
  /\ stack # << >>
  /\ \/ stack' = Append(Front(stack), f) /\ (f.pc = "enter" => HeadsFit(f) /\ at' = at)
     \/ \E fn \in Callees : stack' = Append(Append(Front(stack), f), Frame(fn))

Returns == stack # << >> /\ stack' = Front(stack)

Plain == CTok.kind \notin Opens \cup Closes

AtMostPlain ==
  \/ at' = at
  \/ at' = at + 1 /\ Plain

(* Nothing is opened or closed. *)
Same(f) ==
  /\ Bracket(f) <=> Bracket(Top)
  /\ f.start = 0 \/ f.start = Top.start
  /\ Bracket(f) => f.start = Top.start

Passes ==
  /\ AtMostPlain
  /\ \/ stack' = stack /\ (phase' = "parsing" => Top.fn \notin DOMAIN Heads)
     \/ \E f : Same(f) /\ Replaces(f)
     \/ Returns /\ ~Bracket(Top)

OpensOne ==
  /\ CTok.kind \in Opens /\ at' = at + 1
  /\ \E f : Bracket(f) /\ f.start = at /\ ~Bracket(Top) /\ Replaces(f)

ClosesOne ==
  /\ CTok.kind \in Closes /\ at' = at + 1
  /\ Returns /\ Bracket(Top)

LEMMA ToFrame ==
  ASSUME NEW N, NEW f \in FT(N), NEW p
  PROVE  To(f, p).fn = f.fn /\ To(f, p).pc = p /\ To(f, p).start = f.start
BY DEF FT, To

LEMMA OpenFrame ==
  ASSUME NEW N, NEW f \in FT(N), NEW p, NEW j
  PROVE  Open(f, p, j).fn = f.fn /\ Open(f, p, j).pc = p /\ Open(f, p, j).start = j
BY DEF FT, Open

LEMMA KeepFrame ==
  ASSUME NEW N, NEW f \in FT(N), NEW p, NEW k
  PROVE  Keep(f, p, k).fn = f.fn /\ Keep(f, p, k).pc = p /\ Keep(f, p, k).start = f.start
BY DEF FT, Keep

LEMMA JoinFrame ==
  ASSUME NEW N, NEW f \in FT(N), NEW p, NEW k, NEW o
  PROVE  /\ Join(f, p, k, o).fn = f.fn /\ Join(f, p, k, o).pc = p
         /\ Join(f, p, k, o).start = f.start
BY DEF FT, Join

Going(f) == Goes(f) \/ \E fn \in Callees : Call(f, fn)

LEMMA GoesBy ==
  ASSUME NEW N, Well(N, stack, ret), NEW fn, NEW pc, Running(fn, pc), AtMostPlain,
         NEW f, Going(f), f.fn = Top.fn, f.start = Top.start, f.pc # "enter",
         Within(fn, f.pc) <=> Within(fn, pc)
  PROVE  Passes
<1>1. stack # << >> /\ Top.fn = fn /\ Top.pc = pc
  BY Runs
<1>2. Replaces(f)
  BY <1>1 DEF Going, Goes, Call, Replaces
<1>3. Same(f)
  BY <1>1 DEF Same, Bracket
<1> QED
  BY <1>2, <1>3 DEF Passes

LEMMA ToOn ==
  ASSUME NEW N, Well(N, stack, ret), NEW fn, NEW pc, Running(fn, pc), AtMostPlain,
         NEW p, Going(To(Top, p)), p # "enter", Within(fn, p) <=> Within(fn, pc)
  PROVE  Passes
<1> DEFINE f == To(Top, p)
<1>1. Top \in FT(N)
  BY Runs
<1>2. f.fn = Top.fn /\ f.pc = p /\ f.start = Top.start /\ Going(f)
  BY <1>1, ToFrame
<1> HIDE DEF f
<1> QED
  BY <1>2, GoesBy

LEMMA KeepOn ==
  ASSUME NEW N, Well(N, stack, ret), NEW fn, NEW pc, Running(fn, pc), AtMostPlain,
         NEW p, NEW k, Going(Keep(Top, p, k)), p # "enter", Within(fn, p) <=> Within(fn, pc)
  PROVE  Passes
<1> DEFINE f == Keep(Top, p, k)
<1>1. Top \in FT(N)
  BY Runs
<1>2. f.fn = Top.fn /\ f.pc = p /\ f.start = Top.start /\ Going(f)
  BY <1>1, KeepFrame
<1> HIDE DEF f
<1> QED
  BY <1>2, GoesBy

LEMMA JoinOn ==
  ASSUME NEW N, Well(N, stack, ret), NEW fn, NEW pc, Running(fn, pc), AtMostPlain,
         NEW p, NEW k, NEW o, Going(Join(Top, p, k, o)), p # "enter",
         Within(fn, p) <=> Within(fn, pc)
  PROVE  Passes
<1> DEFINE f == Join(Top, p, k, o)
<1>1. Top \in FT(N)
  BY Runs
<1>2. f.fn = Top.fn /\ f.pc = p /\ f.start = Top.start /\ Going(f)
  BY <1>1, JoinFrame
<1> HIDE DEF f
<1> QED
  BY <1>2, GoesBy

LEMMA Comes ==
  ASSUME NEW N, Well(N, stack, ret), NEW fn, NEW pc, Running(fn, pc),
         ~Within(fn, pc), AtMostPlain, NEW n, Leave(n)
  PROVE  Passes
BY Runs DEF Leave, Returns, Passes, AtMostPlain, Bracket

LEMMA Stands ==
  ASSUME stack' = stack, AtMostPlain, phase' = "parsing" => Top.fn \notin DOMAIN Heads
  PROVE  Passes
BY DEF Passes, AtMostPlain

LEMMA AdvancePlain ==
  ASSUME Advance, NEW kind, Check(kind), kind \notin Opens \cup Closes
  PROVE  AtMostPlain
BY DEF Advance, Check, Plain, AtMostPlain

LEMMA StmtPasses ==
  ASSUME NEW N, Well(N, stack, ret), HeadOK, StmtStep
  PROVE  Passes \/ OpensOne \/ ClosesOne
<1> USE DEF Within, Opens, Closes
<1>1. CASE SStmt
  <2>1. PICK fn \in StmtFns : /\ stack' = Append(Front(stack), Frame(fn))
                              /\ fn \in DOMAIN Heads => CTok.kind = Heads[fn]
    BY <1>1 DEF SStmt, StmtFns, Heads, Check
  <2>2. Frame(fn).fn = fn /\ Frame(fn).pc = "enter" /\ Frame(fn).start = 0
    BY DEF Frame
  <2>3. stack # << >> /\ Top.fn = "sstmt"
    BY <1>1, Runs DEF SStmt
  <2>4. at' = at
    BY <1>1 DEF SStmt
  <2>5. Same(Frame(fn)) /\ Replaces(Frame(fn))
    BY <2>1, <2>2, <2>3, <2>4 DEF Same, Replaces, Bracket, StmtFns, HeadsFit
  <2> QED
    BY <2>4, <2>5 DEF Passes, AtMostPlain
<1>2. CASE BlockOpen
  <2> DEFINE f == Open(Top, "list", at)
  <2>1. Running("sblock", "enter") /\ Goes(f) /\ Advance /\ CTok.kind \in Opens
    BY <1>2 DEF BlockOpen, Open, Check
  <2>2. stack # << >> /\ Top \in FT(N) /\ Top.fn = "sblock" /\ Top.pc = "enter"
    BY <2>1, Runs
  <2>3. f.fn = "sblock" /\ f.pc = "list" /\ f.start = at
    BY <2>2, OpenFrame
  <2>4. Replaces(f) /\ at' = at + 1
    BY <2>1, <2>2, <2>3 DEF Goes, Replaces, Advance
  <2> HIDE DEF f
  <2> QED
    BY <2>1, <2>2, <2>3, <2>4 DEF OpensOne, Bracket
<1>3. CASE BlockExpected \/ BlockUnclosed \/ SemiExpected
  BY <1>3, Stands
     DEF BlockExpected, BlockUnclosed, SemiExpected, Expected, Unclosed, Fail, AtMostPlain
<1>4. CASE BlockStmt
  <2>1. PICK pc : Running("sblock", pc) /\ pc \in {"list", "stmt"}
    BY <1>4 DEF BlockStmt, InBlock
  <2>2. Going(Keep(Top, "stmt", List)) /\ at' = at
    BY <1>4 DEF BlockStmt, Going, Keep, Callees, Functions, Heads
  <2> QED
    BY <2>1, <2>2, KeepOn DEF AtMostPlain
<1>5. CASE BlockClose
  <2>1. PICK pc : Running("sblock", pc) /\ pc \in {"list", "stmt"}
    BY <1>5 DEF BlockClose, InBlock
  <2>2. stack # << >> /\ Top.fn = "sblock" /\ Top.pc = pc
    BY <2>1, Runs
  <2>3. Leave(NewStBlock(List)) /\ at' = at + 1 /\ CTok.kind \in Closes
    BY <1>5 DEF BlockClose, Advance, Check
  <2> QED
    BY <2>1, <2>2, <2>3 DEF ClosesOne, Bracket, Returns, Leave
<1>6. CASE SExpr \/ IfBlock \/ ForInit \/ WhileBlock \/ ForPost \/ ForBlock
  <2>0. AtMostPlain
    BY <1>6 DEF SExpr, IfBlock, ForInit, WhileBlock, ForPost, ForBlock, AtMostPlain
  <2>1. CASE SExpr
    BY <2>0, <2>1, ToOn DEF SExpr, Going, To, Callees, Functions, Heads
  <2>2. CASE IfBlock
    <3>1. PICK k : Going(Keep(Top, "block", k))
      BY <2>2 DEF IfBlock, Going, Keep, Callees, Functions, Heads
    <3>2. Running("sif", "cond") /\ (Within("sif", "block") <=> Within("sif", "cond"))
      BY <2>2 DEF IfBlock
    <3> QED
      BY <2>0, <3>1, <3>2, KeepOn
  <2>3. CASE ForInit
    BY <2>0, <2>3, ToOn DEF ForInit, Going, To, Callees, Functions, Heads
  <2>4. CASE WhileBlock
    <3>1. PICK k : Going(Keep(Top, "while", k))
      BY <2>4 DEF WhileBlock, Going, Keep, Callees, Functions, Heads
    <3>2. Running("sfor", "init") /\ (Within("sfor", "while") <=> Within("sfor", "init"))
      BY <2>4 DEF WhileBlock
    <3> QED
      BY <2>0, <3>1, <3>2, KeepOn
  <2>5. CASE ForPost
    BY <2>0, <2>5, ToOn DEF ForPost, Going, To, Callees, Functions, Heads
  <2>6. CASE ForBlock
    <3>1. PICK pc \in {"semi", "post"} : Running("sfor", pc)
      BY <2>6 DEF ForBlock
    <3>2. PICK k : Going(Keep(Top, "block", k))
      BY <2>6 DEF ForBlock, Going, Keep, Callees, Functions, Heads
    <3>3. Within("sfor", "block") <=> Within("sfor", pc)
      OBVIOUS
    <3> QED
      BY <2>0, <3>1, <3>2, <3>3, KeepOn
  <2> QED
    BY <1>6, <2>1, <2>2, <2>3, <2>4, <2>5, <2>6
<1>7. CASE SExprEnd \/ SReturnEnd \/ IfEnd \/ IfElseEnd \/ WhileEnd \/ ForEnd
  <2>1. CASE SExprEnd \/ SReturnEnd
    BY <2>1, Comes, AdvancePlain DEF SExprEnd, SReturnEnd, Semi
  <2>2. CASE IfEnd \/ IfElseEnd
    BY <2>2, Comes DEF IfEnd, IfElseEnd, AtMostPlain
  <2>3. CASE WhileEnd \/ ForEnd
    BY <2>3, Comes DEF WhileEnd, ForEnd, AtMostPlain
  <2> QED
    BY <1>7, <2>1, <2>2, <2>3
<1>8. CASE SReturn \/ SIf \/ SFor
  <2>1. Advance /\ \E fn \in DOMAIN Heads : Running(fn, "enter")
    BY <1>8 DEF SReturn, SIf, SFor, Heads
  <2>2. CTok.kind \in {"KW_IF", "KW_FOR", "KW_RETURN"}
    BY <2>1, Runs DEF HeadOK, HeadsFit, Heads
  <2>3. AtMostPlain
    BY <2>1, <2>2 DEF Advance, Plain, AtMostPlain
  <2>4. CASE SReturn
    BY <2>3, <2>4, ToOn DEF SReturn, Going, To, Callees, Functions, Heads
  <2>5. CASE SIf
    BY <2>3, <2>5, ToOn DEF SIf, Going, To, Callees, Functions, Heads
  <2>6. CASE SFor
    BY <2>3, <2>6, ToOn DEF SFor, Going, To
  <2> QED
    BY <1>8, <2>4, <2>5, <2>6
<1>9. CASE IfElse \/ ForCond \/ ForSemi
  <2>1. AtMostPlain
    BY <1>9, AdvancePlain DEF IfElse, ForCond, ForSemi
  <2>2. CASE IfElse
    <3>1. PICK k : Going(Keep(Top, "else", k))
      BY <2>2 DEF IfElse, Going, Keep, Callees, Functions, Heads
    <3>2. Running("sif", "block")
      BY <2>2 DEF IfElse
    <3> QED
      BY <2>1, <3>1, <3>2, KeepOn
  <2>3. CASE ForCond
    <3>1. PICK k : Going(Keep(Top, "cond", k))
      BY <2>3 DEF ForCond, Going, Keep, Callees, Functions, Heads
    <3>2. Running("sfor", "init") /\ (Within("sfor", "cond") <=> Within("sfor", "init"))
      BY <2>3 DEF ForCond
    <3> QED
      BY <2>1, <3>1, <3>2, KeepOn
  <2>4. CASE ForSemi
    <3>1. PICK k : Going(Keep(Top, "semi", k))
      BY <2>4 DEF ForSemi, Going, Keep
    <3>2. Running("sfor", "cond")
      BY <2>4 DEF ForSemi
    <3> QED
      BY <2>1, <3>1, <3>2, KeepOn
  <2> QED
    BY <1>9, <2>2, <2>3, <2>4
<1>10. CASE ForDefault
  BY <1>10, ToOn DEF ForDefault, Going, To, AtMostPlain
<1> QED
  BY <1>1, <1>2, <1>3, <1>4, <1>5, <1>6, <1>7, <1>8, <1>9, <1>10 DEF StmtStep

LEMMA ExprPasses ==
  ASSUME NEW N, Well(N, stack, ret), ExprStep
  PROVE  Passes \/ OpensOne \/ ClosesOne
<1> USE DEF Within, Opens, Closes
<1>1. CASE Descend
  <2>1. PICK fn \in DOMAIN Operand : Running(fn, "enter")
    BY <1>1 DEF Descend
  <2>2. Going(To(Top, "left")) /\ at' = at
    BY <1>1, <2>1 DEF Descend, Going, To, Operand, Callees, Functions, Heads, Running
  <2>3. Within(fn, "left") <=> Within(fn, "enter")
    OBVIOUS
  <2> QED
    BY <2>1, <2>2, <2>3, ToOn DEF AtMostPlain
<1>2. CASE Assign
  <2>1. Running("eass", "left") /\ at' = at + 1 /\ Check("TK_ASS")
    BY <1>2 DEF Assign, Advance
  <2>2. PICK k : Going(Keep(Top, "right", k))
    BY <1>2 DEF Assign, Going, Keep, Callees, Functions, Heads
  <2>3. (Within("eass", "right") <=> Within("eass", "left")) /\ AtMostPlain
    BY <2>1 DEF AtMostPlain, Plain, Check
  <2> QED
    BY <2>1, <2>2, <2>3, KeepOn
<1>3. CASE NoAssign \/ AssignEnd
  BY <1>3, Comes DEF NoAssign, AssignEnd, AtMostPlain
<1>4. CASE Operator
  <2>1. PICK fn \in {"eadd", "emul"}, pc \in {"left", "right"} : Running(fn, pc)
    BY <1>4 DEF Operator, InLoop, Operators
  <2>2. Top.fn = fn
    BY <2>1, Runs
  <2>3. CTok.kind \in {"TK_ADD", "TK_SUB", "TK_MUL", "TK_DIV"} /\ at' = at + 1
    <3>1. CTok.kind \in DOMAIN Operators[fn] /\ at' = at + 1
      BY <1>4, <2>2 DEF Operator, Advance
    <3>2. /\ DOMAIN Operators["eadd"] = {"TK_ADD", "TK_SUB"}
          /\ DOMAIN Operators["emul"] = {"TK_MUL", "TK_DIV"}
      BY DEF Operators
    <3> QED
      BY <2>1, <3>1, <3>2
  <2>4. PICK k, o : Going(Join(Top, "right", k, o))
    <3>1. Operand[fn] \in Callees
      BY <2>1 DEF Operand, Callees, Functions, Heads
    <3>2. Call(Join(Top, "right", <<Left>>, Operators[Top.fn][CTok.kind]), Operand[fn])
      BY <1>4, <2>2 DEF Operator, Join
    <3> QED
      BY <3>1, <3>2, Zenon DEF Going
  <2>5. (Within(fn, "right") <=> Within(fn, pc)) /\ AtMostPlain
    BY <2>3 DEF AtMostPlain, Plain
  <2> QED
    BY <2>1, <2>4, <2>5, JoinOn
<1>5. CASE NoOperator
  <2>1. PICK fn \in {"eadd", "emul"}, pc \in {"left", "right"} : Running(fn, pc)
    BY <1>5 DEF NoOperator, InLoop, Operators
  <2>2. Leave(Left) /\ at' = at /\ ~Within(fn, pc)
    BY <1>5 DEF NoOperator
  <2> QED
    BY <2>1, <2>2, Comes DEF AtMostPlain
<1>6. CASE UnaryPlus \/ Postfix
  <2>1. AtMostPlain
    BY <1>6 DEF UnaryPlus, Postfix, IsPostfix, PostfixOps, Advance, Check, AtMostPlain, Plain
  <2> QED
    BY <1>6, <2>1, Stands, Runs DEF UnaryPlus, Postfix, Heads
<1>7. CASE UnaryMinus
  BY <1>7, ToOn, AdvancePlain DEF UnaryMinus, Going, To, Callees, Functions, Heads
<1>8. CASE UnaryMinusEnd \/ NoPostfix
  BY <1>8, Comes DEF UnaryMinusEnd, NoPostfix, AtMostPlain
<1>9. CASE UnaryPrimary
  BY <1>9, ToOn DEF UnaryPrimary, Going, To, Callees, Functions, Heads, AtMostPlain
<1>10. CASE ParenOpen
  <2> DEFINE f == Open(Top, "paren", at)
  <2>1. Running("eprimary", "enter") /\ Call(f, "eass") /\ Advance /\ CTok.kind \in Opens
    BY <1>10 DEF ParenOpen, Open, Check
  <2>2. stack # << >> /\ Top \in FT(N) /\ Top.fn = "eprimary" /\ Top.pc = "enter"
    BY <2>1, Runs
  <2>3. f.fn = "eprimary" /\ f.pc = "paren" /\ f.start = at
    BY <2>2, OpenFrame
  <2>4. Replaces(f) /\ at' = at + 1
    BY <2>1, <2>2 DEF Call, Replaces, Advance, Callees, Functions, Heads
  <2> HIDE DEF f
  <2> QED
    BY <2>1, <2>2, <2>3, <2>4 DEF OpensOne, Bracket
<1>11. CASE ParenClose
  <2>1. Running("eprimary", "paren") /\ Leave(ret) /\ at' = at + 1 /\ CTok.kind \in Closes
    BY <1>11 DEF ParenClose, Advance, Check
  <2>2. stack # << >> /\ Top.fn = "eprimary" /\ Top.pc = "paren"
    BY <2>1, Runs
  <2> QED
    BY <2>1, <2>2 DEF ClosesOne, Bracket, Returns, Leave
<1>12. CASE ParenUnclosed \/ ExprExpected
  BY <1>12, Stands DEF ParenUnclosed, ExprExpected, Expected, Unclosed, Fail, AtMostPlain
<1>13. CASE Literal
  <2>1. Running("eprimary", "enter") /\ CTok.kind \in {"TK_ID", "TK_INT"} /\ at' = at + 1
    BY <1>13 DEF Literal, Literals, Advance
  <2>2. AtMostPlain /\ ~Within("eprimary", "enter")
    BY <2>1 DEF AtMostPlain, Plain
  <2> QED
    BY <1>13, <2>1, <2>2, Comes DEF Literal
<1> QED
  BY <1>1, <1>2, <1>3, <1>4, <1>5, <1>6, <1>7, <1>8, <1>9, <1>10, <1>11, <1>12, <1>13
     DEF ExprStep

-----------------------------------------------------------------------------
(***************************************************************************)
(* The node and the message of a step.                                     *)
(***************************************************************************)
LEMMA StmtNodes ==
  ASSUME StmtStep
  PROVE  ret' = ret \/ IsNode(ret')
<1> USE DEF IsNode, StmtKinds, ExprKinds
<1>1. CASE SStmt \/ BlockOpen \/ BlockStmt \/ SExpr \/ SReturn \/ SIf \/ IfBlock \/ IfElse
  BY <1>1 DEF SStmt, BlockOpen, BlockStmt, SExpr, SReturn, SIf, IfBlock, IfElse
<1>2. CASE SFor \/ ForInit \/ ForCond \/ WhileBlock \/ ForSemi \/ ForPost \/ ForBlock
  BY <1>2 DEF SFor, ForInit, ForCond, WhileBlock, ForSemi, ForPost, ForBlock
<1>3. CASE BlockExpected \/ BlockUnclosed \/ SemiExpected
  BY <1>3 DEF BlockExpected, BlockUnclosed, SemiExpected, Expected, Unclosed
<1>4. CASE BlockClose \/ SExprEnd \/ SReturnEnd
  BY <1>4 DEF BlockClose, SExprEnd, SReturnEnd, Semi, Leave, NewStBlock, NewStExpr, NewStReturn
<1>5. CASE IfEnd \/ IfElseEnd \/ WhileEnd \/ ForEnd
  BY <1>5 DEF IfEnd, IfElseEnd, WhileEnd, ForEnd, Leave, NewStIf, NewStForWhile, NewStFor
<1>6. CASE ForDefault
  BY <1>6 DEF ForDefault, Default, NewLit
<1> QED
  BY <1>1, <1>2, <1>3, <1>4, <1>5, <1>6 DEF StmtStep

LEMMA ExprNodes ==
  ASSUME ExprStep
  PROVE  ret' = ret \/ IsNode(ret')
<1> USE DEF IsNode, ExprKinds
<1>1. CASE Descend \/ Assign \/ Operator \/ UnaryPlus \/ UnaryMinus \/ UnaryPrimary \/ ParenOpen
  BY <1>1 DEF Descend, Assign, Operator, UnaryPlus, UnaryMinus, UnaryPrimary, ParenOpen
<1>2. CASE ParenUnclosed \/ ExprExpected
  BY <1>2 DEF ParenUnclosed, ExprExpected, Expected, Unclosed
<1>3. CASE NoAssign \/ NoPostfix \/ ParenClose
  BY <1>3 DEF NoAssign, NoPostfix, ParenClose, Leave
<1>4. CASE AssignEnd \/ NoOperator
  BY <1>4 DEF AssignEnd, NoOperator, Left, Leave, NewBinop
<1>5. CASE UnaryMinusEnd \/ Postfix \/ Literal
  BY <1>5 DEF UnaryMinusEnd, Postfix, Literal, Leave, NewUnary, NewLit
<1> QED
  BY <1>1, <1>2, <1>3, <1>4, <1>5 DEF ExprStep

(* The messages other than that of unclosed. *)
Reports ==
  \E what \in Messages \ {"unclosed"}, k \in Nat : error' = [what |-> what, at |-> k]

Quits == Unclosed /\ stack # << >> /\ Bracket(Top)

LEMMA ReportsOf ==
  ASSUME NEW what \in Messages \ {"unclosed"}, NEW k \in Nat, Fail(what, k)
  PROVE  Reports
BY DEF Fail, Reports

LEMMA Advancing ==
  ASSUME at \in Nat, Advance
  PROVE  UNCHANGED error \/ Reports
<1>1. at + 2 \in Nat /\ "invalid token" \in Messages \ {"unclosed"}
  BY DEF Messages
<1> QED
  BY <1>1, ReportsOf DEF Advance

LEMMA StmtReports ==
  ASSUME NEW N, Well(N, stack, ret), at \in Nat, StmtStep
  PROVE  UNCHANGED error \/ Reports \/ Quits
<1>1. CASE SStmt \/ BlockStmt \/ SExpr \/ IfBlock \/ IfEnd \/ IfElseEnd
  BY <1>1 DEF SStmt, BlockStmt, SExpr, IfBlock, IfEnd, IfElseEnd
<1>2. CASE ForDefault \/ ForInit \/ WhileBlock \/ WhileEnd \/ ForPost \/ ForBlock \/ ForEnd
  BY <1>2 DEF ForDefault, ForInit, WhileBlock, WhileEnd, ForPost, ForBlock, ForEnd
<1>3. CASE BlockOpen \/ BlockClose \/ SExprEnd \/ SReturnEnd \/ SReturn \/ SIf \/ IfElse
  BY <1>3, Advancing DEF BlockOpen, BlockClose, SExprEnd, SReturnEnd, Semi, SReturn, SIf, IfElse
<1>4. CASE SFor \/ ForCond \/ ForSemi
  BY <1>4, Advancing DEF SFor, ForCond, ForSemi
<1>5. CASE BlockExpected \/ SemiExpected
  BY <1>5, ReportsOf DEF BlockExpected, SemiExpected, Expected, Messages
<1>6. CASE BlockUnclosed
  BY <1>6, Runs DEF BlockUnclosed, InBlock, Quits, Bracket, Within
<1> QED
  BY <1>1, <1>2, <1>3, <1>4, <1>5, <1>6 DEF StmtStep

LEMMA ExprReports ==
  ASSUME NEW N, Well(N, stack, ret), at \in Nat \ {0}, ExprStep
  PROVE  UNCHANGED error \/ Reports \/ Quits
<1>1. CASE Descend \/ NoAssign \/ AssignEnd \/ NoOperator \/ UnaryMinusEnd \/ UnaryPrimary
           \/ NoPostfix
  BY <1>1 DEF Descend, NoAssign, AssignEnd, NoOperator, UnaryMinusEnd, UnaryPrimary, NoPostfix
<1>2. CASE Operator \/ UnaryPlus \/ UnaryMinus \/ Postfix \/ ParenOpen \/ ParenClose \/ Literal
  BY <1>2, Advancing DEF Operator, UnaryPlus, UnaryMinus, Postfix, ParenOpen, ParenClose, Literal
<1>3. CASE Assign
  <2>1. CASE Advance
    BY <2>1, Advancing
  <2>2. CASE Fail("variable name", at - 1)
    <3>1. at - 1 \in Nat /\ "variable name" \in Messages \ {"unclosed"}
      BY DEF Messages
    <3> QED
      BY <2>2, <3>1, ReportsOf
  <2> QED
    BY <1>3, <2>1, <2>2 DEF Assign
<1>4. CASE ExprExpected
  <2>1. Fail("expression", at) /\ "expression" \in Messages \ {"unclosed"}
    BY <1>4 DEF ExprExpected, Expected, Messages
  <2> QED
    BY <2>1, ReportsOf
<1>5. CASE ParenUnclosed
  BY <1>5, Runs DEF ParenUnclosed, Quits, Bracket, Within
<1> QED
  BY <1>1, <1>2, <1>3, <1>4, <1>5 DEF ExprStep

-----------------------------------------------------------------------------
(***************************************************************************)
(* The frames after a step.                                                *)
(***************************************************************************)
LEMMA Shape ==
  ASSUME NEW N, stack \in Seq(FT(N)), NEW f, Replaces(f)
  PROVE  /\ Len(stack) \in Nat \ {0}
         /\ Top = stack[Len(stack)]
         /\ \A k \in 1 .. Len(stack) - 1 : stack'[k] = stack[k]
         /\ stack'[Len(stack)] = f
         /\ \/ Len(stack') = Len(stack) /\ Last(stack') = f
               /\ (f.pc = "enter" => HeadsFit(f) /\ at' = at)
            \/ /\ Len(stack') = Len(stack) + 1
               /\ \E fn \in Callees : stack'[Len(stack) + 1] = Frame(fn)
                                     /\ Last(stack') = Frame(fn)
<1> DEFINE n == Len(stack)
<1>1. /\ n \in Nat \ {0} /\ Top = stack[n]
      /\ Front(stack) \in Seq(FT(N)) /\ Len(Front(stack)) = n - 1
      /\ \A k \in 1 .. n - 1 : Front(stack)[k] = stack[k]
  BY FrontType DEF Replaces, Top
<1> HIDE DEF n
<1> DEFINE S == FT(N) \cup {f}
           t == Append(Front(stack), f)
<1>2. Front(stack) \in Seq(S) /\ f \in S
  BY <1>1, SeqGrows
<1> HIDE DEF S
<1>3. /\ t \in Seq(S) /\ Len(t) = n /\ t[n] = f
      /\ \A k \in 1 .. n - 1 : t[k] = stack[k]
  BY <1>1, <1>2
<1> HIDE DEF t
<1>4. CASE stack' = t /\ (f.pc = "enter" => HeadsFit(f) /\ at' = at)
  <2>1. Last(stack') = f
    BY <1>1, <1>3, <1>4 DEF Last
  <2> QED
    BY <1>1, <1>3, <1>4, <2>1 DEF n
<1>5. ASSUME NEW fn \in Callees, stack' = Append(t, Frame(fn))
      PROVE  /\ Len(stack') = n + 1 /\ stack'[n + 1] = Frame(fn) /\ Last(stack') = Frame(fn)
             /\ \A k \in 1 .. n : stack'[k] = t[k]
  <2> DEFINE g == Frame(fn)
             R == S \cup {g}
  <2>1. t \in Seq(R) /\ g \in R
    BY <1>3, SeqGrows
  <2> HIDE DEF g, R
  <2>2. /\ Len(Append(t, g)) = n + 1 /\ Append(t, g)[n + 1] = g
        /\ \A k \in 1 .. n : Append(t, g)[k] = t[k]
    BY <1>1, <1>3, <2>1
  <2> QED
    BY <1>1, <1>5, <2>2 DEF Last, g
<1>6. CASE \E fn \in Callees : stack' = Append(t, Frame(fn))
  BY <1>1, <1>3, <1>5, <1>6 DEF n
<1> QED
  BY <1>4, <1>6 DEF Replaces, t

LEMMA Rest ==
  ASSUME NEW N, stack \in Seq(FT(N)), Returns
  PROVE  /\ Len(stack) \in Nat \ {0} /\ Len(stack') = Len(stack) - 1
         /\ Top = stack[Len(stack)]
         /\ \A k \in 1 .. Len(stack) - 1 : stack'[k] = stack[k]
BY FrontType DEF Returns, Top

(* The head of a statement is at its keyword. *)
LEMMA HeadKept ==
  ASSUME NEW N, Well(N, stack, ret), HeadOK, Passes \/ OpensOne \/ ClosesOne,
         text' = text, phase' = "parsing"
  PROVE  HeadOK'
<1>1. stack \in Seq(FT(N)) /\ StackOK(stack, N)
  BY DEF Well, StackOK
<1>2. ASSUME NEW f, Replaces(f), Bracket(f) => f.pc # "enter"
      PROVE  HeadOK'
  <2>1. CASE Last(stack') = f /\ (f.pc = "enter" => HeadsFit(f) /\ at' = at)
    BY <2>1 DEF HeadOK, HeadsFit, Top, CTok, Tok
  <2>2. ASSUME NEW fn \in Callees, Last(stack') = Frame(fn) PROVE HeadOK'
    <3>1. Frame(fn).fn = fn
      BY DEF Frame
    <3> QED
      BY <2>2, <3>1 DEF HeadOK, HeadsFit, Top, Callees
  <2> QED
    BY <1>1, <1>2, <2>1, <2>2, Shape
<1>3. ASSUME Returns PROVE HeadOK'
  <2>1. Answers(Top.fn, Under(stack, Len(stack)))
    BY <1>1, <1>3, TopFrame DEF Returns, Top
  <2>2. StackOK(stack', N) /\ Under(stack', Len(stack') + 1) = Under(stack, Len(stack))
    BY <1>1, <1>3, LeavesOK DEF Returns
  <2>3. stack' # << >> => Last(stack').pc # "enter"
    BY <2>1, <2>2, TopFrame DEF Answers
  <2> QED
    BY <2>3 DEF HeadOK, HeadsFit, Top
<1>4. CASE stack' = stack /\ Top.fn \notin DOMAIN Heads
  BY <1>4 DEF HeadOK, HeadsFit, Top
<1> QED
  BY <1>2, <1>3, <1>4 DEF Passes, OpensOne, ClosesOne, Bracket, Within

HeadInv == phase = "parsing" => HeadOK

(* What a step of a function does, put together. *)
LEMMA Steps ==
  ASSUME TInv, AInv, HeadInv, StmtStep \/ ExprStep
  PROVE  /\ phase = "parsing" /\ text' = text /\ at \in Nat \ {0}
         /\ \E N : Well(N, stack, ret)
         /\ Passes \/ OpensOne \/ ClosesOne
         /\ UNCHANGED error \/ Reports \/ Quits
         /\ ret' = ret \/ IsNode(ret')
<1>1. phase = "parsing" /\ text' = text
  BY StmtMoves, ExprMoves DEF Moves
<1>2. at \in Nat \ {0} /\ HeadOK
  BY <1>1 DEF AInv, HeadInv
<1>3. PICK N : Well(N, stack, ret)
  BY <1>1 DEF TInv
<1>4. Passes \/ OpensOne \/ ClosesOne
  BY <1>2, <1>3, StmtPasses, ExprPasses
<1>5. UNCHANGED error \/ Reports \/ Quits
  BY <1>2, <1>3, StmtReports, ExprReports
<1>6. ret' = ret \/ IsNode(ret')
  BY StmtNodes, ExprNodes
<1> QED
  BY <1>1, <1>2, <1>3, <1>4, <1>5, <1>6

LEMMA HStep ==
  ASSUME TInv, AInv, HeadInv, Next
  PROVE  HeadInv'
<1>1. CASE StmtStep \/ ExprStep
  <2>1. PICK N : Well(N, stack, ret)
    BY <1>1, Steps
  <2>2. text' = text /\ HeadOK /\ (Passes \/ OpensOne \/ ClosesOne)
    BY <1>1, Steps DEF HeadInv
  <2> QED
    BY <2>1, <2>2, HeadKept DEF HeadInv
<1>2. CASE ParseStart
  <2>1. stack' = <<Frame("sstmt")>> /\ Frame("sstmt").fn = "sstmt"
    BY <1>2 DEF ParseStart, Frame
  <2>2. Last(stack') = Frame("sstmt")
    BY <2>1, One DEF Last
  <2> QED
    BY <2>1, <2>2 DEF HeadInv, HeadOK, HeadsFit, Top, Heads
<1>3. CASE ParseEnd
  BY <1>3 DEF ParseEnd, HeadInv, Fail
<1> QED
  BY <1>1, <1>2, <1>3 DEF Next

-----------------------------------------------------------------------------
(***************************************************************************)
(* The types.                                                              *)
(***************************************************************************)
FrameInv ==
  /\ phase \in {"called", "parsing", "done", "error"}
  /\ \E N : Good(N) /\ stack \in Seq(FT(N))
  /\ \A k \in 1 .. Len(stack) : stack[k].start <= at
  /\ ret = NULL \/ IsNode(ret)
  /\ error \in [what : Messages, at : Nat]

LEMMA GoodNodes ==
  ASSUME NEW N, Good(N), NEW n \in N
  PROVE  IsNode(n)
BY DEF Good, WellFormed, IsNode, ExprKinds, StmtKinds

LEMMA TypesOf == FrameInv /\ AInv => TypeOK
<1> SUFFICES ASSUME FrameInv, AInv PROVE TypeOK
  OBVIOUS
<1>1. PICK N : Good(N) /\ stack \in Seq(FT(N))
  BY DEF FrameInv
<1>2. ASSUME NEW k \in 1 .. Len(stack)
      PROVE  /\ stack[k].fn \in Functions /\ stack[k].pc \in PCs
             /\ \A j \in 1 .. Len(stack[k].kids) : IsNode(stack[k].kids[j])
             /\ stack[k].start \in 0 .. at
  <2>1. stack[k] \in FT(N)
    BY <1>1
  <2>2. /\ stack[k].fn \in Functions /\ stack[k].pc \in PCs
        /\ stack[k].kids \in Seq(N) /\ stack[k].start \in Nat
    BY <2>1 DEF FT
  <2>3. \A j \in 1 .. Len(stack[k].kids) : stack[k].kids[j] \in N
    BY <2>2, ElementOfSeq
  <2>4. stack[k].start <= at /\ at \in Nat
    BY DEF FrameInv, AInv
  <2> QED
    BY <1>1, <2>2, <2>3, <2>4, GoodNodes
<1> QED
  BY <1>2 DEF TypeOK, FrameInv, AInv

(* The place of a frame has been passed. *)
LEMMA PlacesKept ==
  ASSUME NEW N, stack \in Seq(FT(N)), at \in Nat, Passes \/ OpensOne \/ ClosesOne,
         \A k \in 1 .. Len(stack) : stack[k].start <= at
  PROVE  \A k \in 1 .. Len(stack') : stack'[k].start <= at'
<1>1. at' \in Nat /\ at <= at'
  BY DEF Passes, OpensOne, ClosesOne, AtMostPlain
<1>2. \A k \in 1 .. Len(stack) : stack[k].start \in Nat
  <2>1. \A k \in 1 .. Len(stack) : stack[k] \in FT(N)
    BY ElementOfSeq
  <2> QED
    BY <2>1 DEF FT
<1>3. ASSUME NEW f, Replaces(f), f.start \in Nat, f.start <= at
      PROVE  \A k \in 1 .. Len(stack') : stack'[k].start <= at'
  <2>1. /\ Len(stack) \in Nat \ {0}
        /\ \A k \in 1 .. Len(stack) - 1 : stack'[k] = stack[k]
        /\ stack'[Len(stack)] = f
    BY <1>3, Shape
  <2>2. CASE Len(stack') = Len(stack)
    BY <1>1, <1>2, <1>3, <2>1, <2>2
  <2>3. ASSUME NEW fn, Len(stack') = Len(stack) + 1, stack'[Len(stack) + 1] = Frame(fn)
        PROVE  \A k \in 1 .. Len(stack') : stack'[k].start <= at'
    <3>1. Frame(fn).start = 0
      BY DEF Frame
    <3> QED
      BY <1>1, <1>2, <1>3, <2>1, <2>3, <3>1
  <2> QED
    BY <1>3, <2>2, <2>3, Shape
<1>4. CASE Returns
  BY <1>1, <1>2, <1>4, Rest
<1>5. CASE stack' = stack
  BY <1>1, <1>2, <1>5
<1>6. ASSUME NEW f, Same(f), Replaces(f)
      PROVE  \A k \in 1 .. Len(stack') : stack'[k].start <= at'
  <2>1. Top.start \in Nat /\ Top.start <= at
    BY <1>2, <1>6, Shape
  <2>2. f.start \in Nat /\ f.start <= at
    BY <1>6, <2>1 DEF Same
  <2> QED
    BY <1>3, <1>6, <2>2
<1> QED
  BY <1>3, <1>4, <1>5, <1>6 DEF Passes, OpensOne, ClosesOne

(* An assignment to something else has made its call when it is reported. *)
LEMMA AssignFrames ==
  ASSUME NEW N, Well(N, stack, ret), Assign
  PROVE  stack' \in Seq(FT(N))
<1> DEFINE k == <<ret>>
           f == Keep(Top, "right", k)
<1>1. Running("eass", "left") /\ Call(f, "eass")
  BY DEF Assign, Keep
<1>2. "eass" \in ExprFns /\ "eass" \in Functions /\ "right" \in PCs
  BY DEF ExprFns, Functions, PCs
<1>3. stack # << >> /\ Top \in FT(N) /\ ret \in Exprs(N)
  BY <1>1, <1>2, HasExpr
<1>4. k \in Seq(N)
  BY <1>3, NodeSets, One
<1> HIDE DEF k
<1>5. f \in FT(N) /\ Frame("eass") \in FT(N)
  BY <1>2, <1>3, <1>4, KeepFacts, FrameOK
<1>6. Front(stack) \in Seq(FT(N))
  BY <1>3, FrontType DEF Well, StackOK
<1> HIDE DEF f
<1>7. Append(Front(stack), f) \in Seq(FT(N))
  BY <1>5, <1>6
<1> QED
  BY <1>1, <1>5, <1>7 DEF Call

LEMMA YStep ==
  ASSUME FrameInv, TInv, AInv, HeadInv, Next
  PROVE  FrameInv'
<1>1. CASE StmtStep \/ ExprStep
  <2>1. PICK N : Well(N, stack, ret)
    BY <1>1, Steps
  <2>2. \E M : Good(M) /\ stack' \in Seq(FT(M))
    <3>1. CASE Kept
      BY <3>1 DEF Kept, Well, StackOK
    <3>2. CASE Assign
      BY <2>1, <3>2, AssignFrames DEF Well
    <3> QED
      BY <1>1, <2>1, <3>1, <3>2, Steps, StmtKept, ExprKept
  <2>3. \A k \in 1 .. Len(stack') : stack'[k].start <= at'
    <3>1. stack \in Seq(FT(N)) /\ at \in Nat /\ (Passes \/ OpensOne \/ ClosesOne)
      BY <1>1, <2>1, Steps DEF Well, StackOK
    <3> QED
      BY <3>1, PlacesKept DEF FrameInv
  <2>4. ret' = NULL \/ IsNode(ret')
    BY <1>1, Steps DEF FrameInv, IsNode
  <2>5. error' \in [what : Messages, at : Nat]
    <3>1. CASE Quits
      <4>1. stack # << >> /\ error' = [what |-> "unclosed", at |-> Top.start]
        BY <3>1 DEF Quits, Unclosed, Fail
      <4>2. Top \in FT(N)
        BY <2>1, <4>1, Knows DEF Top
      <4> QED
        BY <4>1, <4>2 DEF FT, Messages
    <3>2. CASE Reports
      BY <3>2 DEF Reports
    <3> QED
      BY <1>1, <3>1, <3>2, Steps DEF FrameInv
  <2>6. phase' \in {"called", "parsing", "done", "error"}
    BY <1>1, StmtMoves, ExprMoves
       DEF Moves, Stays, Advances, Advance, Exits, ExitsAhead, Fail, FrameInv
  <2> QED
    BY <2>2, <2>3, <2>4, <2>5, <2>6 DEF FrameInv
<1>2. CASE ParseStart
  <2>1. stack' = <<Frame("sstmt")>> /\ ret' = ret /\ at' = 1
    BY <1>2 DEF ParseStart
  <2>2. Good({}) /\ Frame("sstmt") \in FT({}) /\ Frame("sstmt").start = 0
    BY FrameOK DEF Good, Functions, Frame
  <2>3. stack' \in Seq(FT({})) /\ \A k \in 1 .. Len(stack') : stack'[k].start <= at'
    BY <2>1, <2>2, One
  <2>4. phase' \in {"called", "parsing", "done", "error"}
    BY <1>2 DEF ParseStart, Fail
  <2>5. error' = error \/ \E what \in Messages, k \in Nat : error' = [what |-> what, at |-> k]
    BY <1>2 DEF ParseStart, Fail, Messages
  <2> QED
    BY <2>1, <2>2, <2>3, <2>4, <2>5 DEF FrameInv
<1>3. CASE ParseEnd
  <2>1. stack' = stack /\ stack = << >> /\ ret' = ret /\ at \in Nat
    BY <1>3 DEF ParseEnd, AInv
  <2>2. phase' \in {"called", "parsing", "done", "error"}
    BY <1>3 DEF ParseEnd, Fail
  <2>3. error' = error \/ \E what \in Messages, k \in Nat : error' = [what |-> what, at |-> k]
    BY <1>3, <2>1 DEF ParseEnd, Fail, Messages
  <2> QED
    BY <2>1, <2>2, <2>3 DEF FrameInv
<1> QED
  BY <1>1, <1>2, <1>3 DEF Next

LEMMA Inductive == Spec => [](TInv /\ AInv /\ HeadInv)
<1>1. Init => TInv /\ HeadInv
  BY DEF Init, TInv, HeadInv
<1>2. TInv /\ AInv /\ HeadInv /\ [Next]_vars => TInv' /\ HeadInv'
  <2>1. TInv /\ HeadInv /\ UNCHANGED vars => TInv' /\ HeadInv'
    BY DEF TInv, HeadInv, HeadOK, HeadsFit, Top, CTok, Tok, vars
  <2> QED
    BY <2>1, TStep, HStep
<1> QED
  BY <1>1, <1>2, AInductive, PTL DEF Spec

(* On every text, in every state, those after exit included, the variables
   of the parser have their types: the frames are those of functions of the
   grammar, keep nodes, and are not placed past ctok. *)
THEOREM TypesAreRight == Spec => []TypeOK
<1>1. Init => FrameInv
  <2> SUFFICES ASSUME Init PROVE FrameInv
    OBVIOUS
  <2>1. Good({}) /\ stack \in Seq(FT({})) /\ stack = << >>
    BY DEF Init, Good
  <2>2. error \in [what : Messages, at : Nat]
    BY DEF Init, NoError, Messages
  <2> QED
    BY <2>1, <2>2 DEF Init, FrameInv
<1>2. FrameInv /\ TInv /\ AInv /\ HeadInv /\ [Next]_vars => FrameInv'
  <2>1. FrameInv /\ UNCHANGED vars => FrameInv'
    BY DEF FrameInv, vars
  <2> QED
    BY <2>1, YStep
<1> QED
  BY <1>1, <1>2, TypesOf, Inductive, PTL DEF Spec

-----------------------------------------------------------------------------
(***************************************************************************)
(* Brackets in a text.                                                     *)
(***************************************************************************)
KindIn(T, k) == (IF k <= Len(T) THEN T[k] ELSE Token("TK_EOF")).kind

Number(T, k, i, K) == Cardinality({h \in k .. i : KindIn(T, h) \in K})

Depth(T, k, i) == Number(T, k, i, Opens) - Number(T, k, i, Closes)

IsOpen(T, k, j) ==
  /\ KindIn(T, k) \in Opens
  /\ \A i \in k + 1 .. j - 1 : Number(T, k, i, Closes) < Number(T, k, i, Opens)

(* What is open before token j, and the depth of each. *)
Unmatched(T, j) == {k \in 1 .. j - 1 : IsOpen(T, k, j)}

Inside(T, j, k) == {h \in Unmatched(T, j) : k <= h}

Balanced(T, j) == \A k \in Unmatched(T, j) : Depth(T, k, j - 1) = Cardinality(Inside(T, j, k))

LEMMA NumberType ==
  ASSUME NEW T, NEW k \in Int, NEW i \in Int, NEW K
  PROVE  /\ IsFiniteSet({h \in k .. i : KindIn(T, h) \in K})
         /\ Number(T, k, i, K) \in Nat
         /\ i < k => Number(T, k, i, K) = 0
<1> DEFINE S == {h \in k .. i : KindIn(T, h) \in K}
<1>1. IsFiniteSet(S)
  BY FS_Interval, FS_Subset
<1>2. i < k => S = {}
  OBVIOUS
<1> QED
  BY <1>1, <1>2, FS_CardinalityType, FS_EmptySet DEF Number

LEMMA NumberStep ==
  ASSUME NEW T, NEW k \in Nat, NEW j \in Nat, k <= j, NEW K
  PROVE  Number(T, k, j, K) =
           Number(T, k, j - 1, K) + IF KindIn(T, j) \in K THEN 1 ELSE 0
<1> DEFINE S == {h \in k .. j - 1 : KindIn(T, h) \in K}
           R == {h \in k .. j : KindIn(T, h) \in K}
<1>1. k \in Int /\ j - 1 \in Int
  OBVIOUS
<1>2. IsFiniteSet(S)
  BY <1>1, NumberType
<1>3. Number(T, k, j - 1, K) = Cardinality(S) /\ Number(T, k, j, K) = Cardinality(R)
  BY DEF Number
<1>4. j \notin S /\ R = IF KindIn(T, j) \in K THEN S \cup {j} ELSE S
  OBVIOUS
<1>5. Cardinality(S) \in Nat
  BY <1>2, FS_CardinalityType
<1> HIDE DEF S, R
<1>6. Cardinality(S \cup {j}) = Cardinality(S) + 1
  BY <1>2, <1>4, FS_AddElement
<1> QED
  BY <1>3, <1>4, <1>5, <1>6

LEMMA DepthStep ==
  ASSUME NEW T, NEW k \in Nat, NEW j \in Nat, k <= j
  PROVE  /\ Depth(T, k, j - 1) \in Int
         /\ k = j => Depth(T, k, j - 1) = 0
         /\ KindIn(T, j) \in Opens => Depth(T, k, j) = Depth(T, k, j - 1) + 1
         /\ KindIn(T, j) \in Closes => Depth(T, k, j) = Depth(T, k, j - 1) - 1
         /\ KindIn(T, j) \notin Opens \cup Closes => Depth(T, k, j) = Depth(T, k, j - 1)
<1>1. Opens \cap Closes = {}
  BY DEF Opens, Closes
<1>2. /\ Number(T, k, j, Opens) =
           Number(T, k, j - 1, Opens) + IF KindIn(T, j) \in Opens THEN 1 ELSE 0
      /\ Number(T, k, j, Closes) =
           Number(T, k, j - 1, Closes) + IF KindIn(T, j) \in Closes THEN 1 ELSE 0
  BY NumberStep
<1>3. k \in Int /\ j - 1 \in Int /\ (k = j => j - 1 < k)
  OBVIOUS
<1>4. \A K \in {Opens, Closes} :
        Number(T, k, j - 1, K) \in Nat /\ (j - 1 < k => Number(T, k, j - 1, K) = 0)
  BY <1>3, NumberType, Zenon
<1> QED
  BY <1>1, <1>2, <1>3, <1>4 DEF Depth

LEMMA OpenStep ==
  ASSUME NEW T, NEW k \in Nat, NEW j \in Nat, k < j
  PROVE  IsOpen(T, k, j + 1) <=> IsOpen(T, k, j) /\ Depth(T, k, j) >= 1
<1>1. Depth(T, k, j) >= 1 <=> Number(T, k, j, Closes) < Number(T, k, j, Opens)
  <2>1. k \in Int /\ j \in Int
    OBVIOUS
  <2>2. Number(T, k, j, Opens) \in Nat /\ Number(T, k, j, Closes) \in Nat
    BY <2>1, NumberType, Zenon
  <2> QED
    BY <2>2 DEF Depth
<1>2. \A i : i \in k + 1 .. (j + 1) - 1 <=> i \in k + 1 .. j - 1 \/ i = j
  OBVIOUS
<1> QED
  BY <1>1, <1>2 DEF IsOpen

LEMMA InsideType ==
  ASSUME NEW T, NEW j \in Nat, NEW k \in Unmatched(T, j)
  PROVE  /\ k \in Nat /\ k >= 1 /\ k < j /\ IsOpen(T, k, j)
         /\ k \in Inside(T, j, k)
         /\ IsFiniteSet(Inside(T, j, k))
         /\ Cardinality(Inside(T, j, k)) \in Nat \ {0}
<1>1. k \in Nat /\ k >= 1 /\ k < j /\ IsOpen(T, k, j) /\ k \in Inside(T, j, k)
  BY DEF Unmatched, Inside
<1>2. Inside(T, j, k) \subseteq 1 .. j - 1
  BY DEF Inside, Unmatched
<1>3. IsFiniteSet(Inside(T, j, k))
  BY <1>2, FS_Interval, FS_Subset
<1>4. Cardinality(Inside(T, j, k)) \in Nat \ {0}
  BY <1>1, <1>3, FS_CardinalityType, FS_EmptySet
<1> QED
  BY <1>1, <1>3, <1>4

(* The token between the brackets of j and of j + 1. *)
LEMMA StaysOpen ==
  ASSUME NEW T, NEW j \in Nat \ {0}, Balanced(T, j), NEW k \in Nat, k < j
  PROVE  k \in Unmatched(T, j + 1) <=>
           k \in Unmatched(T, j) /\ (KindIn(T, j) \in Closes => Cardinality(Inside(T, j, k)) >= 2)
<1>1. k \in Unmatched(T, j + 1) <=> k >= 1 /\ IsOpen(T, k, j) /\ Depth(T, k, j) >= 1
  BY OpenStep DEF Unmatched
<1>2. k \in Unmatched(T, j) <=> k >= 1 /\ IsOpen(T, k, j)
  BY DEF Unmatched
<1>3. ASSUME k \in Unmatched(T, j)
      PROVE  Depth(T, k, j) >= 1 <=> (KindIn(T, j) \in Closes => Cardinality(Inside(T, j, k)) >= 2)
  <2>1. /\ Depth(T, k, j - 1) = Cardinality(Inside(T, j, k))
        /\ Cardinality(Inside(T, j, k)) \in Nat \ {0}
    BY <1>3, InsideType DEF Balanced
  <2> QED
    BY <2>1, DepthStep
<1> QED
  BY <1>1, <1>2, <1>3

LEMMA Begins ==
  ASSUME NEW T, NEW j \in Nat \ {0}
  PROVE  /\ j \in Unmatched(T, j + 1) <=> KindIn(T, j) \in Opens
         /\ \A k \in Unmatched(T, j + 1) : k \in Nat /\ k <= j
BY DEF Unmatched, IsOpen

LEMMA PlainText ==
  ASSUME NEW T, NEW j \in Nat \ {0}, Balanced(T, j), KindIn(T, j) \notin Opens \cup Closes
  PROVE  Unmatched(T, j + 1) = Unmatched(T, j) /\ Balanced(T, j + 1)
<1>1. Unmatched(T, j + 1) = Unmatched(T, j)
  <2>1. \A k \in Unmatched(T, j) : k \in Nat /\ k < j
    BY InsideType
  <2> QED
    BY <2>1, StaysOpen, Begins
<1>2. ASSUME NEW k \in Unmatched(T, j)
      PROVE  Depth(T, k, (j + 1) - 1) = Cardinality(Inside(T, j + 1, k))
  <2>1. Inside(T, j + 1, k) = Inside(T, j, k)
    BY <1>1 DEF Inside
  <2>2. Depth(T, k, j) = Depth(T, k, j - 1)
    BY InsideType, DepthStep
  <2>3. (j + 1) - 1 = j
    OBVIOUS
  <2> QED
    BY <2>1, <2>2, <2>3 DEF Balanced
<1> QED
  BY <1>1, <1>2 DEF Balanced

LEMMA OpenText ==
  ASSUME NEW T, NEW j \in Nat \ {0}, Balanced(T, j), KindIn(T, j) \in Opens
  PROVE  Unmatched(T, j + 1) = Unmatched(T, j) \cup {j} /\ Balanced(T, j + 1)
<1>1. (j + 1) - 1 = j /\ KindIn(T, j) \notin Closes
  BY DEF Opens, Closes
<1>2. \A k \in Unmatched(T, j) : k \in Nat /\ k < j
  BY InsideType
<1>3. Unmatched(T, j + 1) = Unmatched(T, j) \cup {j}
  BY <1>1, <1>2, StaysOpen, Begins
<1>4. ASSUME NEW k \in Unmatched(T, j)
      PROVE  Depth(T, k, j) = Cardinality(Inside(T, j + 1, k))
  <2>1. Inside(T, j + 1, k) = Inside(T, j, k) \cup {j} /\ j \notin Inside(T, j, k)
    BY <1>2, <1>3 DEF Inside
  <2>2. IsFiniteSet(Inside(T, j, k))
    BY InsideType
  <2>3. Cardinality(Inside(T, j + 1, k)) = Cardinality(Inside(T, j, k)) + 1
    BY <2>1, <2>2, FS_AddElement
  <2>4. Depth(T, k, j) = Depth(T, k, j - 1) + 1
    BY <1>2, DepthStep
  <2> QED
    BY <2>3, <2>4 DEF Balanced
<1>5. Depth(T, j, j) = Cardinality(Inside(T, j + 1, j))
  <2>1. Inside(T, j + 1, j) = {j}
    BY <1>2, <1>3 DEF Inside
  <2>2. Depth(T, j, j - 1) = 0 /\ Depth(T, j, j) = Depth(T, j, j - 1) + 1
    BY DepthStep
  <2> QED
    BY <2>1, <2>2, FS_Singleton
<1> QED
  BY <1>1, <1>3, <1>4, <1>5 DEF Balanced

LEMMA CloseText ==
  ASSUME NEW T, NEW j \in Nat \ {0}, Balanced(T, j), KindIn(T, j) \in Closes,
         NEW m \in Unmatched(T, j), \A h \in Unmatched(T, j) : h <= m
  PROVE  Unmatched(T, j + 1) = Unmatched(T, j) \ {m} /\ Balanced(T, j + 1)
<1>1. (j + 1) - 1 = j /\ KindIn(T, j) \notin Opens
  BY DEF Opens, Closes
<1>2. \A k \in Unmatched(T, j) : k \in Nat /\ k < j
  BY InsideType
<1>3. Cardinality(Inside(T, j, m)) = 1
  <2>1. Inside(T, j, m) = {m}
    BY <1>2 DEF Inside
  <2> QED
    BY <2>1, FS_Singleton
<1>4. ASSUME NEW k \in Unmatched(T, j), k # m
      PROVE  /\ Cardinality(Inside(T, j, k) \ {m}) = Cardinality(Inside(T, j, k)) - 1
             /\ Cardinality(Inside(T, j, k)) \in Nat /\ Cardinality(Inside(T, j, k)) >= 2
  <2>1. IsFiniteSet(Inside(T, j, k)) /\ Cardinality(Inside(T, j, k)) \in Nat
    BY InsideType
  <2>2. m \in Inside(T, j, k) /\ k \in Inside(T, j, k) \ {m}
    BY <1>2, <1>4 DEF Inside
  <2>3. /\ IsFiniteSet(Inside(T, j, k) \ {m})
        /\ Cardinality(Inside(T, j, k) \ {m}) = Cardinality(Inside(T, j, k)) - 1
    BY <2>1, <2>2, FS_RemoveElement
  <2>4. Cardinality(Inside(T, j, k) \ {m}) # 0 /\ Cardinality(Inside(T, j, k) \ {m}) \in Nat
    BY <2>2, <2>3, FS_EmptySet, FS_CardinalityType
  <2> QED
    BY <2>1, <2>3, <2>4
<1>5. Unmatched(T, j + 1) = Unmatched(T, j) \ {m}
  <2>1. \A k \in Unmatched(T, j + 1) : k \in Nat /\ k < j
    BY <1>1, Begins
  <2>2. ASSUME NEW k \in Nat, k < j
        PROVE  k \in Unmatched(T, j + 1) <=> k \in Unmatched(T, j) /\ k # m
    <3>1. k \in Unmatched(T, j + 1) <=>
            k \in Unmatched(T, j) /\ Cardinality(Inside(T, j, k)) >= 2
      BY <2>2, StaysOpen
    <3>2. CASE k = m
      BY <1>3, <3>1, <3>2
    <3>3. CASE k # m
      BY <1>4, <3>1, <3>3
    <3> QED
      BY <3>2, <3>3
  <2> QED
    BY <1>2, <2>1, <2>2
<1>6. ASSUME NEW k \in Unmatched(T, j), k # m
      PROVE  Depth(T, k, j) = Cardinality(Inside(T, j + 1, k))
  <2>1. Inside(T, j + 1, k) = Inside(T, j, k) \ {m}
    BY <1>5 DEF Inside
  <2>2. Depth(T, k, j) = Depth(T, k, j - 1) - 1
    BY <1>2, DepthStep
  <2> QED
    BY <1>4, <1>6, <2>1, <2>2 DEF Balanced
<1> QED
  BY <1>1, <1>5, <1>6 DEF Balanced

-----------------------------------------------------------------------------
(***************************************************************************)
(* The brackets of the text and the frames.                                *)
(***************************************************************************)
Marks(s) == {k \in 1 .. Len(s) : Bracket(s[k])}

Places(s) == {s[k].start : k \in Marks(s)}

Rising(s) == \A k, l \in Marks(s) : k < l => s[k].start < s[l].start

BracketsOK ==
  /\ Balanced(text, at)
  /\ Unmatched(text, at) = Places(stack)
  /\ Rising(stack)

LEMMA MarksPass ==
  ASSUME NEW N, stack \in Seq(FT(N)), Passes
  PROVE  /\ Marks(stack') = Marks(stack)
         /\ \A k \in Marks(stack) : stack'[k].start = stack[k].start
<1>1. ASSUME NEW f, Same(f), Replaces(f)
      PROVE  /\ Marks(stack') = Marks(stack)
             /\ \A k \in Marks(stack) : stack'[k].start = stack[k].start
  <2>1. /\ Len(stack) \in Nat \ {0} /\ Top = stack[Len(stack)] /\ stack'[Len(stack)] = f
        /\ \A k \in 1 .. Len(stack) - 1 : stack'[k] = stack[k]
    BY <1>1, Shape
  <2>2. CASE Len(stack') = Len(stack)
    BY <1>1, <2>1, <2>2 DEF Marks, Same
  <2>3. ASSUME NEW fn, Len(stack') = Len(stack) + 1, stack'[Len(stack) + 1] = Frame(fn)
        PROVE  /\ Marks(stack') = Marks(stack)
               /\ \A k \in Marks(stack) : stack'[k].start = stack[k].start
    <3>1. ~Bracket(Frame(fn))
      BY DEF Bracket, Within, Frame
    <3> QED
      BY <1>1, <2>1, <2>3, <3>1 DEF Marks, Same
  <2> QED
    BY <1>1, <2>2, <2>3, Shape
<1>2. CASE Returns /\ ~Bracket(Top)
  BY <1>2, Rest DEF Marks
<1>3. CASE stack' = stack
  BY <1>3
<1> QED
  BY <1>1, <1>2, <1>3 DEF Passes

LEMMA MarksOpen ==
  ASSUME NEW N, stack \in Seq(FT(N)), OpensOne
  PROVE  /\ Len(stack) \in Nat
         /\ Marks(stack') = Marks(stack) \cup {Len(stack)} /\ stack'[Len(stack)].start = at
         /\ \A k \in Marks(stack) : k < Len(stack) /\ stack'[k].start = stack[k].start
<1>1. PICK f : Bracket(f) /\ f.start = at /\ ~Bracket(Top) /\ Replaces(f)
  BY DEF OpensOne
<1>2. /\ Len(stack) \in Nat \ {0} /\ Top = stack[Len(stack)] /\ stack'[Len(stack)] = f
      /\ \A k \in 1 .. Len(stack) - 1 : stack'[k] = stack[k]
  BY <1>1, Shape
<1>3. Marks(stack') = Marks(stack) \cup {Len(stack)}
  <2>1. CASE Len(stack') = Len(stack)
    BY <1>1, <1>2, <2>1 DEF Marks
  <2>2. ASSUME NEW fn, Len(stack') = Len(stack) + 1, stack'[Len(stack) + 1] = Frame(fn)
        PROVE  Marks(stack') = Marks(stack) \cup {Len(stack)}
    <3>1. ~Bracket(Frame(fn))
      BY DEF Bracket, Within, Frame
    <3> QED
      BY <1>1, <1>2, <2>2, <3>1 DEF Marks
  <2> QED
    BY <1>1, <2>1, <2>2, Shape
<1> QED
  BY <1>1, <1>2, <1>3 DEF Marks

LEMMA MarksClose ==
  ASSUME NEW N, stack \in Seq(FT(N)), ClosesOne
  PROVE  /\ Len(stack) \in Marks(stack) /\ Marks(stack') = Marks(stack) \ {Len(stack)}
         /\ \A k \in Marks(stack') : k < Len(stack) /\ stack'[k] = stack[k]
BY Rest DEF ClosesOne, Marks

LEMMA BracketsKept ==
  ASSUME NEW N, stack \in Seq(FT(N)), at \in Nat \ {0}, BracketsOK, text' = text,
         Passes \/ OpensOne \/ ClosesOne
  PROVE  BracketsOK'
<1>1. CTok.kind = KindIn(text, at)
  BY DEF CTok, Tok, KindIn
<1>2. \A k \in Marks(stack) : k \in Nat /\ stack[k].start \in Nat /\ stack[k].start < at
  <2>1. \A k \in Marks(stack) : k \in Nat /\ stack[k].start \in Unmatched(text, at)
    BY DEF BracketsOK, Places, Marks
  <2> QED
    BY <2>1, InsideType
<1>3. CASE Passes
  <2>1. Balanced(text, at') /\ Unmatched(text, at') = Unmatched(text, at)
    BY <1>1, <1>3, PlainText DEF Passes, AtMostPlain, Plain, BracketsOK
  <2>2. Places(stack') = Places(stack) /\ Rising(stack')
    BY <1>3, MarksPass DEF Places, Rising, BracketsOK
  <2> QED
    BY <2>1, <2>2 DEF BracketsOK
<1>4. CASE OpensOne
  <2>1. Balanced(text, at') /\ Unmatched(text, at') = Unmatched(text, at) \cup {at}
    BY <1>1, <1>4, OpenText DEF OpensOne, BracketsOK
  <2>2. /\ Len(stack) \in Nat
        /\ Marks(stack') = Marks(stack) \cup {Len(stack)} /\ stack'[Len(stack)].start = at
        /\ \A k \in Marks(stack) : k < Len(stack) /\ stack'[k].start = stack[k].start
    BY <1>4, MarksOpen
  <2>3. Places(stack') = Places(stack) \cup {at}
    BY <2>2 DEF Places
  <2>4. Rising(stack')
    BY <1>2, <2>2 DEF Rising, BracketsOK
  <2> QED
    BY <2>1, <2>3, <2>4 DEF BracketsOK
<1>5. CASE ClosesOne
  <2> DEFINE n == Len(stack)
             m == stack[n].start
  <2>1. /\ n \in Marks(stack) /\ Marks(stack') = Marks(stack) \ {n}
        /\ \A k \in Marks(stack') : k < n /\ stack'[k] = stack[k]
    BY <1>5, MarksClose
  <2> HIDE DEF n
  <2>2. m \in Unmatched(text, at) /\ \A k \in Marks(stack) \ {n} : stack[k].start < m
    BY <1>2, <2>1 DEF BracketsOK, Places, Rising
  <2>3. \A h \in Unmatched(text, at) : h <= m
    BY <1>2, <2>1, <2>2 DEF BracketsOK, Places
  <2>4. Balanced(text, at') /\ Unmatched(text, at') = Unmatched(text, at) \ {m}
    BY <1>1, <1>5, <2>2, <2>3, CloseText DEF ClosesOne, BracketsOK
  <2>5. \A k \in Marks(stack) \ {n} : stack'[k].start = stack[k].start /\ stack[k].start # m
    BY <1>2, <2>1, <2>2
  <2>6. Places(stack') = Places(stack) \ {m}
    BY <2>1, <2>5 DEF Places
  <2>7. Rising(stack')
    BY <2>1, <2>5 DEF Rising, BracketsOK
  <2> QED
    BY <2>4, <2>6, <2>7 DEF BracketsOK
<1> QED
  BY <1>3, <1>4, <1>5

Innermost(T, e, j) ==
  e.what = "unclosed" =>
    /\ IsOpen(T, e.at, j)
    /\ \A k \in e.at + 1 .. j - 1 : ~IsOpen(T, k, j)

LEMMA InnermostOf ==
  /\ UnclosedIsInnermost <=> Innermost(text, error, at)
  /\ UnclosedIsInnermost' <=> Innermost(text', error', at')
BY DEF UnclosedIsInnermost, OpenAt, Tok, Innermost, IsOpen, Number, KindIn

BracketInv ==
  /\ phase = "parsing" => BracketsOK
  /\ phase # "error" => error.what = ""
  /\ Innermost(text, error, at)

LEMMA QuitsInnermost ==
  ASSUME NEW N, stack \in Seq(FT(N)), at \in Nat, BracketsOK, Quits
  PROVE  Innermost(text', error', at')
<1> DEFINE n == Len(stack)
           m == stack[n].start
<1>1. error' = [what |-> "unclosed", at |-> Top.start] /\ text' = text /\ at' = at
  BY DEF Quits, Unclosed, Fail
<1>2. Top = stack[n] /\ n \in Nat \ {0} /\ n \in Marks(stack)
  <2>1. stack # << >> /\ Bracket(Top)
    BY DEF Quits
  <2>2. Top = stack[n] /\ n \in Nat \ {0}
    BY <2>1, FrontType DEF Top
  <2> QED
    BY <2>1, <2>2 DEF Marks
<1>3. m \in Unmatched(text, at) /\ IsOpen(text, m, at) /\ m \in Nat
  BY <1>2, InsideType DEF BracketsOK, Places
<1>4. ASSUME NEW k \in m + 1 .. at - 1, IsOpen(text, k, at)
      PROVE  FALSE
  <2>1. k \in Unmatched(text, at)
    BY <1>3, <1>4 DEF Unmatched
  <2>2. PICK l \in Marks(stack) : k = stack[l].start
    BY <2>1 DEF BracketsOK, Places
  <2>3. l = n \/ l < n
    BY <1>2 DEF Marks
  <2>4. stack[l].start = m \/ stack[l].start < m
    BY <1>2, <2>3 DEF BracketsOK, Rising
  <2> QED
    BY <1>3, <2>2, <2>4
<1> HIDE DEF n, m
<1>5. error'.at = m
  BY <1>1, <1>2 DEF m
<1> QED
  BY <1>1, <1>3, <1>4, <1>5 DEF Innermost

LEMMA BStep ==
  ASSUME BracketInv, TInv, AInv, HeadInv, Next
  PROVE  BracketInv'
<1>1. CASE StmtStep \/ ExprStep
  <2>1. PICK N : Well(N, stack, ret)
    BY <1>1, Steps
  <2>2. phase = "parsing" /\ text' = text /\ at \in Nat \ {0} /\ stack \in Seq(FT(N))
    BY <1>1, <2>1, Steps DEF Well, StackOK
  <2>3. BracketsOK /\ error.what = ""
    BY <2>2 DEF BracketInv
  <2>4. BracketsOK'
    BY <1>1, <2>2, <2>3, Steps, BracketsKept
  <2>5. phase' # "error" => error' = error
    BY <1>1, StmtMoves, ExprMoves DEF Moves, Stays, Advances, Advance, Exits, ExitsAhead, Fail
  <2>6. Innermost(text', error', at')
    <3>1. CASE UNCHANGED error \/ Reports
      <4>1. error'.what # "unclosed"
        <5>1. CASE Reports
          <6>1. PICK what \in Messages \ {"unclosed"}, k \in Nat :
                  error' = [what |-> what, at |-> k]
            BY <5>1 DEF Reports
          <6> QED
            BY <6>1
        <5> QED
          BY <2>3, <3>1, <5>1
      <4> QED
        BY <4>1 DEF Innermost
    <3>2. CASE Quits
      BY <2>2, <2>3, <3>2, QuitsInnermost
    <3> QED
      BY <1>1, <3>1, <3>2, Steps
  <2> QED
    BY <2>3, <2>4, <2>5, <2>6 DEF BracketInv
<1>2. CASE ParseStart
  <2>1. stack' = <<Frame("sstmt")>> /\ at' = 1 /\ error.what = ""
    BY <1>2 DEF ParseStart, BracketInv
  <2>2. Unmatched(text', at') = {}
    <3>1. \A k : k \notin 1 .. 1 - 1
      OBVIOUS
    <3> QED
      BY <2>1, <3>1 DEF Unmatched
  <2>3. Marks(stack') = {}
    <3>1. Len(stack') = 1 /\ stack'[1] = Frame("sstmt") /\ ~Bracket(Frame("sstmt"))
      BY <2>1, One DEF Bracket, Within, Frame
    <3> QED
      BY <3>1 DEF Marks
  <2>4. BracketsOK'
    BY <2>2, <2>3 DEF BracketsOK, Balanced, Places, Rising
  <2>5. error' = error \/ (phase' = "error" /\ error'.what \in {"invalid token", "empty file"})
    <3>1. \/ error' = error
          \/ phase' = "error" /\ \E k : error' = [what |-> "invalid token", at |-> k]
          \/ phase' = "error" /\ error' = [what |-> "empty file", at |-> 1]
      BY <1>2 DEF ParseStart, Fail
    <3>2. CASE phase' = "error" /\ \E k : error' = [what |-> "invalid token", at |-> k]
      <4>1. PICK k : error' = [what |-> "invalid token", at |-> k]
        BY <3>2
      <4> QED
        BY <3>2, <4>1
    <3>3. CASE phase' = "error" /\ error' = [what |-> "empty file", at |-> 1]
      BY <3>3
    <3> QED
      BY <3>1, <3>2, <3>3
  <2> QED
    BY <2>1, <2>4, <2>5 DEF BracketInv, Innermost
<1>3. CASE ParseEnd
  <2>1. (phase' = "done" /\ error' = error) \/ (phase' = "error" /\ error'.what = "eof")
    BY <1>3 DEF ParseEnd, Fail
  <2>2. error.what = ""
    BY <1>3 DEF ParseEnd, BracketInv
  <2> QED
    BY <2>1, <2>2 DEF BracketInv, Innermost
<1> QED
  BY <1>1, <1>2, <1>3 DEF Next

(* On every text, "unclosed" points at the innermost bracket that is open
   where the parser stands: counted in the text, whatever functions of
   whatever depth have opened and closed what is between. *)
THEOREM UnclosedPointsAtInnermost == Spec => []UnclosedIsInnermost
<1>1. Init => BracketInv
  <2> SUFFICES ASSUME Init PROVE BracketInv
    OBVIOUS
  <2>1. phase = "called" /\ error = [what |-> "", at |-> 0]
    BY DEF Init, NoError
  <2>2. error.what = ""
    BY <2>1
  <2> QED
    BY <2>1, <2>2 DEF BracketInv, Innermost
<1>2. BracketInv /\ TInv /\ AInv /\ HeadInv /\ [Next]_vars => BracketInv'
  <2>1. BracketInv /\ UNCHANGED vars => BracketInv'
    BY DEF BracketInv, BracketsOK, vars
  <2> QED
    BY <2>1, BStep
<1>3. BracketInv => UnclosedIsInnermost
  BY InnermostOf DEF BracketInv
<1> QED
  BY <1>1, <1>2, <1>3, Inductive, PTL DEF Spec

-----------------------------------------------------------------------------
(***************************************************************************)
(* The trees of the stretches are what the rules say.                      *)
(***************************************************************************)
(* The rules for a stretch look at shorter ones, and at sorts of a lower level
   on the same one: what they look at has a smaller size. *)
Level == [operand |-> 0, unary |-> 1, product |-> 2, sum |-> 3, expr |-> 4,
          block |-> 5, stmt |-> 6, list |-> 7]

Wide(i, j) == IF i <= j THEN j + 1 - i ELSE 0

Size(x) == 8 * Wide(x[2], x[3]) + Level[x[1]]

(* G and H agree on the stretches that the rule for s, i, j may look at. *)
Agree(T, G, H, s, i, j) ==
  \A u \in Sorts, k \in 1 .. Len(T) + 1, h \in 0 .. Len(T) :
    \/ Wide(k, h) < Wide(i, j)
    \/ Wide(k, h) = Wide(i, j) /\ Level[u] < Level[s]
    => G[<<u, k, h>>] = H[<<u, k, h>>]

(* They agree on what lies within i .. j and is not all of it. *)
Deep(G, H, i, j) ==
  \A u \in Sorts, k \in i .. j + 1, h \in i - 1 .. j :
    i < k \/ h < j => G[<<u, k, h>>] = H[<<u, k, h>>]

(* What lies within i .. j, and is not all of it, is shorter. *)
LEMMA Inner ==
  ASSUME NEW T, Len(T) \in Nat, NEW G, NEW H,
         NEW s, NEW i \in 1 .. Len(T) + 1, NEW j \in 0 .. Len(T), i <= j,
         Agree(T, G, H, s, i, j)
  PROVE  Deep(G, H, i, j)
<1> SUFFICES \A u \in Sorts, k \in i .. j + 1, h \in i - 1 .. j :
               i < k \/ h < j => G[<<u, k, h>>] = H[<<u, k, h>>]
  BY DEF Deep
<1> TAKE u \in Sorts, k \in i .. j + 1, h \in i - 1 .. j
<1>1. k \in 1 .. Len(T) + 1 /\ h \in 0 .. Len(T)
  OBVIOUS
<1>2. i < k \/ h < j => Wide(k, h) < Wide(i, j)
  BY DEF Wide
<1> QED
  BY <1>1, <1>2 DEF Agree

LEMMA SplitsInside ==
  ASSUME NEW T, NEW i \in Nat, NEW j \in Nat, NEW K
  PROVE  \A k \in Splits(T, i, j, K) : k \in i + 1 .. j - 1 /\ i < j /\ k \in Nat
BY DEF Splits

(* Each rule makes the same trees of G as of H. *)
LEMMA JoinedLooks ==
  ASSUME NEW T, Len(T) \in Nat, NEW G, NEW H,
         NEW s \in Sorts, NEW i \in 1 .. Len(T) + 1, NEW j \in 0 .. Len(T),
         Agree(T, G, H, s, i, j), NEW u \in Sorts, Level[u] < Level[s], NEW K
  PROVE  Joined(T, G, i, j, s, u, K) = Joined(T, H, i, j, s, u, K)
<1>1. G[<<u, i, j>>] = H[<<u, i, j>>]
  BY DEF Agree
<1> DEFINE S == Splits(T, i, j, K)
           Part(F, k) == {NewBinop(BinopOf[At(T, k)], l, r) :
                            l \in F[<<s, i, k - 1>>], r \in F[<<u, k + 1, j>>]}
<1>2. \A F : Joined(T, F, i, j, s, u, K) = F[<<u, i, j>>] \cup UNION {Part(F, k) : k \in S}
  BY DEF Joined
<1>3. ASSUME NEW k \in S
      PROVE  Part(G, k) = Part(H, k)
  <2>1. k \in i + 1 .. j - 1 /\ i <= j
    BY SplitsInside
  <2>2. G[<<s, i, k - 1>>] = H[<<s, i, k - 1>>] /\ G[<<u, k + 1, j>>] = H[<<u, k + 1, j>>]
    <3>1. Deep(G, H, i, j)
      BY <2>1, Inner
    <3> QED
      BY <3>1, <2>1 DEF Deep, Sorts
  <2> QED
    BY <2>2
<1> HIDE DEF S, Part
<1>4. UNION {Part(G, k) : k \in S} = UNION {Part(H, k) : k \in S}
  BY <1>3, Zenon
<1> QED
  BY <1>1, <1>2, <1>4

LEMMA ExprLooks ==
  ASSUME NEW T, Len(T) \in Nat, NEW G, NEW H,
         NEW i \in 1 .. Len(T) + 1, NEW j \in 0 .. Len(T), Agree(T, G, H, "expr", i, j)
  PROVE  Expr(T, G, i, j) = Expr(T, H, i, j)
<1>1. G[<<"sum", i, j>>] = H[<<"sum", i, j>>]
  BY DEF Agree, Sorts, Level
<1> DEFINE S == Splits(T, i, j, {"TK_ASS"})
           Part(F, k) == {NewBinop("BINOP_ASS", l, r) :
                            l \in {n \in F[<<"sum", i, k - 1>>] : IsId(n)},
                            r \in F[<<"expr", k + 1, j>>]}
<1>2. \A F : Expr(T, F, i, j) = F[<<"sum", i, j>>] \cup UNION {Part(F, k) : k \in S}
  BY DEF Expr
<1>3. ASSUME NEW k \in S
      PROVE  Part(G, k) = Part(H, k)
  <2>1. k \in i + 1 .. j - 1 /\ i <= j
    BY SplitsInside
  <2>2. /\ G[<<"sum", i, k - 1>>] = H[<<"sum", i, k - 1>>]
        /\ G[<<"expr", k + 1, j>>] = H[<<"expr", k + 1, j>>]
    <3>1. Deep(G, H, i, j)
      BY <2>1, Inner
    <3> QED
      BY <3>1, <2>1 DEF Deep, Sorts
  <2> QED
    BY <2>2
<1> HIDE DEF S, Part
<1>4. UNION {Part(G, k) : k \in S} = UNION {Part(H, k) : k \in S}
  BY <1>3, Zenon
<1> QED
  BY <1>1, <1>2, <1>4

LEMMA UnaryLooks ==
  ASSUME NEW T, Len(T) \in Nat, NEW G, NEW H,
         NEW i \in 1 .. Len(T) + 1, NEW j \in 0 .. Len(T), Agree(T, G, H, "unary", i, j)
  PROVE  Unary(T, G, i, j) = Unary(T, H, i, j)
<1>1. G[<<"operand", i, j>>] = H[<<"operand", i, j>>]
  BY DEF Agree, Sorts, Level
<1>2. CASE i <= j
  <2>1. G[<<"unary", i + 1, j>>] = H[<<"unary", i + 1, j>>]
    <3>1. Deep(G, H, i, j)
      BY <1>2, Inner
    <3> QED
      BY <3>1, <1>2 DEF Deep, Sorts
  <2> QED
    BY <1>1, <2>1 DEF Unary
<1> QED
  BY <1>2 DEF Unary

LEMMA PostfixedLooks ==
  ASSUME NEW T, Len(T) \in Nat, NEW G, NEW H,
         NEW i \in 1 .. Len(T) + 1, NEW j \in 0 .. Len(T), Agree(T, G, H, "operand", i, j)
  PROVE  Postfixed(T, G, i, j) = Postfixed(T, H, i, j)
<1>1. CASE i < j
  <2>1. /\ G[<<"operand", i, j - 1>>] = H[<<"operand", i, j - 1>>]
        /\ G[<<"expr", i + 1, j - 1>>] = H[<<"expr", i + 1, j - 1>>]
    <3>1. Deep(G, H, i, j)
      BY <1>1, Inner
    <3> QED
      BY <3>1, <1>1 DEF Deep, Sorts
  <2> QED
    BY <2>1 DEF Postfixed
<1> QED
  BY <1>1 DEF Postfixed

LEMMA StmtListLooks ==
  ASSUME NEW T, Len(T) \in Nat, NEW G, NEW H,
         NEW i \in 1 .. Len(T) + 1, NEW j \in 0 .. Len(T), Agree(T, G, H, "list", i, j)
  PROVE  StmtList(T, G, i, j) = StmtList(T, H, i, j)
<1> DEFINE S == {h \in i .. j : h = i \/ At(T, h - 1) \in {"TK_SEMI", "TK_CCURLY"}}
           Part(F, k) == {Append(list, s) : list \in F[<<"list", i, k - 1>>],
                                            s \in F[<<"stmt", k, j>>]}
<1>1. \A F : StmtList(T, F, i, j) = IF i > j THEN {<< >>} ELSE UNION {Part(F, k) : k \in S}
  BY DEF StmtList
<1>2. ASSUME NEW k \in S
      PROVE  Part(G, k) = Part(H, k)
  <2>1. k \in i .. j /\ i <= j
    OBVIOUS
  <2>2. G[<<"list", i, k - 1>>] = H[<<"list", i, k - 1>>]
    <3>1. Deep(G, H, i, j)
      BY <2>1, Inner
    <3> QED
      BY <3>1, <2>1 DEF Deep, Sorts
  <2>3. G[<<"stmt", k, j>>] = H[<<"stmt", k, j>>]
    <3>1. Wide(k, j) <= Wide(i, j) /\ Wide(k, j) \in Nat /\ Wide(i, j) \in Nat
      BY <2>1 DEF Wide
    <3>2. k \in 1 .. Len(T) + 1 /\ Level["stmt"] < Level["list"] /\ "stmt" \in Sorts
      BY <2>1 DEF Level, Sorts
    <3> QED
      BY <3>1, <3>2 DEF Agree
  <2> QED
    BY <2>2, <2>3
<1> HIDE DEF S, Part
<1>3. UNION {Part(G, k) : k \in S} = UNION {Part(H, k) : k \in S}
  BY <1>2, Zenon
<1> QED
  BY <1>1, <1>3

LEMMA BlockLooks ==
  ASSUME NEW T, Len(T) \in Nat, NEW G, NEW H,
         NEW i \in 1 .. Len(T) + 1, NEW j \in 0 .. Len(T), Agree(T, G, H, "block", i, j)
  PROVE  Block(T, G, i, j) = Block(T, H, i, j)
<1>1. CASE i < j
  <2>1. G[<<"list", i + 1, j - 1>>] = H[<<"list", i + 1, j - 1>>]
    <3>1. Deep(G, H, i, j)
      BY <1>1, Inner
    <3> QED
      BY <3>1, <1>1 DEF Deep, Sorts
  <2> QED
    BY <2>1 DEF Block
<1> QED
  BY <1>1 DEF Block

LEMMA IfLooks ==
  ASSUME NEW T, Len(T) \in Nat, NEW G, NEW H,
         NEW i \in 1 .. Len(T) + 1, NEW j \in 0 .. Len(T), i <= j, Agree(T, G, H, "stmt", i, j)
  PROVE  If(T, G, i, j) = If(T, H, i, j)
<1> DEFINE S == BlockStarts(T, i, j)
           E(k) == Splits(T, k, j, {"KW_ELSE"})
           Then(F, k) == {NewStIf(c, b, NULL) : c \in F[<<"expr", i + 1, k - 1>>],
                                                b \in F[<<"block", k, j>>]}
           Else(F, k, h) == {NewStIf(c, b, e) : c \in F[<<"expr", i + 1, k - 1>>],
                                                b \in F[<<"block", k, h - 1>>],
                                                e \in F[<<"block", h + 1, j>>]}
           Part(F, k) == Then(F, k) \cup UNION {Else(F, k, h) : h \in E(k)}
<1>1. \A F : If(T, F, i, j) = UNION {Part(F, k) : k \in S}
  BY DEF If
<1>2. Deep(G, H, i, j)
  BY Inner
<1>3. ASSUME NEW k \in S
      PROVE  Part(G, k) = Part(H, k)
  <2>1. k \in i + 1 .. j - 1 /\ k \in Nat
    BY SplitsInside DEF BlockStarts
  <2>2. /\ G[<<"expr", i + 1, k - 1>>] = H[<<"expr", i + 1, k - 1>>]
        /\ G[<<"block", k, j>>] = H[<<"block", k, j>>]
    BY <1>2, <2>1 DEF Deep, Sorts
  <2>3. ASSUME NEW h \in E(k)
        PROVE  Else(G, k, h) = Else(H, k, h)
    <3>1. h \in k + 1 .. j - 1
      BY <2>1, SplitsInside
    <3>2. /\ G[<<"block", k, h - 1>>] = H[<<"block", k, h - 1>>]
          /\ G[<<"block", h + 1, j>>] = H[<<"block", h + 1, j>>]
      BY <1>2, <2>1, <3>1 DEF Deep, Sorts
    <3> QED
      BY <2>2, <3>2
  <2>4. Then(G, k) = Then(H, k)
    BY <2>2
  <2> HIDE DEF Then, Else, E
  <2> QED
    BY <2>3, <2>4, Zenon
<1> HIDE DEF S, Part
<1>4. UNION {Part(G, k) : k \in S} = UNION {Part(H, k) : k \in S}
  BY <1>3, Zenon
<1> QED
  BY <1>1, <1>4

LEMMA OptionalLooks ==
  ASSUME NEW G, NEW H, NEW i \in Nat, NEW j \in Nat, Deep(G, H, i, j),
         NEW k \in i + 1 .. j + 1, NEW h \in i - 1 .. j, NEW v
  PROVE  Optional(G, k, h, v) = Optional(H, k, h, v)
BY DEF Optional, Deep, Sorts

LEMMA WhileLooks ==
  ASSUME NEW T, Len(T) \in Nat, NEW G, NEW H,
         NEW i \in 1 .. Len(T) + 1, NEW j \in 0 .. Len(T), i <= j, Agree(T, G, H, "stmt", i, j)
  PROVE  While(T, G, i, j) = While(T, H, i, j)
<1> DEFINE S == BlockStarts(T, i, j)
           Part(F, k) == {NewStForWhile(c, b) : c \in Optional(F, i + 1, k - 1, 1),
                                                b \in F[<<"block", k, j>>]}
<1>1. \A F : While(T, F, i, j) = UNION {Part(F, k) : k \in S}
  BY DEF While
<1>2. Deep(G, H, i, j)
  BY Inner
<1>3. ASSUME NEW k \in S
      PROVE  Part(G, k) = Part(H, k)
  <2>1. k \in i + 1 .. j - 1
    BY SplitsInside DEF BlockStarts
  <2>2. G[<<"block", k, j>>] = H[<<"block", k, j>>]
    BY <1>2, <2>1 DEF Deep, Sorts
  <2>3. Optional(G, i + 1, k - 1, 1) = Optional(H, i + 1, k - 1, 1)
    <3>1. i + 1 \in i + 1 .. j + 1 /\ k - 1 \in i - 1 .. j
      BY <2>1
    <3> QED
      BY <1>2, <3>1, OptionalLooks
  <2> QED
    BY <2>2, <2>3
<1> HIDE DEF S, Part
<1>4. UNION {Part(G, k) : k \in S} = UNION {Part(H, k) : k \in S}
  BY <1>3, Zenon
<1> QED
  BY <1>1, <1>4

LEMMA ForLooks ==
  ASSUME NEW T, Len(T) \in Nat, NEW G, NEW H,
         NEW i \in 1 .. Len(T) + 1, NEW j \in 0 .. Len(T), i <= j, Agree(T, G, H, "stmt", i, j)
  PROVE  For(T, G, i, j) = For(T, H, i, j)
<1> DEFINE I == Splits(T, i, j, {"TK_SEMI"})
           C(g) == Splits(T, g, j, {"TK_SEMI"})
           B(h) == BlockStarts(T, h, j)
           Whole(F, g, h, k) ==
             {NewStFor(a, c, p, b) :
                a \in Optional(F, i + 1, g - 1, 0), c \in F[<<"expr", g + 1, h - 1>>],
                p \in Optional(F, h + 1, k - 1, 0), b \in F[<<"block", k, j>>]}
           Past(F, g, h) == UNION {Whole(F, g, h, k) : k \in B(h)}
           Part(F, g) == UNION {Past(F, g, h) : h \in C(g)}
<1>1. \A F : For(T, F, i, j) = UNION {Part(F, g) : g \in I}
  BY DEF For
<1>2. Deep(G, H, i, j)
  BY Inner
<1>3. ASSUME NEW g \in I, NEW h \in C(g), NEW k \in B(h)
      PROVE  Whole(G, g, h, k) = Whole(H, g, h, k)
  <2>1. g \in i + 1 .. j - 1 /\ g \in Nat
    BY SplitsInside
  <2>2. h \in g + 1 .. j - 1 /\ h \in Nat
    BY <2>1, SplitsInside
  <2>3. k \in h + 1 .. j - 1
    BY <2>2, SplitsInside DEF BlockStarts
  <2>4. /\ G[<<"expr", g + 1, h - 1>>] = H[<<"expr", g + 1, h - 1>>]
        /\ G[<<"block", k, j>>] = H[<<"block", k, j>>]
    BY <1>2, <2>1, <2>2, <2>3 DEF Deep, Sorts
  <2>5. Optional(G, i + 1, g - 1, 0) = Optional(H, i + 1, g - 1, 0)
    <3>1. i + 1 \in i + 1 .. j + 1 /\ g - 1 \in i - 1 .. j
      BY <2>1
    <3> QED
      BY <1>2, <3>1, OptionalLooks
  <2>6. Optional(G, h + 1, k - 1, 0) = Optional(H, h + 1, k - 1, 0)
    <3>1. h + 1 \in i + 1 .. j + 1 /\ k - 1 \in i - 1 .. j
      BY <2>1, <2>2, <2>3
    <3> QED
      BY <1>2, <3>1, OptionalLooks
  <2> QED
    BY <2>4, <2>5, <2>6
<1>4. ASSUME NEW g \in I
      PROVE  Part(G, g) = Part(H, g)
  <2> HIDE DEF Whole, I, C, B
  <2>1. ASSUME NEW h \in C(g)
        PROVE  Past(G, g, h) = Past(H, g, h)
    BY <1>3, Zenon
  <2> HIDE DEF Past
  <2> QED
    BY <2>1, Zenon
<1> HIDE DEF I, Part
<1>5. UNION {Part(G, g) : g \in I} = UNION {Part(H, g) : g \in I}
  BY <1>4, Zenon
<1> QED
  BY <1>1, <1>5

LEMMA StmtLooks ==
  ASSUME NEW T, Len(T) \in Nat, NEW G, NEW H,
         NEW i \in 1 .. Len(T) + 1, NEW j \in 0 .. Len(T), Agree(T, G, H, "stmt", i, j)
  PROVE  Stmt(T, G, i, j) = Stmt(T, H, i, j)
<1>1. CASE i <= j
  <2>1. Deep(G, H, i, j)
    BY <1>1, Inner
  <2>2. /\ G[<<"expr", i + 1, j - 1>>] = H[<<"expr", i + 1, j - 1>>]
        /\ G[<<"expr", i, j - 1>>] = H[<<"expr", i, j - 1>>]
    BY <1>1, <2>1 DEF Deep, Sorts
  <2>3. /\ Ended(T, G, i + 1, j) = Ended(T, H, i + 1, j)
        /\ Ended(T, G, i, j) = Ended(T, H, i, j)
    BY <2>2 DEF Ended
  <2>4. G[<<"block", i, j>>] = H[<<"block", i, j>>]
    BY DEF Agree, Sorts, Level
  <2>5. If(T, G, i, j) = If(T, H, i, j) /\ While(T, G, i, j) = While(T, H, i, j)
          /\ For(T, G, i, j) = For(T, H, i, j)
    BY <1>1, IfLooks, WhileLooks, ForLooks
  <2> QED
    BY <2>3, <2>4, <2>5 DEF Stmt
<1> QED
  BY <1>1 DEF Stmt

LEMMA RuleLooks ==
  ASSUME NEW T, Len(T) \in Nat, NEW G, NEW H, NEW x \in Stretches(T),
         \A y \in Stretches(T) : Size(y) < Size(x) => G[y] = H[y]
  PROVE  Rule(T, G, x) = Rule(T, H, x)
<1>1. PICK s \in Sorts, i \in 1 .. Len(T) + 1, j \in 0 .. Len(T) : x = <<s, i, j>>
  BY DEF Stretches
<1>2. Agree(T, G, H, s, i, j)
  <2>1. ASSUME NEW u \in Sorts, NEW k \in 1 .. Len(T) + 1, NEW h \in 0 .. Len(T),
               \/ Wide(k, h) < Wide(i, j)
               \/ Wide(k, h) = Wide(i, j) /\ Level[u] < Level[s]
        PROVE  G[<<u, k, h>>] = H[<<u, k, h>>]
    <3> DEFINE a == Wide(k, h)
               b == Wide(i, j)
               c == Level[u]
               d == Level[s]
    <3>1. a \in Nat /\ b \in Nat /\ c \in 0 .. 7 /\ d \in 0 .. 7 /\ (a < b \/ (a = b /\ c < d))
      BY <2>1 DEF Wide, Level, Sorts
    <3> HIDE DEF a, b, c, d
    <3>2. 8 * a + c < 8 * b + d
      BY <3>1
    <3>3. Size(<<u, k, h>>) < Size(x)
      BY <1>1, <3>2 DEF Size, a, b, c, d
    <3>4. <<u, k, h>> \in Stretches(T)
      BY DEF Stretches
    <3> QED
      BY <3>3, <3>4
  <2> QED
    BY <2>1 DEF Agree
<1>3. x[1] = s /\ x[2] = i /\ x[3] = j
  BY <1>1
<1>4. CASE s \in {"sum", "product"}
  <2>1. /\ s = "sum" => Sum(T, G, i, j) = Sum(T, H, i, j)
        /\ s = "product" => Product(T, G, i, j) = Product(T, H, i, j)
    <3>1. s = "sum" => "product" \in Sorts /\ Level["product"] < Level[s]
      BY DEF Sorts, Level
    <3>2. s = "product" => "unary" \in Sorts /\ Level["unary"] < Level[s]
      BY DEF Sorts, Level
    <3> QED
      BY <1>2, <3>1, <3>2, JoinedLooks DEF Sum, Product
  <2> QED
    BY <1>3, <1>4, <2>1 DEF Rule
<1>5. CASE s \in {"operand", "unary", "expr"}
  BY <1>2, <1>3, <1>5, PostfixedLooks, UnaryLooks, ExprLooks DEF Rule
<1>6. CASE s \in {"block", "stmt", "list"}
  BY <1>2, <1>3, <1>6, BlockLooks, StmtLooks, StmtListLooks DEF Rule
<1> QED
  BY <1>4, <1>5, <1>6 DEF Sorts

-----------------------------------------------------------------------------
(* The first n sizes determine each other from the bottom up. *)
Upto(T, n, g) == g = [x \in Stretches(T) |-> IF Size(x) < n THEN Rule(T, g, x) ELSE {}]

LEMMA SizeType ==
  ASSUME NEW T, Len(T) \in Nat, NEW x \in Stretches(T)
  PROVE  Size(x) \in 0 .. 8 * Len(T) + 15
<1>1. PICK s \in Sorts, i \in 1 .. Len(T) + 1, j \in 0 .. Len(T) : x = <<s, i, j>>
  BY DEF Stretches
<1>2. Level[s] \in 0 .. 7
  BY DEF Sorts, Level
<1>3. Wide(i, j) \in 0 .. Len(T) + 1
  BY DEF Wide
<1> DEFINE a == Wide(i, j)
           c == Level[s]
<1>4. Size(x) = 8 * a + c
  BY <1>1 DEF Size
<1>5. a \in 0 .. Len(T) + 1 /\ c \in 0 .. 7
  BY <1>2, <1>3
<1> HIDE DEF a, c
<1> QED
  BY <1>4, <1>5

(* If there are trees up to one size, there are up to the next; so there are
   for every size, and one function has them all. *)
LEMMA UptoNext ==
  ASSUME NEW T, Len(T) \in Nat, NEW n \in Nat, NEW g, Upto(T, n, g)
  PROVE  \E h : Upto(T, n + 1, h)
<1> DEFINE h == [x \in Stretches(T) |-> IF Size(x) < n + 1 THEN Rule(T, g, x) ELSE {}]
<1>1. \A x \in Stretches(T) : Size(x) < n => g[x] = h[x]
  <2> TAKE x \in Stretches(T)
  <2>1. Size(x) < n => Size(x) < n + 1
    BY SizeType
  <2>2. g[x] = IF Size(x) < n THEN Rule(T, g, x) ELSE {}
    BY DEF Upto
  <2> QED
    BY <2>1, <2>2
<1>2. ASSUME NEW x \in Stretches(T), Size(x) < n + 1
      PROVE  Rule(T, g, x) = Rule(T, h, x)
  <2>1. \A y \in Stretches(T) : Size(y) < Size(x) => Size(y) < n
    BY <1>2, SizeType
  <2> HIDE DEF h
  <2> QED
    BY <1>1, <2>1, RuleLooks
<1>3. h = [x \in Stretches(T) |-> IF Size(x) < n + 1 THEN Rule(T, h, x) ELSE {}]
  BY <1>2, Zenon
<1> HIDE DEF h
<1> QED
  BY <1>3 DEF Upto

LEMMA UptoAll ==
  ASSUME NEW T, Len(T) \in Nat
  PROVE  \A n \in Nat : \E g : Upto(T, n, g)
<1> DEFINE S == {n \in Nat : ~\E g : Upto(T, n, g)}
<1> SUFFICES ASSUME S # {} PROVE FALSE
  OBVIOUS
<1>1. PICK n \in S : \A m \in S : n <= m
  <2>1. S \in SUBSET Nat
    OBVIOUS
  <2> HIDE DEF S
  <2> QED
    BY <2>1, LeastNat
<1>2. n # 0
  <2> DEFINE g == [x \in Stretches(T) |-> {}]
  <2>1. \A x \in Stretches(T) : ~(Size(x) < 0)
    BY SizeType
  <2>2. g = [x \in Stretches(T) |-> IF Size(x) < 0 THEN Rule(T, g, x) ELSE {}]
    BY <2>1
  <2>3. \E h : Upto(T, 0, h)
    <3> HIDE DEF g
    <3> QED
      BY <2>2 DEF Upto
  <2> QED
    BY <2>3
<1>3. n - 1 \in Nat /\ n - 1 \notin S
  BY <1>1, <1>2
<1>4. PICK g : Upto(T, n - 1, g)
  BY <1>3
<1>5. \E h : Upto(T, n - 1 + 1, h)
  BY <1>3, <1>4, UptoNext
<1> QED
  BY <1>1, <1>5

(* The trees of every stretch are those that its rule makes of the trees of
   the others: the recursion of the grammar is well-founded. *)
LEMMA TreesFollowRules ==
  ASSUME NEW T, Len(T) \in Nat
  PROVE  Trees(T) = [x \in Stretches(T) |-> Rule(T, Trees(T), x)]
<1>1. PICK g : Upto(T, 8 * Len(T) + 16, g)
  <2>1. 8 * Len(T) + 16 \in Nat
    OBVIOUS
  <2> QED
    BY <2>1, UptoAll
<1>2. \A x \in Stretches(T) : Size(x) < 8 * Len(T) + 16
  BY SizeType
<1>3. g = [x \in Stretches(T) |-> Rule(T, g, x)]
  BY <1>1, <1>2, Zenon DEF Upto
<1>4. Trees(T) = CHOOSE h : h = [x \in Stretches(T) |-> Rule(T, h, x)]
  BY Zenon DEF Trees
<1> QED
  BY <1>3, <1>4

-----------------------------------------------------------------------------
(***************************************************************************)
(* The rules, as they are used.                                            *)
(***************************************************************************)
(* The trees of sort s that the stretch i .. j of T spells. *)
Spells(T, s, i, j) == Trees(T)[<<s, i, j>>]

(* Each sort by its own rule. *)
LEMMA Unfold ==
  ASSUME NEW T, Len(T) \in Nat, NEW i \in 1 .. Len(T) + 1, NEW j \in 0 .. Len(T)
  PROVE  /\ Spells(T, "operand", i, j) = Postfixed(T, Trees(T), i, j)
         /\ Spells(T, "unary", i, j) = Unary(T, Trees(T), i, j)
         /\ Spells(T, "product", i, j) = Product(T, Trees(T), i, j)
         /\ Spells(T, "sum", i, j) = Sum(T, Trees(T), i, j)
         /\ Spells(T, "expr", i, j) = Expr(T, Trees(T), i, j)
         /\ Spells(T, "block", i, j) = Block(T, Trees(T), i, j)
         /\ Spells(T, "stmt", i, j) = Stmt(T, Trees(T), i, j)
         /\ Spells(T, "list", i, j) = StmtList(T, Trees(T), i, j)
<1> DEFINE G == Trees(T)
<1>1. G = [x \in Stretches(T) |-> Rule(T, G, x)]
  BY TreesFollowRules
<1> HIDE DEF G
<1>2. ASSUME NEW s \in Sorts
      PROVE  G[<<s, i, j>>] = Rule(T, G, <<s, i, j>>)
  <2>1. <<s, i, j>> \in Stretches(T)
    BY DEF Stretches
  <2> QED
    BY <1>1, <2>1
<1>3. \A s \in Sorts : <<s, i, j>>[1] = s /\ <<s, i, j>>[2] = i /\ <<s, i, j>>[3] = j
  OBVIOUS
<1>4. /\ G[<<"operand", i, j>>] = Postfixed(T, G, i, j)
      /\ G[<<"unary", i, j>>] = Unary(T, G, i, j)
      /\ G[<<"product", i, j>>] = Product(T, G, i, j)
      /\ G[<<"sum", i, j>>] = Sum(T, G, i, j)
  BY <1>2, <1>3 DEF Rule, Sorts
<1>5. /\ G[<<"expr", i, j>>] = Expr(T, G, i, j)
      /\ G[<<"block", i, j>>] = Block(T, G, i, j)
      /\ G[<<"stmt", i, j>>] = Stmt(T, G, i, j)
      /\ G[<<"list", i, j>>] = StmtList(T, G, i, j)
  BY <1>2, <1>3 DEF Rule, Sorts
<1> QED
  BY <1>4, <1>5 DEF G, Spells

(* Trees of sort u, joined by the operators of K to those of sort s. *)
Joins(T, i, j, s, u, K) ==
  /\ Spells(T, u, i, j) \subseteq Spells(T, s, i, j)
  /\ \A k \in i + 1 .. j - 1 : At(T, k) \in K =>
       \A l \in Spells(T, s, i, k - 1), r \in Spells(T, u, k + 1, j) :
         NewBinop(BinopOf[At(T, k)], l, r) \in Spells(T, s, i, j)
  /\ \A n \in Spells(T, s, i, j) :
       \/ n \in Spells(T, u, i, j)
       \/ \E k \in i + 1 .. j - 1 :
            /\ At(T, k) \in K
            /\ \E l \in Spells(T, s, i, k - 1), r \in Spells(T, u, k + 1, j) :
                 n = NewBinop(BinopOf[At(T, k)], l, r)

LEMMA JoinedIs ==
  ASSUME NEW T, Len(T) \in Nat, NEW i \in 1 .. Len(T) + 1, NEW j \in 0 .. Len(T),
         NEW s, NEW u, NEW K, Spells(T, s, i, j) = Joined(T, Trees(T), i, j, s, u, K)
  PROVE  Joins(T, i, j, s, u, K)
<1> DEFINE Part(k) == {NewBinop(BinopOf[At(T, k)], l, r) :
                         l \in Spells(T, s, i, k - 1), r \in Spells(T, u, k + 1, j)}
           S == Splits(T, i, j, K)
<1>1. Spells(T, s, i, j) = Spells(T, u, i, j) \cup UNION {Part(k) : k \in S}
  BY DEF Joined, Spells
<1>2. \A k : k \in S <=> k \in i + 1 .. j - 1 /\ At(T, k) \in K
  BY DEF Splits
<1>3. \A k, n : n \in Part(k) <=> \E l \in Spells(T, s, i, k - 1), r \in Spells(T, u, k + 1, j) :
                                    n = NewBinop(BinopOf[At(T, k)], l, r)
  OBVIOUS
<1> HIDE DEF S, Part
<1>4. \A n : n \in UNION {Part(k) : k \in S} <=> \E k \in S : n \in Part(k)
  BY Zenon
<1>5. \A n : n \in Spells(T, s, i, j) <=>
              n \in Spells(T, u, i, j) \/ \E k \in S : n \in Part(k)
  BY <1>1, <1>4
<1>6. Spells(T, u, i, j) \subseteq Spells(T, s, i, j)
  BY <1>5
<1>7. ASSUME NEW k \in i + 1 .. j - 1, At(T, k) \in K,
             NEW l \in Spells(T, s, i, k - 1), NEW r \in Spells(T, u, k + 1, j)
      PROVE  NewBinop(BinopOf[At(T, k)], l, r) \in Spells(T, s, i, j)
  BY <1>2, <1>3, <1>5, <1>7, Zenon
<1>8. ASSUME NEW n \in Spells(T, s, i, j), n \notin Spells(T, u, i, j)
      PROVE  \E k \in i + 1 .. j - 1 :
               /\ At(T, k) \in K
               /\ \E l \in Spells(T, s, i, k - 1), r \in Spells(T, u, k + 1, j) :
                    n = NewBinop(BinopOf[At(T, k)], l, r)
  <2>1. PICK k \in S : n \in Part(k)
    BY <1>5, <1>8
  <2>2. k \in i + 1 .. j - 1 /\ At(T, k) \in K
    BY <1>2
  <2>3. \E l \in Spells(T, s, i, k - 1), r \in Spells(T, u, k + 1, j) :
          n = NewBinop(BinopOf[At(T, k)], l, r)
    BY <1>3, <2>1
  <2> QED
    BY <2>2, <2>3
<1> QED
  BY <1>6, <1>7, <1>8, Zenon DEF Joins

LEMMA SumIs ==
  ASSUME NEW T, Len(T) \in Nat, NEW i \in 1 .. Len(T) + 1, NEW j \in 0 .. Len(T)
  PROVE  Joins(T, i, j, "sum", "product", {"TK_ADD", "TK_SUB"})
<1>1. Spells(T, "sum", i, j)
        = Joined(T, Trees(T), i, j, "sum", "product", {"TK_ADD", "TK_SUB"})
  BY Unfold DEF Sum
<1> QED
  BY <1>1, JoinedIs, Zenon

LEMMA ProductIs ==
  ASSUME NEW T, Len(T) \in Nat, NEW i \in 1 .. Len(T) + 1, NEW j \in 0 .. Len(T)
  PROVE  Joins(T, i, j, "product", "unary", {"TK_MUL", "TK_DIV"})
<1>1. Spells(T, "product", i, j)
        = Joined(T, Trees(T), i, j, "product", "unary", {"TK_MUL", "TK_DIV"})
  BY Unfold DEF Product
<1> QED
  BY <1>1, JoinedIs, Zenon

LEMMA ExprIs ==
  ASSUME NEW T, Len(T) \in Nat, NEW i \in 1 .. Len(T) + 1, NEW j \in 0 .. Len(T)
  PROVE  /\ Spells(T, "sum", i, j) \subseteq Spells(T, "expr", i, j)
         /\ \A k \in i + 1 .. j - 1 : At(T, k) = "TK_ASS" =>
              \A l \in Spells(T, "sum", i, k - 1), r \in Spells(T, "expr", k + 1, j) :
                IsId(l) => NewBinop("BINOP_ASS", l, r) \in Spells(T, "expr", i, j)
         /\ \A n \in Spells(T, "expr", i, j) :
              \/ n \in Spells(T, "sum", i, j)
              \/ \E k \in i + 1 .. j - 1 :
                   /\ At(T, k) = "TK_ASS"
                   /\ \E l \in Spells(T, "sum", i, k - 1), r \in Spells(T, "expr", k + 1, j) :
                        IsId(l) /\ n = NewBinop("BINOP_ASS", l, r)
<1> DEFINE Part(k) == {NewBinop("BINOP_ASS", l, r) :
                         l \in {n \in Spells(T, "sum", i, k - 1) : IsId(n)},
                         r \in Spells(T, "expr", k + 1, j)}
           S == Splits(T, i, j, {"TK_ASS"})
<1>1. Spells(T, "expr", i, j) = Spells(T, "sum", i, j) \cup UNION {Part(k) : k \in S}
  <2>1. Spells(T, "expr", i, j) = Expr(T, Trees(T), i, j)
    BY Unfold
  <2> QED
    BY <2>1 DEF Expr, Spells
<1>2. \A k : k \in S <=> k \in i + 1 .. j - 1 /\ At(T, k) = "TK_ASS"
  BY DEF Splits
<1>3. \A k, n : n \in Part(k) <=> \E l \in Spells(T, "sum", i, k - 1), r \in Spells(T, "expr", k + 1, j) :
                                    IsId(l) /\ n = NewBinop("BINOP_ASS", l, r)
  OBVIOUS
<1> HIDE DEF S, Part
<1>4. \A n : n \in UNION {Part(k) : k \in S} <=> \E k \in S : n \in Part(k)
  BY Zenon
<1>5. \A n : n \in Spells(T, "expr", i, j) <=>
              n \in Spells(T, "sum", i, j) \/ \E k \in S : n \in Part(k)
  BY <1>1, <1>4
<1>6. Spells(T, "sum", i, j) \subseteq Spells(T, "expr", i, j)
  BY <1>5
<1>7. ASSUME NEW k \in i + 1 .. j - 1, At(T, k) = "TK_ASS",
             NEW l \in Spells(T, "sum", i, k - 1), NEW r \in Spells(T, "expr", k + 1, j), IsId(l)
      PROVE  NewBinop("BINOP_ASS", l, r) \in Spells(T, "expr", i, j)
  BY <1>2, <1>3, <1>5, <1>7, Zenon
<1>8. ASSUME NEW n \in Spells(T, "expr", i, j), n \notin Spells(T, "sum", i, j)
      PROVE  \E k \in i + 1 .. j - 1 :
               /\ At(T, k) = "TK_ASS"
               /\ \E l \in Spells(T, "sum", i, k - 1), r \in Spells(T, "expr", k + 1, j) :
                    IsId(l) /\ n = NewBinop("BINOP_ASS", l, r)
  <2>1. PICK k \in S : n \in Part(k)
    BY <1>5, <1>8
  <2>2. k \in i + 1 .. j - 1 /\ At(T, k) = "TK_ASS"
    BY <1>2
  <2>3. \E l \in Spells(T, "sum", i, k - 1), r \in Spells(T, "expr", k + 1, j) :
          IsId(l) /\ n = NewBinop("BINOP_ASS", l, r)
    BY <1>3, <2>1
  <2> QED
    BY <2>2, <2>3
<1> QED
  BY <1>6, <1>7, <1>8, Zenon

LEMMA UnaryIs ==
  ASSUME NEW T, Len(T) \in Nat, NEW i \in 1 .. Len(T) + 1, NEW j \in 0 .. Len(T)
  PROVE  Spells(T, "unary", i, j) =
           IF i > j THEN {}
           ELSE IF At(T, i) = "TK_ADD" THEN Spells(T, "unary", i + 1, j)
           ELSE IF At(T, i) = "TK_SUB"
           THEN {NewUnary("UNAOP_NEG", n) : n \in Spells(T, "unary", i + 1, j)}
           ELSE Spells(T, "operand", i, j)
<1>1. Spells(T, "unary", i, j) = Unary(T, Trees(T), i, j)
  BY Unfold DEF Spells
<1>2. CASE i > j
  BY <1>1, <1>2 DEF Unary
<1>3. CASE ~(i > j) /\ At(T, i) = "TK_ADD"
  BY <1>1, <1>3 DEF Unary, Spells
<1>4. CASE ~(i > j) /\ At(T, i) = "TK_SUB"
  BY <1>1, <1>4 DEF Unary, Spells
<1>5. CASE ~(i > j) /\ At(T, i) # "TK_ADD" /\ At(T, i) # "TK_SUB"
  BY <1>1, <1>5 DEF Unary, Spells
<1> QED
  BY <1>2, <1>3, <1>4, <1>5

LEMMA PostfixedIs ==
  ASSUME NEW T, Len(T) \in Nat, NEW i \in 1 .. Len(T) + 1, NEW j \in 0 .. Len(T)
  PROVE  Spells(T, "operand", i, j) =
           IF i > j THEN {}
           ELSE IF i = j THEN LiteralOf(T[i])
           ELSE IF At(T, j) \in DOMAIN UnaopOf /\ ~StartsExpr(At(T, j + 1))
           THEN {NewUnary(UnaopOf[At(T, j)], n) : n \in Spells(T, "operand", i, j - 1)}
           ELSE IF At(T, i) = "TK_OPAREN" /\ At(T, j) = "TK_CPAREN"
           THEN Spells(T, "expr", i + 1, j - 1)
           ELSE {}
BY Unfold DEF Postfixed, Spells

LEMMA BlockIs ==
  ASSUME NEW T, Len(T) \in Nat, NEW i \in 1 .. Len(T) + 1, NEW j \in 0 .. Len(T)
  PROVE  Spells(T, "block", i, j) =
           IF i < j /\ At(T, i) = "TK_OCURLY" /\ At(T, j) = "TK_CCURLY"
           THEN {NewStBlock(list) : list \in Spells(T, "list", i + 1, j - 1)}
           ELSE {}
BY Unfold DEF Block, Spells

LEMMA StmtListIs ==
  ASSUME NEW T, Len(T) \in Nat, NEW i \in 1 .. Len(T) + 1, NEW j \in 0 .. Len(T)
  PROVE  /\ i > j => Spells(T, "list", i, j) = {<< >>}
         /\ i <= j => \A n : n \in Spells(T, "list", i, j) <=>
              \E k \in i .. j :
                /\ k = i \/ At(T, k - 1) \in {"TK_SEMI", "TK_CCURLY"}
                /\ \E l \in Spells(T, "list", i, k - 1), s \in Spells(T, "stmt", k, j) : n = Append(l, s)
<1> DEFINE S == {h \in i .. j : h = i \/ At(T, h - 1) \in {"TK_SEMI", "TK_CCURLY"}}
           Part(k) == {Append(l, s) : l \in Spells(T, "list", i, k - 1), s \in Spells(T, "stmt", k, j)}
<1>1. Spells(T, "list", i, j) = IF i > j THEN {<< >>} ELSE UNION {Part(k) : k \in S}
  <2>1. Spells(T, "list", i, j) = StmtList(T, Trees(T), i, j)
    BY Unfold
  <2> QED
    BY <2>1 DEF StmtList, Spells
<1>2. \A k, n : n \in Part(k) <=>
         \E l \in Spells(T, "list", i, k - 1), s \in Spells(T, "stmt", k, j) : n = Append(l, s)
  OBVIOUS
<1>3. \A k : k \in S <=> k \in i .. j /\ (k = i \/ At(T, k - 1) \in {"TK_SEMI", "TK_CCURLY"})
  OBVIOUS
<1> HIDE DEF S, Part
<1>4. \A n : n \in UNION {Part(k) : k \in S} <=> \E k \in S : n \in Part(k)
  BY Zenon
<1>5. i > j => Spells(T, "list", i, j) = {<< >>}
  BY <1>1
<1>6. ASSUME i <= j, NEW n
      PROVE  n \in Spells(T, "list", i, j) <=> \E k \in S : n \in Part(k)
  BY <1>1, <1>4, <1>6
<1>7. ASSUME i <= j, NEW n
      PROVE  n \in Spells(T, "list", i, j) <=>
              \E k \in i .. j :
                /\ k = i \/ At(T, k - 1) \in {"TK_SEMI", "TK_CCURLY"}
                /\ \E l \in Spells(T, "list", i, k - 1), s \in Spells(T, "stmt", k, j) : n = Append(l, s)
  <2>1. n \in Spells(T, "list", i, j) <=> \E k \in S : n \in Part(k)
    BY <1>6, <1>7
  <2>2. \A k : n \in Part(k) <=>
           \E l \in Spells(T, "list", i, k - 1), s \in Spells(T, "stmt", k, j) : n = Append(l, s)
    BY <1>2
  <2>3. ASSUME NEW k \in S, n \in Part(k)
        PROVE  \E h \in i .. j :
                 /\ h = i \/ At(T, h - 1) \in {"TK_SEMI", "TK_CCURLY"}
                 /\ \E l \in Spells(T, "list", i, h - 1), s \in Spells(T, "stmt", h, j) : n = Append(l, s)
    <3>1. k \in i .. j /\ (k = i \/ At(T, k - 1) \in {"TK_SEMI", "TK_CCURLY"})
      BY <1>3
    <3>2. \E l \in Spells(T, "list", i, k - 1), s \in Spells(T, "stmt", k, j) : n = Append(l, s)
      BY <2>2, <2>3
    <3> QED
      BY <3>1, <3>2
  <2>4. ASSUME NEW k \in i .. j, k = i \/ At(T, k - 1) \in {"TK_SEMI", "TK_CCURLY"},
               \E l \in Spells(T, "list", i, k - 1), s \in Spells(T, "stmt", k, j) : n = Append(l, s)
        PROVE  n \in Spells(T, "list", i, j)
    BY <1>3, <2>1, <2>2, <2>4, Zenon
  <2> QED
    BY <2>1, <2>3, <2>4, Zenon
<1> QED
  BY <1>5, <1>7

LEMMA IfIs ==
  ASSUME NEW T, NEW i, NEW j
  PROVE  \A n : n \in If(T, Trees(T), i, j) <=>
           \E k \in i + 1 .. j - 1 :
             /\ At(T, k) = "TK_OCURLY"
             /\ \/ \E c \in Spells(T, "expr", i + 1, k - 1), b \in Spells(T, "block", k, j) :
                     n = NewStIf(c, b, NULL)
                \/ \E h \in k + 1 .. j - 1 :
                     /\ At(T, h) = "KW_ELSE"
                     /\ \E c \in Spells(T, "expr", i + 1, k - 1), b \in Spells(T, "block", k, h - 1),
                           e \in Spells(T, "block", h + 1, j) : n = NewStIf(c, b, e)
<1> TAKE n
<1> DEFINE S == BlockStarts(T, i, j)
           E(k) == Splits(T, k, j, {"KW_ELSE"})
           Then(k) == {NewStIf(c, b, NULL) : c \in Spells(T, "expr", i + 1, k - 1),
                                             b \in Spells(T, "block", k, j)}
           Else(k, h) == {NewStIf(c, b, e) : c \in Spells(T, "expr", i + 1, k - 1),
                                             b \in Spells(T, "block", k, h - 1),
                                             e \in Spells(T, "block", h + 1, j)}
           Part(k) == Then(k) \cup UNION {Else(k, h) : h \in E(k)}
           IsThen(k) == \E c \in Spells(T, "expr", i + 1, k - 1), b \in Spells(T, "block", k, j) :
                          n = NewStIf(c, b, NULL)
           IsElse(k, h) == \E c \in Spells(T, "expr", i + 1, k - 1), b \in Spells(T, "block", k, h - 1),
                              e \in Spells(T, "block", h + 1, j) : n = NewStIf(c, b, e)
<1>1. If(T, Trees(T), i, j) = UNION {Part(k) : k \in S}
  BY DEF If, Spells
<1>2. \A k : k \in S <=> k \in i + 1 .. j - 1 /\ At(T, k) = "TK_OCURLY"
  BY DEF BlockStarts, Splits
<1>3. \A k, h : h \in E(k) <=> h \in k + 1 .. j - 1 /\ At(T, h) = "KW_ELSE"
  BY DEF Splits
<1>4. \A k : n \in Then(k) <=> IsThen(k)
  OBVIOUS
<1>5. \A k, h : n \in Else(k, h) <=> IsElse(k, h)
  OBVIOUS
<1>6. \A k : n \in Part(k) <=> n \in Then(k) \/ \E h \in E(k) : n \in Else(k, h)
  <2> HIDE DEF Then, Else, E
  <2> QED
    BY Zenon
<1> HIDE DEF S, E, Then, Else, Part, IsThen, IsElse
<1>7. n \in UNION {Part(k) : k \in S} <=> \E k \in S : n \in Part(k)
  BY Zenon
<1>8. n \in If(T, Trees(T), i, j) <=>
        \E k \in i + 1 .. j - 1 :
          /\ At(T, k) = "TK_OCURLY"
          /\ \/ IsThen(k)
             \/ \E h \in k + 1 .. j - 1 : At(T, h) = "KW_ELSE" /\ IsElse(k, h)
  BY <1>1, <1>2, <1>3, <1>4, <1>5, <1>6, <1>7
<1> QED
  BY <1>8 DEF IsThen, IsElse

LEMMA WhileIs ==
  ASSUME NEW T, NEW i, NEW j
  PROVE  \A n : n \in While(T, Trees(T), i, j) <=>
           \E k \in i + 1 .. j - 1 :
             /\ At(T, k) = "TK_OCURLY"
             /\ \E c \in Optional(Trees(T), i + 1, k - 1, 1), b \in Spells(T, "block", k, j) :
                  n = NewStForWhile(c, b)
<1> TAKE n
<1> DEFINE S == BlockStarts(T, i, j)
           Part(k) == {NewStForWhile(c, b) : c \in Optional(Trees(T), i + 1, k - 1, 1),
                                             b \in Spells(T, "block", k, j)}
           Is(k) == \E c \in Optional(Trees(T), i + 1, k - 1, 1), b \in Spells(T, "block", k, j) :
                      n = NewStForWhile(c, b)
<1>1. While(T, Trees(T), i, j) = UNION {Part(k) : k \in S}
  BY DEF While, Spells
<1>2. \A k : k \in S <=> k \in i + 1 .. j - 1 /\ At(T, k) = "TK_OCURLY"
  BY DEF BlockStarts, Splits
<1>3. \A k : n \in Part(k) <=> Is(k)
  OBVIOUS
<1> HIDE DEF S, Part, Is
<1>4. n \in UNION {Part(k) : k \in S} <=> \E k \in S : n \in Part(k)
  BY Zenon
<1>5. n \in While(T, Trees(T), i, j) <=>
        \E k \in i + 1 .. j - 1 : At(T, k) = "TK_OCURLY" /\ Is(k)
  BY <1>1, <1>2, <1>3, <1>4
<1> QED
  BY <1>5 DEF Is

LEMMA ForIs ==
  ASSUME NEW T, NEW i, NEW j
  PROVE  \A n : n \in For(T, Trees(T), i, j) <=>
           \E g \in i + 1 .. j - 1 : \E h \in g + 1 .. j - 1 : \E k \in h + 1 .. j - 1 :
             /\ At(T, g) = "TK_SEMI" /\ At(T, h) = "TK_SEMI" /\ At(T, k) = "TK_OCURLY"
             /\ \E a \in Optional(Trees(T), i + 1, g - 1, 0), c \in Spells(T, "expr", g + 1, h - 1),
                   p \in Optional(Trees(T), h + 1, k - 1, 0), b \in Spells(T, "block", k, j) :
                  n = NewStFor(a, c, p, b)
<1> TAKE n
<1> DEFINE I == Splits(T, i, j, {"TK_SEMI"})
           C(g) == Splits(T, g, j, {"TK_SEMI"})
           B(h) == BlockStarts(T, h, j)
           Whole(g, h, k) ==
             {NewStFor(a, c, p, b) :
                a \in Optional(Trees(T), i + 1, g - 1, 0), c \in Spells(T, "expr", g + 1, h - 1),
                p \in Optional(Trees(T), h + 1, k - 1, 0), b \in Spells(T, "block", k, j)}
           Past(g, h) == UNION {Whole(g, h, k) : k \in B(h)}
           Part(g) == UNION {Past(g, h) : h \in C(g)}
           Is(g, h, k) ==
             \E a \in Optional(Trees(T), i + 1, g - 1, 0), c \in Spells(T, "expr", g + 1, h - 1),
                p \in Optional(Trees(T), h + 1, k - 1, 0), b \in Spells(T, "block", k, j) :
               n = NewStFor(a, c, p, b)
<1>1. For(T, Trees(T), i, j) = UNION {Part(g) : g \in I}
  BY DEF For, Spells
<1>2. /\ \A k : k \in I <=> k \in i + 1 .. j - 1 /\ At(T, k) = "TK_SEMI"
      /\ \A g, k : k \in C(g) <=> k \in g + 1 .. j - 1 /\ At(T, k) = "TK_SEMI"
      /\ \A g, k : k \in B(g) <=> k \in g + 1 .. j - 1 /\ At(T, k) = "TK_OCURLY"
  BY DEF BlockStarts, Splits
<1>3. \A g, h, k : n \in Whole(g, h, k) <=> Is(g, h, k)
  OBVIOUS
<1> HIDE DEF I, C, B, Whole, Is
<1>4. \A g, h : n \in Past(g, h) <=> \E k \in B(h) : n \in Whole(g, h, k)
  BY Zenon
<1> HIDE DEF Past
<1>5. \A g : n \in Part(g) <=> \E h \in C(g) : n \in Past(g, h)
  BY Zenon
<1> HIDE DEF Part
<1>6. n \in UNION {Part(g) : g \in I} <=> \E g \in I : n \in Part(g)
  BY Zenon
<1>7. n \in For(T, Trees(T), i, j) <=>
        \E g \in I : \E h \in C(g) : \E k \in B(h) : Is(g, h, k)
  BY <1>1, <1>3, <1>4, <1>5, <1>6
<1>8. n \in For(T, Trees(T), i, j) <=>
        \E g \in i + 1 .. j - 1 : \E h \in g + 1 .. j - 1 : \E k \in h + 1 .. j - 1 :
          /\ At(T, g) = "TK_SEMI" /\ At(T, h) = "TK_SEMI" /\ At(T, k) = "TK_OCURLY"
          /\ Is(g, h, k)
  BY <1>2, <1>7
<1> QED
  BY <1>8 DEF Is

LEMMA StmtIs ==
  ASSUME NEW T, Len(T) \in Nat, NEW i \in 1 .. Len(T) + 1, NEW j \in 0 .. Len(T)
  PROVE  Spells(T, "stmt", i, j) =
           IF i > j THEN {}
           ELSE IF At(T, i) = "TK_OCURLY" THEN Spells(T, "block", i, j)
           ELSE IF At(T, i) = "KW_IF" THEN If(T, Trees(T), i, j)
           ELSE IF At(T, i) = "KW_FOR" THEN While(T, Trees(T), i, j) \cup For(T, Trees(T), i, j)
           ELSE IF At(T, j) # "TK_SEMI" THEN {}
           ELSE IF At(T, i) = "KW_RETURN"
           THEN {NewStReturn(n) : n \in Spells(T, "expr", i + 1, j - 1)}
           ELSE {NewStExpr(n) : n \in Spells(T, "expr", i, j - 1)}
<1>1. Spells(T, "stmt", i, j) = Stmt(T, Trees(T), i, j)
  BY Unfold
<1>2. CASE At(T, j) = "TK_SEMI"
  BY <1>1, <1>2 DEF Stmt, Spells, Ended
<1>3. CASE At(T, j) # "TK_SEMI"
  BY <1>1, <1>3 DEF Stmt, Spells, Ended
<1> QED
  BY <1>2, <1>3

(* A stretch that has a tree is not empty, lists apart. *)
LEMMA NotEmpty ==
  ASSUME NEW T, Len(T) \in Nat, NEW i \in 1 .. Len(T) + 1, NEW j \in 0 .. Len(T)
  PROVE  /\ \A n \in Spells(T, "operand", i, j) : i <= j
         /\ \A n \in Spells(T, "unary", i, j) : i <= j
         /\ \A n \in Spells(T, "product", i, j) : i <= j
         /\ \A n \in Spells(T, "sum", i, j) : i <= j
         /\ \A n \in Spells(T, "expr", i, j) : i <= j
         /\ \A n \in Spells(T, "block", i, j) :
              i < j /\ At(T, i) = "TK_OCURLY" /\ At(T, j) = "TK_CCURLY"
<1>1. (\A n \in Spells(T, "operand", i, j) : i <= j) /\ \A n \in Spells(T, "unary", i, j) : i <= j
  BY PostfixedIs, UnaryIs
<1>2. \A n \in Spells(T, "product", i, j) : i <= j
  BY <1>1, ProductIs DEF Joins
<1>3. \A n \in Spells(T, "sum", i, j) : i <= j
  BY <1>2, SumIs DEF Joins
<1>4. \A n \in Spells(T, "expr", i, j) : i <= j
  BY <1>3, ExprIs
<1>5. \A n \in Spells(T, "block", i, j) :
        i < j /\ At(T, i) = "TK_OCURLY" /\ At(T, j) = "TK_CCURLY"
  BY BlockIs
<1> QED
  BY <1>1, <1>2, <1>3, <1>4, <1>5

(* A statement ends with a semicolon or a block. *)
LEMMA StmtEnds ==
  ASSUME NEW T, Len(T) \in Nat, NEW i \in 1 .. Len(T) + 1, NEW j \in 0 .. Len(T),
         NEW n \in Spells(T, "stmt", i, j)
  PROVE  i <= j /\ At(T, j) \in {"TK_SEMI", "TK_CCURLY"}
<1>1. i <= j
  BY StmtIs
<1>2. \A k \in i .. j : \A m : m \in Spells(T, "block", k, j) => At(T, j) = "TK_CCURLY"
  <2> TAKE k \in i .. j
  <2> TAKE m
  <2>1. k \in 1 .. Len(T) + 1
    OBVIOUS
  <2> QED
    BY <2>1, NotEmpty
<1>3. n \in If(T, Trees(T), i, j) => At(T, j) = "TK_CCURLY"
  <2> SUFFICES ASSUME n \in If(T, Trees(T), i, j) PROVE At(T, j) = "TK_CCURLY"
    OBVIOUS
  <2>1. PICK k \in i + 1 .. j - 1 :
             \/ \E c \in Spells(T, "expr", i + 1, k - 1), b \in Spells(T, "block", k, j) :
                  n = NewStIf(c, b, NULL)
             \/ \E h \in k + 1 .. j - 1 :
                   \E c \in Spells(T, "expr", i + 1, k - 1), b \in Spells(T, "block", k, h - 1),
                        e \in Spells(T, "block", h + 1, j) : n = NewStIf(c, b, e)
    BY IfIs
  <2>2. CASE \E b : b \in Spells(T, "block", k, j)
    BY <1>2, <2>2
  <2>3. CASE \E h \in k + 1 .. j - 1 : \E e : e \in Spells(T, "block", h + 1, j)
    <3>1. PICK h \in k + 1 .. j - 1 : \E e : e \in Spells(T, "block", h + 1, j)
      BY <2>3
    <3>2. h + 1 \in i .. j
      BY <1>1
    <3> QED
      BY <1>2, <3>1, <3>2
  <2> QED
    BY <2>1, <2>2, <2>3
<1>4. n \in While(T, Trees(T), i, j) => At(T, j) = "TK_CCURLY"
  <2> SUFFICES ASSUME n \in While(T, Trees(T), i, j) PROVE At(T, j) = "TK_CCURLY"
    OBVIOUS
  <2>1. PICK k \in i + 1 .. j - 1 : \E b : b \in Spells(T, "block", k, j)
    BY WhileIs
  <2> QED
    BY <1>2, <2>1
<1>5. n \in For(T, Trees(T), i, j) => At(T, j) = "TK_CCURLY"
  <2> SUFFICES ASSUME n \in For(T, Trees(T), i, j) PROVE At(T, j) = "TK_CCURLY"
    OBVIOUS
  <2>1. PICK g \in i + 1 .. j - 1 : \E h \in g + 1 .. j - 1 : \E k \in h + 1 .. j - 1 :
               \E b : b \in Spells(T, "block", k, j)
    BY ForIs
  <2>2. PICK h \in g + 1 .. j - 1 : \E k \in h + 1 .. j - 1 : \E b : b \in Spells(T, "block", k, j)
    BY <2>1
  <2>3. PICK k \in h + 1 .. j - 1 : \E b : b \in Spells(T, "block", k, j)
    BY <2>2
  <2>4. k \in i .. j
    BY <1>1
  <2> QED
    BY <1>2, <2>3, <2>4
<1>6. n \in Spells(T, "block", i, j) => At(T, j) = "TK_CCURLY"
  BY <1>1, <1>2
<1> QED
  BY <1>1, <1>3, <1>4, <1>5, <1>6, StmtIs

-----------------------------------------------------------------------------
(***************************************************************************)
(* What the frames of the parser have read.                                *)
(***************************************************************************)
(* The sort of the trees that a function returns. *)
Sorted == [sstmt |-> "stmt", sblock |-> "block", sif |-> "stmt", sfor |-> "stmt",
           sreturn |-> "stmt", sexpr |-> "stmt", eass |-> "expr", eadd |-> "sum",
           emul |-> "product", eunary |-> "unary", eprimary |-> "operand"]

(* A block is a statement. *)
Yields(fn, sort) == Sorted[fn] = sort \/ (fn = "sblock" /\ sort = "stmt")

(* A frame that waits for the result of a call, and the sort of that. *)
Waits(f) == f.pc \notin {"enter", "list", "head"} /\ ~(f.fn = "sfor" /\ f.pc = "semi")

Awaited(f) ==
  IF f.pc = "stmt" THEN "stmt"
  ELSE IF f.pc \in AwaitsBlock THEN "block"
  ELSE IF f.fn \in {"eadd", "emul"} \/ (f.fn = "eass" /\ f.pc = "left") THEN Sorted[Operand[f.fn]]
  ELSE IF f.pc = "minus" THEN "unary"
  ELSE IF f.pc = "postfix" THEN "operand"
  ELSE "expr"

(* Only pluses from b up to c. *)
Pluses(T, b, c) ==
  b <= c /\ \A j \in 0 .. Len(T) : Spells(T, "unary", c, j) \subseteq Spells(T, "unary", b, j)

(* The tokens that a statement other than an expression begins with. *)
Starters == {"TK_OCURLY", "KW_IF", "KW_FOR", "KW_RETURN"}

(* What frame f, which began at token b, has read before token c. *)
AwaitsStmt(T, f, b, c) ==
  /\ f.fn = "sblock" /\ f.pc \in {"list", "stmt"} =>
       /\ At(T, b) = "TK_OCURLY" /\ b < c
       /\ f.kids \in Spells(T, "list", b + 1, c - 1)
       /\ c = b + 1 \/ At(T, c - 1) \in {"TK_SEMI", "TK_CCURLY"}
  /\ f.fn = "sexpr" /\ f.pc = "semi" => c = b /\ At(T, b) \notin Starters
  /\ f.fn = "sreturn" /\ f.pc = "semi" => c = b + 1 /\ At(T, b) = "KW_RETURN"
  /\ f.fn = "sif" /\ f.pc \in {"cond", "block", "else"} => At(T, b) = "KW_IF"
  /\ f.fn = "sif" /\ f.pc = "cond" => c = b + 1
  /\ f.fn = "sif" /\ f.pc = "block" => b < c /\ f.kids[1] \in Spells(T, "expr", b + 1, c - 1)
  /\ f.fn = "sif" /\ f.pc = "else" =>
       /\ At(T, c - 1) = "KW_ELSE"
       /\ \E h \in b + 1 .. c - 2 :
            f.kids[1] \in Spells(T, "expr", b + 1, h - 1) /\ f.kids[2] \in Spells(T, "block", h, c - 2)

AwaitsFor(T, f, b, c) ==
  f.fn = "sfor" =>
    /\ f.pc \in {"head", "init", "while", "cond", "semi", "post", "block"} => At(T, b) = "KW_FOR"
    /\ f.pc \in {"head", "init"} => c = b + 1
    /\ f.pc = "while" => b < c /\ f.kids[1] \in Optional(Trees(T), b + 1, c - 1, 1)
    /\ f.pc = "cond" =>
         b + 1 < c /\ At(T, c - 1) = "TK_SEMI" /\ f.kids[1] \in Optional(Trees(T), b + 1, c - 2, 0)
    /\ f.pc \in {"semi", "post"} =>
         /\ At(T, c - 1) = "TK_SEMI"
         /\ \E g \in b + 1 .. c - 2 :
              /\ At(T, g) = "TK_SEMI"
              /\ f.kids[1] \in Optional(Trees(T), b + 1, g - 1, 0)
              /\ f.kids[2] \in Spells(T, "expr", g + 1, c - 2)
    /\ f.pc = "block" =>
         \E g \in b + 1 .. c - 1 : \E h \in g + 1 .. c - 1 :
           /\ At(T, g) = "TK_SEMI" /\ At(T, h) = "TK_SEMI"
           /\ f.kids[1] \in Optional(Trees(T), b + 1, g - 1, 0)
           /\ f.kids[2] \in Spells(T, "expr", g + 1, h - 1)
           /\ f.kids[3] \in Optional(Trees(T), h + 1, c - 1, 0)

AwaitsExpr(T, f, b, c) ==
  /\ f.fn \in {"eass", "eadd", "emul"} /\ f.pc = "left" => c = b
  /\ f.fn = "eass" /\ f.pc = "right" =>
       /\ b + 1 < c /\ At(T, c - 1) = "TK_ASS" /\ IsId(f.kids[1])
       /\ f.kids[1] \in Spells(T, "sum", b, c - 2)
  /\ f.fn \in {"eadd", "emul"} /\ f.pc = "right" =>
       /\ b + 1 < c /\ At(T, c - 1) \in DOMAIN Operators[f.fn] /\ f.op = BinopOf[At(T, c - 1)]
       /\ f.kids[1] \in Spells(T, Sorted[f.fn], b, c - 2)
  /\ f.fn = "eunary" /\ f.pc = "minus" => At(T, c - 1) = "TK_SUB" /\ Pluses(T, b, c - 1)
  /\ f.fn = "eunary" /\ f.pc = "postfix" => Pluses(T, b, c) /\ At(T, c) \notin {"TK_ADD", "TK_SUB"}
  /\ f.fn = "eprimary" /\ f.pc = "paren" => c = b + 1 /\ At(T, b) = "TK_OPAREN"

Awaits(T, f, b, c) == AwaitsStmt(T, f, b, c) /\ AwaitsFor(T, f, b, c) /\ AwaitsExpr(T, f, b, c)

(* The top frame f, before token e, with r as the last result. *)
Enters(T, f, b, e) ==
  /\ IF f.fn = "eunary" THEN Pluses(T, b, e) ELSE b = e
  /\ f.fn \in DOMAIN Heads => At(T, e) = Heads[f.fn]
  /\ f.fn = "sexpr" => At(T, e) \notin Starters

(* The first expression of a for or a while is missing, and Default stands
   for it. *)
Defaults(T, f, b, e, r) ==
  /\ f.fn = "sfor" /\ f.pc = "init" /\ e = b + 1 /\ At(T, b) = "KW_FOR"
  /\ \/ At(T, e) = "TK_SEMI" /\ r = Default(0)
     \/ At(T, e) = "TK_OCURLY" /\ r = Default(1)

(* What the call has returned stands between c and e. *)
Has(T, f, b, e, r) ==
  \E c \in b .. e : Awaits(T, f, b, c) /\ r \in Spells(T, Awaited(f), c, e - 1)

(* So the top frame goes on: it begins, takes a result, or reads. *)
Ready(T, f, b, e, r) ==
  IF f.pc = "enter" THEN Enters(T, f, b, e)
  ELSE IF Waits(f) THEN Has(T, f, b, e, r) \/ Defaults(T, f, b, e, r)
  ELSE Awaits(T, f, b, e)

(* The frames of s began at the tokens b, before token e. *)
Placed(T, s, b, e) ==
  /\ b \in Seq(Nat) /\ Len(b) = Len(s)
  /\ \A k \in 1 .. Len(s) : b[k] \in 1 .. e
  /\ \A k \in 1 .. Len(s) - 1 : b[k] <= b[k + 1] /\ Waits(s[k]) /\ Awaits(T, s[k], b[k], b[k + 1])
  /\ \A k \in 1 .. Len(s) : Yields(s[k].fn, IF k = 1 THEN "stmt" ELSE Awaited(s[k - 1]))
  /\ Len(s) >= 1 => b[1] = 1

(* The frames read what the rules say; with none left, the last result is a
   program up to token e. *)
Sound(T, s, r, e) ==
  /\ e \in 1 .. Len(T) + 1
  /\ IF s = << >> THEN r \in Spells(T, "stmt", 1, e - 1)
     ELSE \E b : Placed(T, s, b, e) /\ Ready(T, Last(s), b[Len(s)], e, r)

-----------------------------------------------------------------------------
(***************************************************************************)
(* The running function goes on, calls, or leaves its result.              *)
(***************************************************************************)
LEMMA PlacedGoes ==
  ASSUME NEW T, NEW S, NEW s \in Seq(S), s # << >>, NEW b, NEW e \in Nat, Placed(T, s, b, e),
         NEW f \in S, \A sort : Yields(Last(s).fn, sort) => Yields(f.fn, sort),
         NEW d \in Nat, e <= d
  PROVE  Placed(T, Append(Front(s), f), b, d)
<1> DEFINE t == Append(Front(s), f)
<1>1. /\ Len(s) \in Nat \ {0} /\ Front(s) \in Seq(S) /\ Len(Front(s)) = Len(s) - 1
      /\ Last(s) = s[Len(s)] /\ \A k \in 1 .. Len(s) - 1 : Front(s)[k] = s[k]
  BY FrontType
<1>2. /\ t \in Seq(S) /\ Len(t) = Len(s) /\ t[Len(s)] = f
      /\ \A k \in 1 .. Len(s) - 1 : t[k] = s[k]
  BY <1>1
<1> HIDE DEF t
<1>3. b \in Seq(Nat) /\ Len(b) = Len(t) /\ (Len(t) >= 1 => b[1] = 1)
  BY <1>2 DEF Placed
<1>4. \A k \in 1 .. Len(t) : b[k] \in 1 .. d
  BY <1>1, <1>2 DEF Placed
<1>5. \A k \in 1 .. Len(t) - 1 : b[k] <= b[k + 1] /\ Waits(t[k]) /\ Awaits(T, t[k], b[k], b[k + 1])
  BY <1>1, <1>2 DEF Placed
<1>6. ASSUME NEW k \in 1 .. Len(t)
      PROVE  Yields(t[k].fn, IF k = 1 THEN "stmt" ELSE Awaited(t[k - 1]))
  <2>1. k # 1 => t[k - 1] = s[k - 1]
    BY <1>1, <1>2
  <2>2. Yields(s[k].fn, IF k = 1 THEN "stmt" ELSE Awaited(t[k - 1]))
    BY <1>2, <2>1 DEF Placed
  <2>3. CASE k = Len(s)
    BY <1>1, <1>2, <2>2, <2>3
  <2>4. CASE k # Len(s)
    BY <1>1, <1>2, <2>2, <2>4
  <2> QED
    BY <2>3, <2>4
<1> QED
  BY <1>3, <1>4, <1>5, <1>6 DEF Placed, t

(* The top frame began at d. *)
PlacedTop(T, s, b, d) == Placed(T, s, b, d) /\ b[Len(s)] = d

LEMMA PlacedCalls ==
  ASSUME NEW T, NEW S, NEW s \in Seq(S), s # << >>, NEW b, NEW e \in Nat, Placed(T, s, b, e),
         NEW f \in S, f.fn = Last(s).fn, NEW g \in S,
         NEW d \in Nat, e <= d,
         Waits(f), Awaits(T, f, b[Len(s)], d), Yields(g.fn, Awaited(f))
  PROVE  PlacedTop(T, Append(Append(Front(s), f), g), Append(b, d), d)
<1> DEFINE t == Append(Append(Front(s), f), g)
           c == Append(b, d)
<1>1. /\ Len(s) \in Nat \ {0} /\ Last(s) = s[Len(s)]
  BY FrontType
<1>2. /\ t \in Seq(S) /\ Len(t) = Len(s) + 1 /\ t[Len(s)] = f /\ t[Len(s) + 1] = g
      /\ \A k \in 1 .. Len(s) - 1 : t[k] = s[k]
  BY CallStack
<1>3. b \in Seq(Nat) /\ Len(b) = Len(s) /\ b[1] = 1 /\ \A k \in 1 .. Len(s) : b[k] \in 1 .. e
  BY <1>1 DEF Placed
<1>4. /\ c \in Seq(Nat) /\ Len(c) = Len(t) /\ c[Len(t)] = d
      /\ \A k \in 1 .. Len(s) : c[k] = b[k]
  BY <1>2, <1>3
<1> HIDE DEF t, c
<1>5. c[1] = 1 /\ \A k \in 1 .. Len(t) : c[k] \in 1 .. d
  <2>1. c[1] = 1 /\ d >= 1
    BY <1>1, <1>3, <1>4
  <2>2. \A k \in 1 .. Len(s) : c[k] \in 1 .. d
    BY <1>3, <1>4
  <2>3. \A k \in 1 .. Len(t) : k \in 1 .. Len(s) \/ k = Len(t)
    BY <1>1, <1>2
  <2>4. c[Len(t)] \in 1 .. d
    BY <1>4, <2>1
  <2> QED
    BY <2>1, <2>2, <2>3, <2>4
<1>6. ASSUME NEW k \in 1 .. Len(t) - 1
      PROVE  c[k] <= c[k + 1] /\ Waits(t[k]) /\ Awaits(T, t[k], c[k], c[k + 1])
  <2>1. CASE k = Len(s)
    <3>1. t[k] = f /\ c[k] = b[Len(s)] /\ c[k + 1] = d /\ b[Len(s)] <= d
      BY <1>1, <1>2, <1>3, <1>4, <2>1
    <3> QED
      BY <3>1
  <2>2. CASE k # Len(s)
    <3>1. k \in 1 .. Len(s) - 1 /\ t[k] = s[k] /\ c[k] = b[k] /\ c[k + 1] = b[k + 1]
      BY <1>1, <1>2, <1>4, <2>2
    <3> QED
      BY <3>1 DEF Placed
  <2> QED
    BY <2>1, <2>2
<1>7. ASSUME NEW k \in 1 .. Len(t)
      PROVE  Yields(t[k].fn, IF k = 1 THEN "stmt" ELSE Awaited(t[k - 1]))
  <2>1. CASE k = Len(s) + 1
    BY <1>1, <1>2, <2>1
  <2>2. CASE k # Len(s) + 1
    <3>1. k \in 1 .. Len(s) /\ t[k].fn = s[k].fn /\ (k # 1 => t[k - 1] = s[k - 1])
      BY <1>1, <1>2, <2>2
    <3>2. Yields(s[k].fn, IF k = 1 THEN "stmt" ELSE Awaited(s[k - 1]))
      BY <3>1 DEF Placed
    <3> QED
      BY <3>1, <3>2
  <2> QED
    BY <2>1, <2>2
<1> QED
  BY <1>4, <1>5, <1>6, <1>7 DEF Placed, PlacedTop, t, c

(* A block is a statement. *)
LEMMA BlockIsStmt ==
  ASSUME NEW T, Len(T) \in Nat, NEW i \in 1 .. Len(T) + 1, NEW j \in 0 .. Len(T),
         NEW fn, NEW sort, Yields(fn, sort), NEW n \in Spells(T, Sorted[fn], i, j)
  PROVE  n \in Spells(T, sort, i, j)
<1>1. CASE fn = "sblock" /\ sort = "stmt"
  <2>1. Sorted[fn] = "block"
    BY <1>1 DEF Sorted
  <2>2. i < j /\ At(T, i) = "TK_OCURLY" /\ n \in Spells(T, "block", i, j)
    BY <2>1, NotEmpty
  <2> QED
    BY <1>1, <2>2, StmtIs
<1> QED
  BY <1>1 DEF Yields

LEMMA PlacedLeaves ==
  ASSUME NEW T, Len(T) \in Nat, NEW S, NEW s \in Seq(S), s # << >>, NEW b,
         NEW e \in Nat, Placed(T, s, b, e), NEW d \in 1 .. Len(T) + 1, e <= d,
         NEW n \in Spells(T, Sorted[Last(s).fn], b[Len(s)], d - 1)
  PROVE  Sound(T, Front(s), n, d)
<1> DEFINE t == Front(s)
           c == Front(b)
<1>1. /\ Len(s) \in Nat \ {0} /\ t \in Seq(S) /\ Len(t) = Len(s) - 1
      /\ Last(s) = s[Len(s)] /\ \A k \in 1 .. Len(s) - 1 : t[k] = s[k]
  BY FrontType
<1>2. b \in Seq(Nat) /\ Len(b) = Len(s) /\ b[1] = 1 /\ \A k \in 1 .. Len(s) : b[k] \in 1 .. e
  BY <1>1 DEF Placed
<1>3. c \in Seq(Nat) /\ Len(c) = Len(s) - 1 /\ \A k \in 1 .. Len(s) - 1 : c[k] = b[k]
  <2>1. b # << >>
    BY <1>1, <1>2
  <2> QED
    BY <1>2, <2>1, FrontType
<1> HIDE DEF t, c
<1>4. b[Len(s)] \in 1 .. Len(T) + 1 /\ d - 1 \in 0 .. Len(T)
  BY <1>1, <1>2
<1>5. n \in Spells(T, IF Len(s) = 1 THEN "stmt" ELSE Awaited(s[Len(s) - 1]), b[Len(s)], d - 1)
  <2>1. Yields(Last(s).fn, IF Len(s) = 1 THEN "stmt" ELSE Awaited(s[Len(s) - 1]))
    <3>1. Len(s) \in 1 .. Len(s)
      BY <1>1
    <3>2. \A k \in 1 .. Len(s) : Yields(s[k].fn, IF k = 1 THEN "stmt" ELSE Awaited(s[k - 1]))
      BY DEF Placed
    <3> QED
      BY <1>1, <3>1, <3>2
  <2> QED
    BY <1>4, <2>1, BlockIsStmt
<1>6. CASE Len(s) = 1
  <2>1. t = << >>
    BY <1>1, <1>6, EmptySeq
  <2> QED
    BY <1>2, <1>5, <1>6, <2>1 DEF Sound, t
<1>7. CASE Len(s) # 1
  <2> DEFINE m == Len(s) - 1
  <2>1. m \in 1 .. Len(s) - 1 /\ m \in Nat \ {0} /\ m + 1 = Len(s) /\ t # << >>
    BY <1>1, <1>7
  <2>2. Last(t) = s[m] /\ Len(t) = m /\ c[m] = b[m]
    BY <1>1, <1>3, <2>1 DEF Last
  <2>3. Placed(T, t, c, d)
    <3>1. c \in Seq(Nat) /\ Len(c) = Len(t) /\ c[1] = 1
      <4>1. c \in Seq(Nat) /\ Len(c) = Len(t)
        BY <1>1, <1>3
      <4>2. 1 \in 1 .. Len(s) - 1
        BY <1>1, <2>1
      <4>3. c[1] = b[1] /\ b[1] = 1
        BY <1>2, <1>3, <4>2
      <4> QED
        BY <4>1, <4>3
    <3>2. ASSUME NEW k \in 1 .. Len(t)
          PROVE  c[k] \in 1 .. d
      <4>1. k \in 1 .. Len(s) - 1 /\ k \in 1 .. Len(s) /\ d \in Nat
        BY <1>1
      <4>2. c[k] = b[k] /\ b[k] \in 1 .. e
        BY <1>2, <1>3, <4>1
      <4> QED
        BY <4>1, <4>2
    <3>3. ASSUME NEW k \in 1 .. Len(t) - 1
          PROVE  c[k] <= c[k + 1] /\ Waits(t[k]) /\ Awaits(T, t[k], c[k], c[k + 1])
      <4>1. k \in 1 .. Len(s) - 1 /\ k + 1 \in 1 .. Len(s) - 1
        BY <1>1
      <4>2. c[k] = b[k] /\ c[k + 1] = b[k + 1] /\ t[k] = s[k]
        BY <1>1, <1>3, <4>1
      <4> QED
        BY <4>1, <4>2 DEF Placed
    <3>4. ASSUME NEW k \in 1 .. Len(t)
          PROVE  Yields(t[k].fn, IF k = 1 THEN "stmt" ELSE Awaited(t[k - 1]))
      <4>1. k \in 1 .. Len(s) - 1 /\ k \in 1 .. Len(s) /\ (k # 1 => k - 1 \in 1 .. Len(s) - 1)
        BY <1>1
      <4>2. t[k] = s[k] /\ (k # 1 => t[k - 1] = s[k - 1])
        BY <1>1, <4>1
      <4>3. Yields(s[k].fn, IF k = 1 THEN "stmt" ELSE Awaited(s[k - 1]))
        BY <4>1 DEF Placed
      <4> QED
        BY <4>2, <4>3
    <3> QED
      BY <3>1, <3>2, <3>3, <3>4 DEF Placed
  <2>4. Waits(s[m]) /\ Awaits(T, s[m], b[m], b[Len(s)]) /\ b[m] <= b[Len(s)]
    BY <2>1 DEF Placed
  <2>5. b[Len(s)] \in b[m] .. d
    <3>1. Len(s) \in 1 .. Len(s) /\ m \in 1 .. Len(s)
      BY <1>1, <2>1
    <3>2. b[Len(s)] \in 1 .. e /\ b[m] \in 1 .. e /\ d \in Nat
      BY <1>2, <3>1
    <3> QED
      BY <2>4, <3>2
  <2>6. Has(T, s[m], b[m], d, n)
    BY <1>5, <1>7, <2>4, <2>5 DEF Has
  <2>7. Ready(T, s[m], b[m], d, n)
    BY <2>4, <2>6 DEF Ready, Waits
  <2> HIDE DEF m
  <2>8. Placed(T, t, c, d) /\ Ready(T, Last(t), c[Len(t)], d, n)
    BY <2>2, <2>3, <2>7
  <2> QED
    BY <2>1, <2>8 DEF Sound, t
<1> QED
  BY <1>6, <1>7

(* While a function runs: it began at token p. *)
Scene(N, b, p) ==
  /\ Well(N, stack, ret) /\ stack # << >> /\ text \in Texts
  /\ at \in 1 .. Len(text) + 1
  /\ Placed(text, stack, b, at)
  /\ p = b[Len(stack)]
  /\ Ready(text, Top, p, at, ret)

LEMMA SceneFacts ==
  ASSUME NEW N, NEW b, NEW p, Scene(N, b, p)
  PROVE  /\ Len(text) \in Nat /\ at \in Nat /\ at \in 1 .. Len(text) + 1
         /\ p \in Nat /\ p \in 1 .. at /\ p \in 1 .. Len(text) + 1
         /\ at - 1 \in 0 .. Len(text)
         /\ CTok.kind = At(text, at) /\ NTok.kind = At(text, at + 1)
         /\ At(text, at) # "TK_EOF" =>
              at \in 0 .. Len(text) /\ at + 1 \in 1 .. Len(text) + 1 /\ CTok = text[at]
         /\ stack # << >> /\ Top \in FT(N) /\ stack \in Seq(FT(N)) /\ KidsOK(Top, N)
<1>1. Len(text) \in Nat /\ at \in Nat /\ at \in 1 .. Len(text) + 1 /\ stack # << >>
  BY TokenKinds DEF Scene
<1>2. \A k \in Nat \ {0} : Tok(k).kind = At(text, k)
  BY <1>1 DEF Tok, At, Token
<1>3. Top \in FT(N) /\ KidsOK(Top, N) /\ stack \in Seq(FT(N))
  BY Knows DEF Scene, Well, StackOK, Top
<1>4. Len(stack) \in 1 .. Len(stack)
  BY <1>1, <1>3, EmptySeq
<1>5. p \in 1 .. at
  BY <1>4 DEF Scene, Placed
<1>6. At(text, at) # "TK_EOF" => at \in 0 .. Len(text) /\ CTok = text[at]
  BY <1>1, <1>2 DEF At, CTok, Tok
<1> QED
  BY <1>1, <1>2, <1>3, <1>5, <1>6 DEF CTok, NTok

LEMMA GoOn ==
  ASSUME NEW N, NEW b, NEW p, Scene(N, b, p),
         NEW f \in FT(N), \A sort : Yields(Top.fn, sort) => Yields(f.fn, sort), Goes(f),
         at' \in at .. Len(text) + 1, Ready(text, f, p, at', ret')
  PROVE  Sound(text, stack', ret', at')
<1> DEFINE t == Append(Front(stack), f)
<1>1. /\ stack \in Seq(FT(N)) /\ stack # << >> /\ at \in Nat /\ Len(text) \in Nat /\ at >= 1
      /\ Placed(text, stack, b, at) /\ p = b[Len(stack)]
  BY SceneFacts DEF Scene
<1>2. at' \in Nat /\ at <= at' /\ at' \in 1 .. Len(text) + 1
  BY <1>1
<1>3. Placed(text, t, b, at')
  BY <1>1, <1>2, PlacedGoes DEF Top
<1>4. stack' = t
  BY DEF Goes
<1>5. t # << >> /\ Last(t) = f /\ Len(t) = Len(stack)
  <2>1. Front(stack) \in Seq(FT(N)) /\ Len(Front(stack)) = Len(stack) - 1 /\ Len(stack) \in Nat \ {0}
    BY <1>1, FrontType
  <2> QED
    BY <2>1 DEF Last
<1> HIDE DEF t
<1> QED
  BY <1>1, <1>2, <1>3, <1>4, <1>5 DEF Sound

LEMMA StayOn ==
  ASSUME NEW N, NEW b, NEW p, Scene(N, b, p), stack' = stack,
         at' \in at .. Len(text) + 1, Ready(text, Top, p, at', ret')
  PROVE  Sound(text, stack', ret', at')
<1>1. /\ stack \in Seq(FT(N)) /\ stack # << >> /\ at \in Nat /\ Len(text) \in Nat /\ at >= 1
      /\ Placed(text, stack, b, at) /\ p = b[Len(stack)]
  BY SceneFacts DEF Scene
<1>2. at' \in Nat /\ at <= at' /\ at' \in 1 .. Len(text) + 1
  BY <1>1
<1>3. Placed(text, stack, b, at')
  <2>1. \A k \in 1 .. Len(stack) : b[k] \in 1 .. at'
    BY <1>1, <1>2 DEF Placed
  <2> QED
    BY <1>1, <2>1 DEF Placed
<1> QED
  BY <1>1, <1>2, <1>3 DEF Sound, Top

LEMMA CallOn ==
  ASSUME NEW N, NEW b, NEW p, Scene(N, b, p),
         NEW f \in FT(N), f.fn = Top.fn, NEW fn \in Callees, fn # "sexpr", Call(f, fn),
         at' \in at .. Len(text) + 1,
         Waits(f), Awaits(text, f, p, at'), Yields(fn, Awaited(f))
  PROVE  Sound(text, stack', ret', at')
<1> DEFINE t == Append(Append(Front(stack), f), Frame(fn))
           c == Append(b, at')
<1>1. /\ stack \in Seq(FT(N)) /\ stack # << >> /\ at \in Nat /\ Len(text) \in Nat /\ at >= 1
      /\ Placed(text, stack, b, at) /\ p = b[Len(stack)]
  BY SceneFacts DEF Scene
<1>2. at' \in Nat /\ at <= at' /\ at' \in 1 .. Len(text) + 1
  BY <1>1
<1>3. Frame(fn) \in FT(N) /\ Frame(fn).fn = fn /\ Frame(fn).pc = "enter"
  BY FrameOK DEF Callees
<1>4. Placed(text, t, c, at') /\ c[Len(t)] = at'
  <2>1. /\ f.fn = Last(stack).fn /\ Awaits(text, f, b[Len(stack)], at')
        /\ Yields(Frame(fn).fn, Awaited(f))
    BY <1>1, <1>3 DEF Top
  <2>2. PlacedTop(text, t, c, at')
    BY <1>1, <1>2, <1>3, <2>1, PlacedCalls
  <2> QED
    BY <2>2 DEF PlacedTop
<1>5. stack' = t
  BY DEF Call
<1>6. t # << >> /\ Last(t) = Frame(fn)
  <2>1. /\ t \in Seq(FT(N)) /\ Len(t) = Len(stack) + 1 /\ t[Len(stack) + 1] = Frame(fn)
    BY <1>1, <1>3, CallStack
  <2>2. Len(stack) \in Nat
    BY <1>1, LenProperties
  <2> HIDE DEF t
  <2> QED
    BY <2>1, <2>2 DEF Last
<1> HIDE DEF t, c
<1>7. Ready(text, Frame(fn), at', at', ret')
  <2>1. Pluses(text, at', at')
    BY <1>2 DEF Pluses
  <2>2. Enters(text, Frame(fn), at', at')
    BY <1>3, <2>1 DEF Enters, Callees
  <2> QED
    BY <1>3, <2>2 DEF Ready
<1> QED
  BY <1>2, <1>4, <1>5, <1>6, <1>7 DEF Sound

LEMMA LeaveOn ==
  ASSUME NEW N, NEW b, NEW p, Scene(N, b, p), NEW n, Leave(n),
         at' \in at .. Len(text) + 1, n \in Spells(text, Sorted[Top.fn], p, at' - 1)
  PROVE  Sound(text, stack', ret', at')
<1>1. /\ stack \in Seq(FT(N)) /\ stack # << >> /\ at \in Nat /\ Len(text) \in Nat /\ at >= 1
      /\ Placed(text, stack, b, at) /\ p = b[Len(stack)]
  BY SceneFacts DEF Scene
<1>2. at' \in Nat /\ at <= at' /\ at' \in 1 .. Len(text) + 1
  BY <1>1
<1>3. n \in Spells(text, Sorted[Last(stack).fn], b[Len(stack)], at' - 1)
  BY <1>1 DEF Top
<1>4. Sound(text, Front(stack), n, at')
  BY <1>1, <1>2, <1>3, PlacedLeaves
<1> QED
  BY <1>4 DEF Leave

(* What the running function has when it goes on after a call. *)
LEMMA Given ==
  ASSUME NEW N, NEW b, NEW p, Scene(N, b, p), NEW fn, NEW pc, Running(fn, pc),
         pc \notin {"enter", "list", "head"}, fn # "sfor" \/ pc \notin {"semi", "init"}
  PROVE  \E c \in p .. at : Awaits(text, Top, p, c) /\ ret \in Spells(text, Awaited(Top), c, at - 1)
<1>1. Top.fn = fn /\ Top.pc = pc
  BY DEF Running
<1>2. Ready(text, Top, p, at, ret)
  BY DEF Scene
<1> QED
  BY <1>1, <1>2 DEF Ready, Waits, Defaults, Has

LEMMA Entered ==
  ASSUME NEW N, NEW b, NEW p, Scene(N, b, p), NEW fn, Running(fn, "enter")
  PROVE  /\ Top.fn = fn /\ Top.kids = << >> /\ Enters(text, Top, p, at)
<1>1. Top.fn = fn /\ Top.pc = "enter" /\ KidsOK(Top, N)
  BY SceneFacts DEF Running
<1> QED
  BY <1>1 DEF Scene, Ready, KidsOK

LEMMA Consumed ==
  ASSUME NEW N, NEW b, NEW p, Scene(N, b, p), Advance, At(text, at) # "TK_EOF"
  PROVE  at' = at + 1 /\ at' \in at .. Len(text) + 1
<1>1. at \in Nat /\ Len(text) \in Nat /\ at + 1 \in 1 .. Len(text) + 1
  BY SceneFacts
<1>2. at' = at + 1
  BY DEF Advance
<1> QED
  BY <1>1, <1>2

LEMMA Stayed ==
  ASSUME NEW N, NEW b, NEW p, Scene(N, b, p), at' = at
  PROVE  at' \in at .. Len(text) + 1
BY SceneFacts

(* A function that calls with To. *)
LEMMA ToCalls ==
  ASSUME NEW N, NEW b, NEW p, Scene(N, b, p), NEW q \in PCs, NEW fn \in Callees, fn # "sexpr",
         Call(To(Top, q), fn), at' \in at .. Len(text) + 1,
         Waits(To(Top, q)), Awaits(text, To(Top, q), p, at'), Yields(fn, Awaited(To(Top, q)))
  PROVE  Sound(text, stack', ret', at')
<1>1. To(Top, q) \in FT(N) /\ To(Top, q).fn = Top.fn
  BY SceneFacts, Update DEF Updated
<1> QED
  BY <1>1, CallOn

LEMMA KeepCalls ==
  ASSUME NEW N, NEW b, NEW p, Scene(N, b, p), NEW q \in PCs, NEW k \in Seq(N),
         NEW fn \in Callees, fn # "sexpr",
         Call(Keep(Top, q, k), fn), at' \in at .. Len(text) + 1,
         Waits(Keep(Top, q, k)), Awaits(text, Keep(Top, q, k), p, at'),
         Yields(fn, Awaited(Keep(Top, q, k)))
  PROVE  Sound(text, stack', ret', at')
<1>1. Keep(Top, q, k) \in FT(N) /\ Keep(Top, q, k).fn = Top.fn
  BY SceneFacts, Update DEF Updated
<1> QED
  BY <1>1, CallOn

LEMMA ToGoes ==
  ASSUME NEW N, NEW b, NEW p, Scene(N, b, p), NEW q \in PCs, Goes(To(Top, q)),
         at' \in at .. Len(text) + 1, Ready(text, To(Top, q), p, at', ret')
  PROVE  Sound(text, stack', ret', at')
<1>1. To(Top, q) \in FT(N) /\ To(Top, q).fn = Top.fn
  BY SceneFacts, Update DEF Updated
<1> QED
  BY <1>1, GoOn

LEMMA ToFacts ==
  ASSUME NEW N, NEW b, NEW p, Scene(N, b, p), NEW q \in PCs
  PROVE  /\ To(Top, q) \in FT(N) /\ To(Top, q).fn = Top.fn
         /\ To(Top, q).pc = q /\ To(Top, q).kids = Top.kids
<1>1. Top \in FT(N)
  BY SceneFacts
<1> QED
  BY <1>1, Update DEF Updated

-----------------------------------------------------------------------------
(***************************************************************************)
(* The functions for statements.                                           *)
(***************************************************************************)
LEMMA SStmtSound ==
  ASSUME NEW N, NEW b, NEW p, Scene(N, b, p), SStmt
  PROVE  Sound(text, stack', ret', at')
<1> DEFINE fn == CASE Check("KW_IF") -> "sif"
                   [] Check("KW_RETURN") -> "sreturn"
                   [] Check("KW_FOR") -> "sfor"
                   [] Check("TK_OCURLY") -> "sblock"
                   [] OTHER -> "sexpr"
<1>1. Goes(Frame(fn)) /\ at' = at /\ Running("sstmt", "enter")
  BY DEF SStmt, Goes
<1>2. fn \in Functions /\ fn # "eunary" /\ (\A sort : Yields("sstmt", sort) => Yields(fn, sort))
  BY DEF Functions, Yields, Sorted
<1>3. /\ fn = "sif" => At(text, at) = "KW_IF"
      /\ fn = "sfor" => At(text, at) = "KW_FOR"
      /\ fn = "sreturn" => At(text, at) = "KW_RETURN"
      /\ fn = "sexpr" => At(text, at) \notin Starters
  BY SceneFacts DEF Check, Starters
<1> HIDE DEF fn
<1>4. Top.fn = "sstmt" /\ p = at
  BY <1>1, Entered DEF Enters
<1>5. Frame(fn) \in FT(N) /\ Frame(fn).fn = fn /\ Frame(fn).pc = "enter"
  BY <1>2, FrameOK
<1>6. fn \in DOMAIN Heads => At(text, at) = Heads[fn]
  BY <1>3 DEF Heads
<1>7. Ready(text, Frame(fn), p, at', ret')
  BY <1>1, <1>2, <1>3, <1>4, <1>5, <1>6 DEF Ready, Enters
<1>8. at' \in at .. Len(text) + 1
  BY <1>1, Stayed
<1> QED
  BY <1>1, <1>2, <1>4, <1>5, <1>7, <1>8, GoOn

LEMMA BlockOpenSound ==
  ASSUME NEW N, NEW b, NEW p, Scene(N, b, p), BlockOpen
  PROVE  Sound(text, stack', ret', at')
<1> DEFINE f == Open(Top, "list", at)
<1>1. Running("sblock", "enter") /\ Check("TK_OCURLY") /\ Advance /\ Goes(f)
  BY DEF BlockOpen, Open
<1>2. At(text, at) = "TK_OCURLY" /\ Top \in FT(N) /\ at \in Nat
  BY <1>1, SceneFacts DEF Check
<1>3. Top.fn = "sblock" /\ p = at /\ Top.kids = << >>
  BY <1>1, Entered DEF Enters
<1>4. f \in FT(N) /\ f.fn = "sblock" /\ f.pc = "list" /\ f.kids = << >>
  <2>1. "list" \in PCs
    BY DEF PCs
  <2> QED
    BY <1>2, <1>3, <2>1, Update DEF Updated
<1> HIDE DEF f
<1>5. at' = at + 1 /\ at' \in at .. Len(text) + 1
  BY <1>1, <1>2, Consumed
<1>6. << >> \in Spells(text, "list", p + 1, at' - 1)
  <2>1. Len(text) \in Nat /\ p + 1 \in 1 .. Len(text) + 1 /\ at' - 1 \in 0 .. Len(text) /\ p + 1 > at' - 1
    BY <1>2, <1>3, <1>5, SceneFacts
  <2> QED
    BY <2>1, StmtListIs
<1>7. Awaits(text, f, p, at')
  BY <1>2, <1>3, <1>4, <1>5, <1>6 DEF Awaits, AwaitsStmt, AwaitsFor, AwaitsExpr
<1>8. Ready(text, f, p, at', ret')
  BY <1>4, <1>7 DEF Ready, Waits
<1> QED
  BY <1>1, <1>3, <1>4, <1>5, <1>8, GoOn

LEMMA ListSound ==
  ASSUME NEW N, NEW b, NEW p, Scene(N, b, p), InBlock
  PROVE  /\ Top.fn = "sblock" /\ At(text, p) = "TK_OCURLY" /\ p < at
         /\ List \in Spells(text, "list", p + 1, at - 1)
         /\ at = p + 1 \/ At(text, at - 1) \in {"TK_SEMI", "TK_CCURLY"}
<1>1. CASE Running("sblock", "list")
  <2>1. Top.fn = "sblock" /\ Top.pc = "list"
    BY <1>1 DEF Running
  <2>2. Awaits(text, Top, p, at)
    BY <2>1 DEF Scene, Ready, Waits
  <2> QED
    BY <2>1, <2>2 DEF Awaits, AwaitsStmt, List
<1>2. CASE Running("sblock", "stmt")
  <2>1. Top.fn = "sblock" /\ Top.pc = "stmt"
    BY <1>2 DEF Running
  <2>2. PICK c \in p .. at : Awaits(text, Top, p, c) /\ ret \in Spells(text, Awaited(Top), c, at - 1)
    BY <1>2, Given
  <2>3. /\ At(text, p) = "TK_OCURLY" /\ p < c
        /\ Top.kids \in Spells(text, "list", p + 1, c - 1)
        /\ c = p + 1 \/ At(text, c - 1) \in {"TK_SEMI", "TK_CCURLY"}
        /\ ret \in Spells(text, "stmt", c, at - 1)
    BY <2>1, <2>2 DEF Awaits, AwaitsStmt, Awaited
  <2>4. /\ Len(text) \in Nat /\ p \in Nat /\ at \in Nat /\ c \in 1 .. Len(text) + 1
        /\ at - 1 \in 0 .. Len(text) /\ p + 1 \in 1 .. Len(text) + 1 /\ c \in Nat
    BY <2>3, SceneFacts
  <2>5. c <= at - 1 /\ At(text, at - 1) \in {"TK_SEMI", "TK_CCURLY"}
    BY <2>3, <2>4, StmtEnds
  <2>6. p + 1 <= at - 1 /\ c \in p + 1 .. at - 1 /\ p < at
    BY <2>3, <2>4, <2>5
  <2>7. Append(Top.kids, ret) \in Spells(text, "list", p + 1, at - 1)
    BY <2>3, <2>4, <2>6, StmtListIs
  <2> QED
    BY <2>1, <2>3, <2>5, <2>6, <2>7 DEF List
<1> QED
  BY <1>1, <1>2 DEF InBlock

LEMMA BlockStmtSound ==
  ASSUME NEW N, NEW b, NEW p, Scene(N, b, p), BlockStmt
  PROVE  Sound(text, stack', ret', at')
<1> DEFINE f == Keep(Top, "stmt", List)
<1>1. InBlock /\ Call(f, "sstmt") /\ at' = at
  BY DEF BlockStmt, Keep
<1>2. List \in Seq(N)
  <2>1. List \in Seq(Stmts(N))
    BY <1>1, ListOK DEF Scene
  <2> QED
    BY <2>1, NodeSets, SeqGrows
<1>3. "stmt" \in PCs /\ "sstmt" \in Callees
  BY DEF PCs, Callees, Functions, Heads
<1>4. f.fn = "sblock" /\ f.pc = "stmt" /\ f.kids = List
  BY <1>1, <1>2, <1>3, SceneFacts, KeepFacts, ListSound
<1>5. Awaits(text, f, p, at')
  <2> HIDE DEF f
  <2> QED
    BY <1>1, <1>4, ListSound DEF Awaits, AwaitsStmt, AwaitsFor, AwaitsExpr
<1>6. Waits(f) /\ Yields("sstmt", Awaited(f))
  <2> HIDE DEF f
  <2> QED
    BY <1>4 DEF Waits, Yields, Awaited, Sorted
<1>7. at' \in at .. Len(text) + 1
  BY <1>1, Stayed
<1> QED
  BY <1>1, <1>2, <1>3, <1>5, <1>6, <1>7, KeepCalls

LEMMA BlockCloseSound ==
  ASSUME NEW N, NEW b, NEW p, Scene(N, b, p), BlockClose
  PROVE  Sound(text, stack', ret', at')
<1>1. InBlock /\ Check("TK_CCURLY") /\ Advance /\ Leave(NewStBlock(List))
  BY DEF BlockClose
<1>2. At(text, at) = "TK_CCURLY"
  BY <1>1, SceneFacts DEF Check
<1>3. at' = at + 1 /\ at' \in at .. Len(text) + 1
  BY <1>1, <1>2, Consumed
<1>4. Top.fn = "sblock" /\ At(text, p) = "TK_OCURLY" /\ p < at /\ List \in Spells(text, "list", p + 1, at - 1)
  BY <1>1, ListSound
<1>5. NewStBlock(List) \in Spells(text, "block", p, at)
  <2>1. Len(text) \in Nat /\ p \in 1 .. Len(text) + 1 /\ at \in 0 .. Len(text)
    BY <1>2, SceneFacts
  <2> QED
    BY <1>2, <1>4, <2>1, BlockIs
<1>6. NewStBlock(List) \in Spells(text, Sorted[Top.fn], p, at' - 1)
  <2>1. at' - 1 = at /\ Sorted["sblock"] = "block"
    BY <1>3, SceneFacts DEF Sorted
  <2> QED
    BY <1>4, <1>5, <2>1
<1> QED
  BY <1>1, <1>3, <1>6, LeaveOn

LEMMA SExprSound ==
  ASSUME NEW N, NEW b, NEW p, Scene(N, b, p), SExpr
  PROVE  Sound(text, stack', ret', at')
<1> DEFINE f == To(Top, "semi")
<1>1. Running("sexpr", "enter") /\ Call(f, "eass") /\ at' = at
  BY DEF SExpr, To
<1>2. Top.fn = "sexpr" /\ p = at /\ At(text, at) \notin Starters
  BY <1>1, Entered DEF Enters
<1>3. "semi" \in PCs /\ "eass" \in Callees
  BY DEF PCs, Callees, Functions, Heads
<1>4. f.fn = "sexpr" /\ f.pc = "semi"
  BY <1>2, <1>3, ToFacts
<1>5. Awaits(text, f, p, at') /\ Waits(f) /\ Yields("eass", Awaited(f))
  <2> HIDE DEF f
  <2> QED
    BY <1>1, <1>2, <1>4 DEF Awaits, AwaitsStmt, AwaitsFor, AwaitsExpr, Waits, Yields, Awaited,
                            Sorted, AwaitsBlock
<1>6. at' \in at .. Len(text) + 1
  BY <1>1, Stayed
<1> QED
  BY <1>1, <1>3, <1>5, <1>6, ToCalls

LEMMA SReturnSound ==
  ASSUME NEW N, NEW b, NEW p, Scene(N, b, p), SReturn
  PROVE  Sound(text, stack', ret', at')
<1> DEFINE f == To(Top, "semi")
<1>1. Running("sreturn", "enter") /\ Call(f, "eass") /\ Advance
  BY DEF SReturn, To
<1>2. Top.fn = "sreturn" /\ p = at /\ At(text, at) = "KW_RETURN"
  BY <1>1, Entered DEF Enters, Heads
<1>3. "semi" \in PCs /\ "eass" \in Callees
  BY DEF PCs, Callees, Functions, Heads
<1>4. f.fn = "sreturn" /\ f.pc = "semi"
  BY <1>2, <1>3, ToFacts
<1>5. at' = at + 1 /\ at' \in at .. Len(text) + 1
  BY <1>1, <1>2, Consumed
<1>6. Awaits(text, f, p, at') /\ Waits(f) /\ Yields("eass", Awaited(f))
  <2> HIDE DEF f
  <2> QED
    BY <1>2, <1>4, <1>5 DEF Awaits, AwaitsStmt, AwaitsFor, AwaitsExpr, Waits, Yields, Awaited,
                            Sorted, AwaitsBlock
<1> QED
  BY <1>1, <1>3, <1>5, <1>6, ToCalls

LEMMA SemiSound ==
  ASSUME NEW N, NEW b, NEW p, Scene(N, b, p), SExprEnd \/ SReturnEnd
  PROVE  Sound(text, stack', ret', at')
<1>1. /\ Check("TK_SEMI") /\ Advance
      /\ \/ Running("sexpr", "semi") /\ Leave(NewStExpr(ret))
         \/ Running("sreturn", "semi") /\ Leave(NewStReturn(ret))
  BY DEF SExprEnd, SReturnEnd, Semi
<1>2. At(text, at) = "TK_SEMI"
  BY <1>1, SceneFacts DEF Check
<1>3. at' = at + 1 /\ at' \in at .. Len(text) + 1
  BY <1>1, <1>2, Consumed
<1>4. PICK c \in p .. at : Awaits(text, Top, p, c) /\ ret \in Spells(text, Awaited(Top), c, at - 1)
  BY <1>1, Given
<1>5. Len(text) \in Nat /\ p \in 1 .. Len(text) + 1 /\ at \in 0 .. Len(text) /\ p <= at
        /\ at' - 1 = at /\ at \in Nat
  BY <1>2, <1>3, SceneFacts
<1>6. CASE Running("sexpr", "semi") /\ Leave(NewStExpr(ret))
  <2>1. Top.fn = "sexpr" /\ Top.pc = "semi"
    BY <1>6 DEF Running
  <2>2. c = p /\ At(text, p) \notin Starters /\ ret \in Spells(text, "expr", p, at - 1)
    BY <1>4, <2>1 DEF Awaits, AwaitsStmt, Awaited, AwaitsBlock
  <2>3. NewStExpr(ret) \in Spells(text, "stmt", p, at)
    BY <1>2, <1>5, <2>2, StmtIs DEF Starters
  <2>4. Sorted[Top.fn] = "stmt"
    BY <2>1 DEF Sorted
  <2> QED
    BY <1>3, <1>5, <1>6, <2>3, <2>4, LeaveOn
<1>7. CASE Running("sreturn", "semi") /\ Leave(NewStReturn(ret))
  <2>1. Top.fn = "sreturn" /\ Top.pc = "semi"
    BY <1>7 DEF Running
  <2>2. c = p + 1 /\ At(text, p) = "KW_RETURN" /\ ret \in Spells(text, "expr", p + 1, at - 1)
    BY <1>4, <2>1 DEF Awaits, AwaitsStmt, Awaited, AwaitsBlock
  <2>3. NewStReturn(ret) \in Spells(text, "stmt", p, at)
    BY <1>2, <1>5, <2>2, StmtIs
  <2>4. Sorted[Top.fn] = "stmt"
    BY <2>1 DEF Sorted
  <2> QED
    BY <1>3, <1>5, <1>7, <2>3, <2>4, LeaveOn
<1> QED
  BY <1>1, <1>6, <1>7

LEMMA SIfSound ==
  ASSUME NEW N, NEW b, NEW p, Scene(N, b, p), SIf
  PROVE  Sound(text, stack', ret', at')
<1> DEFINE f == To(Top, "cond")
<1>1. Running("sif", "enter") /\ Call(f, "eass") /\ Advance
  BY DEF SIf, To
<1>2. Top.fn = "sif" /\ p = at /\ At(text, at) = "KW_IF"
  BY <1>1, Entered DEF Enters, Heads
<1>3. "cond" \in PCs /\ "eass" \in Callees
  BY DEF PCs, Callees, Functions, Heads
<1>4. f.fn = "sif" /\ f.pc = "cond"
  BY <1>2, <1>3, ToFacts
<1>5. at' = at + 1 /\ at' \in at .. Len(text) + 1
  BY <1>1, <1>2, Consumed
<1>6. Awaits(text, f, p, at') /\ Waits(f) /\ Yields("eass", Awaited(f))
  <2> HIDE DEF f
  <2> QED
    BY <1>2, <1>4, <1>5 DEF Awaits, AwaitsStmt, AwaitsFor, AwaitsExpr, Waits, Yields, Awaited,
                            Sorted, AwaitsBlock
<1> QED
  BY <1>1, <1>3, <1>5, <1>6, ToCalls

LEMMA IfBlockSound ==
  ASSUME NEW N, NEW b, NEW p, Scene(N, b, p), IfBlock
  PROVE  Sound(text, stack', ret', at')
<1> DEFINE k == <<ret>>
           f == Keep(Top, "block", k)
<1>1. Running("sif", "cond") /\ Call(f, "sblock") /\ at' = at
  BY DEF IfBlock, Keep
<1>2. Top.fn = "sif" /\ Top.pc = "cond" /\ Top \in FT(N) /\ ret \in Exprs(N)
  BY <1>1, Runs DEF Scene, Wanted, AwaitsBlock
<1>3. "block" \in PCs /\ "sblock" \in Callees
  BY DEF PCs, Callees, Functions, Heads
<1>4. k \in Seq(N) /\ k[1] = ret
  BY <1>2, NodeSets, One
<1> HIDE DEF k
<1>5. f.fn = "sif" /\ f.pc = "block" /\ f.kids = k
  BY <1>2, <1>3, <1>4, KeepFacts
<1>6. PICK c \in p .. at : Awaits(text, Top, p, c) /\ ret \in Spells(text, Awaited(Top), c, at - 1)
  BY <1>1, Given
<1>7. At(text, p) = "KW_IF" /\ c = p + 1 /\ ret \in Spells(text, "expr", p + 1, at - 1)
  BY <1>2, <1>6 DEF Awaits, AwaitsStmt, Awaited, AwaitsBlock
<1>8. p < at /\ at' \in at .. Len(text) + 1
  BY <1>1, <1>7, SceneFacts, Stayed
<1>9. Awaits(text, f, p, at') /\ Waits(f) /\ Yields("sblock", Awaited(f))
  <2> HIDE DEF f
  <2> QED
    BY <1>1, <1>4, <1>5, <1>7, <1>8 DEF Awaits, AwaitsStmt, AwaitsFor, AwaitsExpr, Waits, Yields,
                            Awaited, Sorted, AwaitsBlock
<1> QED
  BY <1>1, <1>3, <1>4, <1>8, <1>9, KeepCalls

(* The block that an if, a for or a while has just read. *)
LEMMA BlockRead ==
  ASSUME NEW N, NEW b, NEW p, Scene(N, b, p), NEW fn \in {"sif", "sfor"},
         NEW pc \in {"block", "else", "while"}, Running(fn, pc)
  PROVE  \E c \in p .. at :
           /\ Awaits(text, Top, p, c)
           /\ ret \in Spells(text, "block", c, at - 1)
           /\ c < at - 1 /\ At(text, c) = "TK_OCURLY"
<1>1. Top.fn = fn /\ Top.pc = pc
  BY DEF Running
<1>2. PICK c \in p .. at : Awaits(text, Top, p, c) /\ ret \in Spells(text, Awaited(Top), c, at - 1)
  BY Given
<1>3. ret \in Spells(text, "block", c, at - 1)
  BY <1>1, <1>2 DEF Awaited, AwaitsBlock
<1>4. Len(text) \in Nat /\ c \in 1 .. Len(text) + 1 /\ at - 1 \in 0 .. Len(text)
  BY SceneFacts
<1> QED
  BY <1>2, <1>3, <1>4, NotEmpty

LEMMA IfElseSound ==
  ASSUME NEW N, NEW b, NEW p, Scene(N, b, p), IfElse
  PROVE  Sound(text, stack', ret', at')
<1> DEFINE k == Append(Top.kids, ret)
           f == Keep(Top, "else", k)
<1>1. Running("sif", "block") /\ Call(f, "sblock") /\ Check("KW_ELSE") /\ Advance
  BY DEF IfElse, Keep
<1>2. Top.fn = "sif" /\ Top.pc = "block" /\ Top \in FT(N) /\ KidsOK(Top, N) /\ ret \in Blocks(N)
  BY <1>1, Runs DEF Scene, Wanted, AwaitsBlock
<1>3. "else" \in PCs /\ "sblock" \in Callees
  BY DEF PCs, Callees, Functions, Heads
<1>4. k \in Seq(N) /\ k[1] = Top.kids[1] /\ k[2] = ret
  <2>1. Top.kids \in Seq(N) /\ Len(Top.kids) = 1
    BY <1>2 DEF FT, KidsOK
  <2>2. ret \in N
    BY <1>2, NodeSets
  <2> QED
    BY <2>1, <2>2, AppendedToOne
<1> HIDE DEF k
<1>5. f.fn = "sif" /\ f.pc = "else" /\ f.kids = k
  BY <1>2, <1>3, <1>4, KeepFacts
<1>6. At(text, at) = "KW_ELSE"
  BY <1>1, SceneFacts DEF Check
<1>7. at' = at + 1 /\ at' \in at .. Len(text) + 1
  BY <1>1, <1>6, Consumed
<1>8. PICK c \in p .. at : /\ Awaits(text, Top, p, c)
                           /\ ret \in Spells(text, "block", c, at - 1) /\ c < at - 1
  BY <1>1, BlockRead
<1>9. At(text, p) = "KW_IF" /\ p < c /\ Top.kids[1] \in Spells(text, "expr", p + 1, c - 1)
  BY <1>2, <1>8 DEF Awaits, AwaitsStmt
<1>10. c \in p + 1 .. at' - 2 /\ at' - 2 = at - 1 /\ at' - 1 = at
  BY <1>7, <1>8, <1>9, SceneFacts
<1>11. AwaitsStmt(text, f, p, at')
  <2>1. /\ k[1] \in Spells(text, "expr", p + 1, c - 1) /\ k[2] \in Spells(text, "block", c, at' - 2)
        /\ At(text, at' - 1) = "KW_ELSE"
    BY <1>4, <1>6, <1>8, <1>9, <1>10
  <2> HIDE DEF f
  <2> QED
    BY <1>5, <1>9, <1>10, <2>1 DEF AwaitsStmt
<1>12. Awaits(text, f, p, at') /\ Waits(f) /\ Yields("sblock", Awaited(f))
  <2> HIDE DEF f
  <2> QED
    BY <1>5, <1>11 DEF Awaits, AwaitsFor, AwaitsExpr, Waits, Yields, Awaited, Sorted, AwaitsBlock
<1> QED
  BY <1>1, <1>3, <1>4, <1>7, <1>12, KeepCalls

LEMMA IfEndSound ==
  ASSUME NEW N, NEW b, NEW p, Scene(N, b, p), IfEnd
  PROVE  Sound(text, stack', ret', at')
<1> DEFINE n == NewStIf(Top.kids[1], ret, NULL)
<1>1. Running("sif", "block") /\ Leave(n) /\ at' = at
  BY DEF IfEnd
<1>2. Top.fn = "sif" /\ Top.pc = "block"
  BY <1>1 DEF Running
<1>3. PICK c \in p .. at : /\ Awaits(text, Top, p, c)
                           /\ ret \in Spells(text, "block", c, at - 1)
                           /\ c < at - 1 /\ At(text, c) = "TK_OCURLY"
  BY <1>1, BlockRead
<1>4. At(text, p) = "KW_IF" /\ p < c /\ Top.kids[1] \in Spells(text, "expr", p + 1, c - 1)
  BY <1>2, <1>3 DEF Awaits, AwaitsStmt
<1>5. /\ Len(text) \in Nat /\ p \in 1 .. Len(text) + 1 /\ at - 1 \in 0 .. Len(text) /\ p <= at - 1
      /\ c \in p + 1 .. (at - 1) - 1
  BY <1>3, <1>4, SceneFacts
<1>6. n \in If(text, Trees(text), p, at - 1)
  BY <1>3, <1>4, <1>5, IfIs
<1>7. n \in Spells(text, Sorted[Top.fn], p, at' - 1)
  <2>1. Sorted[Top.fn] = "stmt"
    BY <1>2 DEF Sorted
  <2>2. n \in Spells(text, "stmt", p, at - 1)
    BY <1>4, <1>5, <1>6, StmtIs
  <2> QED
    BY <1>1, <2>1, <2>2
<1> QED
  BY <1>1, <1>7, Stayed, LeaveOn

LEMMA IfElseEndSound ==
  ASSUME NEW N, NEW b, NEW p, Scene(N, b, p), IfElseEnd
  PROVE  Sound(text, stack', ret', at')
<1> DEFINE n == NewStIf(Top.kids[1], Top.kids[2], ret)
<1>1. Running("sif", "else") /\ Leave(n) /\ at' = at
  BY DEF IfElseEnd
<1>2. Top.fn = "sif" /\ Top.pc = "else"
  BY <1>1 DEF Running
<1>3. PICK c \in p .. at : /\ Awaits(text, Top, p, c)
                           /\ ret \in Spells(text, "block", c, at - 1) /\ c < at - 1
  BY <1>1, BlockRead
<1>4. /\ At(text, p) = "KW_IF" /\ At(text, c - 1) = "KW_ELSE"
      /\ \E h \in p + 1 .. c - 2 : /\ Top.kids[1] \in Spells(text, "expr", p + 1, h - 1)
                                   /\ Top.kids[2] \in Spells(text, "block", h, c - 2)
  BY <1>2, <1>3 DEF Awaits, AwaitsStmt
<1>5. PICK h \in p + 1 .. c - 2 : /\ Top.kids[1] \in Spells(text, "expr", p + 1, h - 1)
                                  /\ Top.kids[2] \in Spells(text, "block", h, c - 2)
  BY <1>4
<1>6. /\ Len(text) \in Nat /\ p \in 1 .. Len(text) + 1 /\ at - 1 \in 0 .. Len(text) /\ p <= at - 1
      /\ h \in p + 1 .. (at - 1) - 1 /\ c - 1 \in h + 1 .. (at - 1) - 1
      /\ (c - 1) - 1 = c - 2 /\ (c - 1) + 1 = c /\ h \in 1 .. Len(text) + 1 /\ c - 2 \in 0 .. Len(text)
  BY <1>3, SceneFacts
<1>7. At(text, h) = "TK_OCURLY"
  BY <1>5, <1>6, NotEmpty
<1>8. n \in If(text, Trees(text), p, at - 1)
  <2>1. /\ Top.kids[2] \in Spells(text, "block", h, (c - 1) - 1)
        /\ ret \in Spells(text, "block", (c - 1) + 1, at - 1)
    BY <1>3, <1>5, <1>6
  <2> HIDE DEF n
  <2>2. \E g \in h + 1 .. (at - 1) - 1 :
                     /\ At(text, g) = "KW_ELSE"
                     /\ \E c1 \in Spells(text, "expr", p + 1, h - 1), b1 \in Spells(text, "block", h, g - 1),
                           e \in Spells(text, "block", g + 1, at - 1) : n = NewStIf(c1, b1, e)
    BY <1>4, <1>5, <1>6, <2>1 DEF n
  <2> QED
    BY <1>6, <1>7, <2>2, IfIs
<1>9. n \in Spells(text, Sorted[Top.fn], p, at' - 1)
  <2>1. Sorted[Top.fn] = "stmt"
    BY <1>2 DEF Sorted
  <2>2. n \in Spells(text, "stmt", p, at - 1)
    BY <1>4, <1>6, <1>8, StmtIs
  <2> QED
    BY <1>1, <2>1, <2>2
<1> QED
  BY <1>1, <1>9, Stayed, LeaveOn

-----------------------------------------------------------------------------
LEMMA SForSound ==
  ASSUME NEW N, NEW b, NEW p, Scene(N, b, p), SFor
  PROVE  Sound(text, stack', ret', at')
<1> DEFINE f == To(Top, "head")
<1>1. Running("sfor", "enter") /\ Goes(f) /\ Advance
  BY DEF SFor, To
<1>2. Top.fn = "sfor" /\ p = at /\ At(text, at) = "KW_FOR"
  BY <1>1, Entered DEF Enters, Heads
<1>3. "head" \in PCs
  BY DEF PCs
<1>4. f.fn = "sfor" /\ f.pc = "head"
  BY <1>2, <1>3, ToFacts
<1>5. at' = at + 1 /\ at' \in at .. Len(text) + 1
  BY <1>1, <1>2, Consumed
<1>6. Ready(text, f, p, at', ret')
  <2> HIDE DEF f
  <2> QED
    BY <1>2, <1>4, <1>5 DEF Ready, Waits, Awaits, AwaitsStmt, AwaitsFor, AwaitsExpr
<1> QED
  BY <1>1, <1>3, <1>5, <1>6, ToGoes

LEMMA HeadRead ==
  ASSUME NEW N, NEW b, NEW p, Scene(N, b, p), Running("sfor", "head")
  PROVE  Top.fn = "sfor" /\ at = p + 1 /\ At(text, p) = "KW_FOR"
<1>1. Top.fn = "sfor" /\ Top.pc = "head"
  BY DEF Running
<1>2. Awaits(text, Top, p, at)
  BY <1>1 DEF Scene, Ready, Waits
<1> QED
  BY <1>1, <1>2 DEF Awaits, AwaitsFor

LEMMA ForDefaultSound ==
  ASSUME NEW N, NEW b, NEW p, Scene(N, b, p), ForDefault
  PROVE  Sound(text, stack', ret', at')
<1> DEFINE f == To(Top, "init")
<1>1. /\ Running("sfor", "head") /\ Goes(f) /\ at' = at
      /\ Check("TK_SEMI") \/ Check("TK_OCURLY")
      /\ ret' = Default(IF Check("TK_SEMI") THEN 0 ELSE 1)
  BY DEF ForDefault, To
<1>2. Top.fn = "sfor" /\ at = p + 1 /\ At(text, p) = "KW_FOR"
  BY <1>1, HeadRead
<1>3. "init" \in PCs
  BY DEF PCs
<1>4. f.fn = "sfor" /\ f.pc = "init"
  BY <1>2, <1>3, ToFacts
<1>5. \/ At(text, at) = "TK_SEMI" /\ ret' = Default(0)
      \/ At(text, at) = "TK_OCURLY" /\ ret' = Default(1)
  BY <1>1, SceneFacts DEF Check
<1>6. Ready(text, f, p, at', ret')
  <2> HIDE DEF f
  <2>1. Defaults(text, f, p, at', ret')
    BY <1>1, <1>2, <1>4, <1>5 DEF Defaults
  <2> QED
    BY <1>4, <2>1 DEF Ready, Waits
<1> QED
  BY <1>1, <1>3, <1>6, Stayed, ToGoes

LEMMA ForInitSound ==
  ASSUME NEW N, NEW b, NEW p, Scene(N, b, p), ForInit
  PROVE  Sound(text, stack', ret', at')
<1> DEFINE f == To(Top, "init")
<1>1. Running("sfor", "head") /\ Call(f, "eass") /\ at' = at
  BY DEF ForInit, To
<1>2. Top.fn = "sfor" /\ at = p + 1 /\ At(text, p) = "KW_FOR"
  BY <1>1, HeadRead
<1>3. "init" \in PCs /\ "eass" \in Callees
  BY DEF PCs, Callees, Functions, Heads
<1>4. f.fn = "sfor" /\ f.pc = "init"
  BY <1>2, <1>3, ToFacts
<1>5. Awaits(text, f, p, at') /\ Waits(f) /\ Yields("eass", Awaited(f))
  <2> HIDE DEF f
  <2> QED
    BY <1>1, <1>2, <1>4 DEF Awaits, AwaitsStmt, AwaitsFor, AwaitsExpr, Waits, Yields, Awaited,
                            Sorted, AwaitsBlock
<1> QED
  BY <1>1, <1>3, <1>5, Stayed, ToCalls

(* An expression that has been read is not missing. *)
LEMMA IsPresent ==
  ASSUME NEW T, Len(T) \in Nat, NEW i \in 1 .. Len(T) + 1, NEW j \in 0 .. Len(T), NEW v,
         NEW n \in Spells(T, "expr", i, j)
  PROVE  i <= j /\ n \in Optional(Trees(T), i, j, v)
<1>1. i <= j /\ i \in Nat /\ j \in Nat
  BY NotEmpty
<1> QED
  BY <1>1 DEF Optional, Spells

(* Between the for and the token that shows which one it is. *)
LEMMA InitRead ==
  ASSUME NEW N, NEW b, NEW p, Scene(N, b, p), Running("sfor", "init")
  PROVE  /\ Top.fn = "sfor" /\ At(text, p) = "KW_FOR" /\ p < at
         /\ At(text, at) = "TK_SEMI" => ret \in Optional(Trees(text), p + 1, at - 1, 0)
         /\ At(text, at) # "TK_SEMI" => ret \in Optional(Trees(text), p + 1, at - 1, 1)
<1>1. Top.fn = "sfor" /\ Top.pc = "init"
  BY DEF Running
<1>2. Has(text, Top, p, at, ret) \/ Defaults(text, Top, p, at, ret)
  BY <1>1 DEF Scene, Ready, Waits
<1>3. Len(text) \in Nat /\ p \in Nat /\ at \in Nat /\ p \in 1 .. at /\ p \in 1 .. Len(text) + 1
        /\ at - 1 \in 0 .. Len(text)
  BY SceneFacts
<1>4. CASE Has(text, Top, p, at, ret)
  <2>1. PICK c \in p .. at : Awaits(text, Top, p, c) /\ ret \in Spells(text, Awaited(Top), c, at - 1)
    BY <1>4 DEF Has
  <2>2. c = p + 1 /\ At(text, p) = "KW_FOR" /\ ret \in Spells(text, "expr", p + 1, at - 1)
    BY <1>1, <2>1 DEF Awaits, AwaitsFor, Awaited, AwaitsBlock
  <2>3. p + 1 \in 1 .. Len(text) + 1
    BY <1>3, <2>1, <2>2, SceneFacts
  <2> QED
    BY <1>1, <1>3, <2>2, <2>3, IsPresent
<1>5. CASE Defaults(text, Top, p, at, ret)
  BY <1>1, <1>3, <1>5 DEF Defaults, Default, Optional
<1> QED
  BY <1>2, <1>4, <1>5

LEMMA ForCondSound ==
  ASSUME NEW N, NEW b, NEW p, Scene(N, b, p), ForCond
  PROVE  Sound(text, stack', ret', at')
<1> DEFINE k == <<ret>>
           f == Keep(Top, "cond", k)
<1>1. Running("sfor", "init") /\ Check("TK_SEMI") /\ Advance /\ Call(f, "eass")
  BY DEF ForCond, Keep
<1>2. Top.fn = "sfor" /\ Top.pc = "init" /\ Top \in FT(N) /\ ret \in Exprs(N)
  BY <1>1, Runs DEF Scene, Wanted, AwaitsBlock
<1>3. "cond" \in PCs /\ "eass" \in Callees
  BY DEF PCs, Callees, Functions, Heads
<1>4. k \in Seq(N) /\ k[1] = ret
  BY <1>2, NodeSets, One
<1> HIDE DEF k
<1>5. f.fn = "sfor" /\ f.pc = "cond" /\ f.kids = k
  BY <1>2, <1>3, <1>4, KeepFacts
<1>6. At(text, at) = "TK_SEMI"
  BY <1>1, SceneFacts DEF Check
<1>7. at' = at + 1 /\ at' \in at .. Len(text) + 1
  BY <1>1, <1>6, Consumed
<1>8. At(text, p) = "KW_FOR" /\ p < at /\ ret \in Optional(Trees(text), p + 1, at - 1, 0)
  BY <1>1, <1>6, InitRead
<1>9. p + 1 < at' /\ at' - 1 = at /\ at' - 2 = at - 1
  BY <1>7, <1>8, SceneFacts
<1>10. AwaitsFor(text, f, p, at')
  <2>1. At(text, at' - 1) = "TK_SEMI" /\ f.kids[1] \in Optional(Trees(text), p + 1, at' - 2, 0)
    BY <1>4, <1>5, <1>6, <1>8, <1>9
  <2> HIDE DEF f
  <2> QED
    BY <1>5, <1>8, <1>9, <2>1 DEF AwaitsFor
<1>11. Awaits(text, f, p, at') /\ Waits(f) /\ Yields("eass", Awaited(f))
  <2> HIDE DEF f
  <2> QED
    BY <1>5, <1>10 DEF Awaits, AwaitsStmt, AwaitsExpr, Waits, Yields, Awaited, Sorted, AwaitsBlock
<1> QED
  BY <1>1, <1>3, <1>4, <1>7, <1>11, KeepCalls

LEMMA WhileBlockSound ==
  ASSUME NEW N, NEW b, NEW p, Scene(N, b, p), WhileBlock
  PROVE  Sound(text, stack', ret', at')
<1> DEFINE k == <<ret>>
           f == Keep(Top, "while", k)
<1>1. Running("sfor", "init") /\ ~Check("TK_SEMI") /\ Call(f, "sblock") /\ at' = at
  BY DEF WhileBlock, Keep
<1>2. Top.fn = "sfor" /\ Top.pc = "init" /\ Top \in FT(N) /\ ret \in Exprs(N)
  BY <1>1, Runs DEF Scene, Wanted, AwaitsBlock
<1>3. "while" \in PCs /\ "sblock" \in Callees
  BY DEF PCs, Callees, Functions, Heads
<1>4. k \in Seq(N) /\ k[1] = ret
  BY <1>2, NodeSets, One
<1> HIDE DEF k
<1>5. f.fn = "sfor" /\ f.pc = "while" /\ f.kids = k
  BY <1>2, <1>3, <1>4, KeepFacts
<1>6. At(text, at) # "TK_SEMI"
  BY <1>1, SceneFacts DEF Check
<1>7. at' \in at .. Len(text) + 1
  BY <1>1, Stayed
<1>8. At(text, p) = "KW_FOR" /\ p < at /\ ret \in Optional(Trees(text), p + 1, at - 1, 1)
  BY <1>1, <1>6, InitRead
<1>9. Awaits(text, f, p, at') /\ Waits(f) /\ Yields("sblock", Awaited(f))
  <2>1. f.kids[1] \in Optional(Trees(text), p + 1, at' - 1, 1)
    BY <1>1, <1>4, <1>5, <1>8
  <2> HIDE DEF f
  <2> QED
    BY <1>1, <1>5, <1>8, <2>1 DEF Awaits, AwaitsStmt, AwaitsFor, AwaitsExpr, Waits, Yields, Awaited,
                                  Sorted, AwaitsBlock
<1> QED
  BY <1>1, <1>3, <1>4, <1>7, <1>9, KeepCalls

LEMMA WhileEndSound ==
  ASSUME NEW N, NEW b, NEW p, Scene(N, b, p), WhileEnd
  PROVE  Sound(text, stack', ret', at')
<1> DEFINE n == NewStForWhile(Top.kids[1], ret)
<1>1. Running("sfor", "while") /\ Leave(n) /\ at' = at
  BY DEF WhileEnd
<1>2. Top.fn = "sfor" /\ Top.pc = "while"
  BY <1>1 DEF Running
<1>3. PICK c \in p .. at : /\ Awaits(text, Top, p, c)
                           /\ ret \in Spells(text, "block", c, at - 1)
                           /\ c < at - 1 /\ At(text, c) = "TK_OCURLY"
  BY <1>1, BlockRead
<1>4. /\ At(text, p) = "KW_FOR" /\ p < c
      /\ Top.kids[1] \in Optional(Trees(text), p + 1, c - 1, 1)
  BY <1>2, <1>3 DEF Awaits, AwaitsFor
<1>5. /\ Len(text) \in Nat /\ p \in 1 .. Len(text) + 1 /\ at - 1 \in 0 .. Len(text) /\ p <= at - 1
      /\ c \in p + 1 .. (at - 1) - 1
  BY <1>3, <1>4, SceneFacts
<1>6. n \in While(text, Trees(text), p, at - 1)
  BY <1>3, <1>4, <1>5, WhileIs
<1>7. n \in Spells(text, Sorted[Top.fn], p, at' - 1)
  <2>1. Sorted[Top.fn] = "stmt"
    BY <1>2 DEF Sorted
  <2>2. n \in Spells(text, "stmt", p, at - 1)
    BY <1>4, <1>5, <1>6, StmtIs
  <2> QED
    BY <1>1, <2>1, <2>2
<1> QED
  BY <1>1, <1>7, Stayed, LeaveOn

LEMMA KeepGoes ==
  ASSUME NEW N, NEW b, NEW p, Scene(N, b, p), NEW q \in PCs, NEW k \in Seq(N), Goes(Keep(Top, q, k)),
         at' \in at .. Len(text) + 1, Ready(text, Keep(Top, q, k), p, at', ret')
  PROVE  Sound(text, stack', ret', at')
<1>1. Keep(Top, q, k) \in FT(N) /\ Keep(Top, q, k).fn = Top.fn
  BY SceneFacts, Update DEF Updated
<1> QED
  BY <1>1, GoOn

(* The nodes of a for, with one more. *)
LEMMA KidsMore ==
  ASSUME NEW N, NEW b, NEW p, Scene(N, b, p), NEW pc \in {"cond", "semi", "post"},
         Running("sfor", pc), NEW n \in N
  PROVE  /\ Append(Top.kids, n) \in Seq(N)
         /\ Append(Top.kids, n)[1] = Top.kids[1]
         /\ pc = "cond" => Append(Top.kids, n)[2] = n
         /\ pc # "cond" => Append(Top.kids, n)[2] = Top.kids[2] /\ Append(Top.kids, n)[3] = n
<1>1. Top.kids \in Seq(Exprs(N)) /\ Len(Top.kids) = IF pc = "cond" THEN 1 ELSE 2
  BY ForKids DEF Scene
<1>2. Top.kids \in Seq(N)
  BY <1>1, NodeSets, SeqGrows
<1>3. 1 \in 1 .. Len(Top.kids) /\ (pc # "cond" => 2 \in 1 .. Len(Top.kids))
  BY <1>1
<1>4. Len(Top.kids) + 1 = IF pc = "cond" THEN 2 ELSE 3
  BY <1>1
<1>5. /\ Append(Top.kids, n) \in Seq(N)
      /\ Append(Top.kids, n)[Len(Top.kids) + 1] = n
      /\ \A k \in 1 .. Len(Top.kids) : Append(Top.kids, n)[k] = Top.kids[k]
  BY <1>2, Appended
<1> QED
  BY <1>3, <1>4, <1>5

LEMMA ForSemiSound ==
  ASSUME NEW N, NEW b, NEW p, Scene(N, b, p), ForSemi
  PROVE  Sound(text, stack', ret', at')
<1> DEFINE k == Append(Top.kids, ret)
           f == Keep(Top, "semi", k)
<1>1. Running("sfor", "cond") /\ Check("TK_SEMI") /\ Advance
  BY DEF ForSemi
<1>2. Top.fn = "sfor" /\ Top.pc = "cond" /\ Top \in FT(N) /\ ret \in Exprs(N)
  BY <1>1, Runs DEF Scene, Wanted, AwaitsBlock
<1>3. Goes(f)
  BY <1>2 DEF ForSemi, Keep, FT
<1>4. k \in Seq(N) /\ k[1] = Top.kids[1] /\ k[2] = ret
  BY <1>1, <1>2, NodeSets, KidsMore
<1> HIDE DEF k
<1>5. "semi" \in PCs
  BY DEF PCs
<1>6. f.fn = "sfor" /\ f.pc = "semi" /\ f.kids = k
  BY <1>2, <1>4, <1>5, KeepFacts
<1>7. At(text, at) = "TK_SEMI"
  BY <1>1, SceneFacts DEF Check
<1>8. at' = at + 1 /\ at' \in at .. Len(text) + 1
  BY <1>1, <1>7, Consumed
<1>9. PICK c \in p .. at : Awaits(text, Top, p, c) /\ ret \in Spells(text, Awaited(Top), c, at - 1)
  BY <1>1, Given
<1>10. /\ At(text, p) = "KW_FOR" /\ p + 1 < c /\ At(text, c - 1) = "TK_SEMI"
       /\ Top.kids[1] \in Optional(Trees(text), p + 1, c - 2, 0)
       /\ ret \in Spells(text, "expr", c, at - 1)
  BY <1>2, <1>9 DEF Awaits, AwaitsFor, Awaited, AwaitsBlock
<1>11. c <= at - 1
  <2>1. Len(text) \in Nat /\ c \in 1 .. Len(text) + 1 /\ at - 1 \in 0 .. Len(text)
    BY <1>9, SceneFacts
  <2> QED
    BY <1>10, <2>1, NotEmpty
<1>12. /\ c - 1 \in p + 1 .. at' - 2 /\ (c - 1) - 1 = c - 2 /\ (c - 1) + 1 = c
       /\ at' - 2 = at - 1 /\ at' - 1 = at
  BY <1>8, <1>9, <1>10, <1>11, SceneFacts
<1>13. Awaits(text, f, p, at') /\ ~Waits(f) /\ f.pc # "enter"
  <2>1. At(text, at' - 1) = "TK_SEMI"
    BY <1>7, <1>12
  <2>2. \E g \in p + 1 .. at' - 2 :
          /\ At(text, g) = "TK_SEMI"
          /\ k[1] \in Optional(Trees(text), p + 1, g - 1, 0)
          /\ k[2] \in Spells(text, "expr", g + 1, at' - 2)
    BY <1>4, <1>10, <1>12
  <2> HIDE DEF f
  <2>3. AwaitsFor(text, f, p, at')
    BY <1>6, <1>10, <2>1, <2>2 DEF AwaitsFor
  <2> QED
    BY <1>6, <2>3 DEF Awaits, AwaitsStmt, AwaitsExpr, Waits
<1>14. Ready(text, f, p, at', ret')
  BY <1>13 DEF Ready
<1> QED
  BY <1>3, <1>4, <1>5, <1>8, <1>14, KeepGoes

LEMMA ForPostSound ==
  ASSUME NEW N, NEW b, NEW p, Scene(N, b, p), ForPost
  PROVE  Sound(text, stack', ret', at')
<1> DEFINE f == To(Top, "post")
<1>1. Running("sfor", "semi") /\ Call(f, "eass") /\ at' = at
  BY DEF ForPost, To
<1>2. Top.fn = "sfor" /\ Top.pc = "semi"
  BY <1>1 DEF Running
<1>3. "post" \in PCs /\ "eass" \in Callees
  BY DEF PCs, Callees, Functions, Heads
<1>4. f.fn = "sfor" /\ f.pc = "post" /\ f.kids = Top.kids
  BY <1>2, <1>3, ToFacts
<1>5. Awaits(text, Top, p, at)
  BY <1>2 DEF Scene, Ready, Waits
<1>6. Awaits(text, f, p, at') /\ Waits(f) /\ Yields("eass", Awaited(f))
  <2> HIDE DEF f
  <2>1. AwaitsFor(text, f, p, at')
    BY <1>1, <1>2, <1>4, <1>5 DEF Awaits, AwaitsFor
  <2> QED
    BY <1>4, <2>1 DEF Awaits, AwaitsStmt, AwaitsExpr, Waits, Yields, Awaited, Sorted, AwaitsBlock
<1>7. at' \in at .. Len(text) + 1
  BY <1>1, Stayed
<1> QED
  BY <1>1, <1>3, <1>6, <1>7, ToCalls

(* The third expression of a for, or what stands for it. *)
LEMMA PostRead ==
  ASSUME NEW N, NEW b, NEW p, Scene(N, b, p), NEW pc \in {"semi", "post"}, Running("sfor", pc)
  PROVE  /\ At(text, p) = "KW_FOR"
         /\ \E g \in p + 1 .. at - 1 : \E h \in g + 1 .. at - 1 :
              /\ At(text, g) = "TK_SEMI" /\ At(text, h) = "TK_SEMI"
              /\ Top.kids[1] \in Optional(Trees(text), p + 1, g - 1, 0)
              /\ Top.kids[2] \in Spells(text, "expr", g + 1, h - 1)
              /\ (IF pc = "post" THEN ret ELSE Default(0)) \in Optional(Trees(text), h + 1, at - 1, 0)
<1>1. Top.fn = "sfor" /\ Top.pc = pc
  BY DEF Running
<1>2. /\ Len(text) \in Nat /\ p \in Nat /\ at \in Nat /\ at \in 1 .. Len(text) + 1 /\ p >= 1
      /\ at - 1 \in 0 .. Len(text) /\ p <= at
  BY SceneFacts
<1>3. ASSUME NEW c \in p .. at, Awaits(text, Top, p, c),
             (IF pc = "post" THEN ret ELSE Default(0)) \in Optional(Trees(text), c, at - 1, 0)
      PROVE  /\ At(text, p) = "KW_FOR"
             /\ \E g \in p + 1 .. at - 1 : \E h \in g + 1 .. at - 1 :
                  /\ At(text, g) = "TK_SEMI" /\ At(text, h) = "TK_SEMI"
                  /\ Top.kids[1] \in Optional(Trees(text), p + 1, g - 1, 0)
                  /\ Top.kids[2] \in Spells(text, "expr", g + 1, h - 1)
                  /\ (IF pc = "post" THEN ret ELSE Default(0))
                       \in Optional(Trees(text), h + 1, at - 1, 0)
  <2>1. At(text, p) = "KW_FOR" /\ At(text, c - 1) = "TK_SEMI"
    BY <1>1, <1>3 DEF Awaits, AwaitsFor
  <2>2. PICK g \in p + 1 .. c - 2 :
          /\ At(text, g) = "TK_SEMI"
          /\ Top.kids[1] \in Optional(Trees(text), p + 1, g - 1, 0)
          /\ Top.kids[2] \in Spells(text, "expr", g + 1, c - 2)
    BY <1>1, <1>3 DEF Awaits, AwaitsFor
  <2>3. c - 1 \in g + 1 .. at - 1 /\ g \in p + 1 .. at - 1 /\ (c - 1) - 1 = c - 2 /\ (c - 1) + 1 = c
    BY <1>2
  <2> QED
    BY <1>3, <2>1, <2>2, <2>3
<1>4. CASE pc = "semi"
  <2>1. Awaits(text, Top, p, at)
    BY <1>1, <1>4 DEF Scene, Ready, Waits
  <2>2. Default(0) \in Optional(Trees(text), at, at - 1, 0)
    BY <1>2 DEF Optional, Default
  <2>3. at \in p .. at
    BY <1>2
  <2> QED
    BY <1>3, <1>4, <2>1, <2>2, <2>3
<1>5. CASE pc = "post"
  <2>1. PICK c \in p .. at : Awaits(text, Top, p, c) /\ ret \in Spells(text, Awaited(Top), c, at - 1)
    BY <1>5, Given
  <2>2. ret \in Spells(text, "expr", c, at - 1)
    BY <1>1, <1>5, <2>1 DEF Awaited, AwaitsBlock
  <2>3. c \in 1 .. Len(text) + 1
    BY <1>2
  <2>4. ret \in Optional(Trees(text), c, at - 1, 0)
    BY <1>2, <2>2, <2>3, IsPresent
  <2> QED
    BY <1>3, <1>5, <2>1, <2>4
<1> QED
  BY <1>4, <1>5

LEMMA SceneGrows ==
  ASSUME NEW N, NEW b, NEW p, Scene(N, b, p), NEW n, WellFormed(n, N), n.kind \in ExprKinds
  PROVE  Scene(N \cup {n}, b, p) /\ n \in Exprs(N \cup {n}) /\ n \in N \cup {n}
<1>1. Well(N \cup {n}, stack, ret) /\ n \in Exprs(N \cup {n}) /\ n \in N \cup {n}
  BY WellGrows, Grown DEF Scene
<1> QED
  BY <1>1 DEF Scene

LEMMA ForBlockSound ==
  ASSUME NEW N, NEW b, NEW p, Scene(N, b, p), ForBlock
  PROVE  Sound(text, stack', ret', at')
<1> DEFINE post == IF Top.pc = "post" THEN ret ELSE Default(0)
           M == N \cup {post}
           k == Append(Top.kids, post)
           f == Keep(Top, "block", k)
<1>1. PICK pc \in {"semi", "post"} : Running("sfor", pc)
  BY DEF ForBlock
<1>2. Top \in FT(N) /\ Top.fn = "sfor" /\ Top.pc = pc /\ ret \in Exprs(N) /\ at' = at
  BY <1>1, ForKids DEF ForBlock, Scene
<1>3. WellFormed(post, N) /\ post.kind \in ExprKinds
  <2>1. WellFormed(ret, N) /\ ret.kind \in ExprKinds
    BY <1>2 DEF Exprs, Scene, Well, Good
  <2> QED
    BY <2>1, DefaultOK
<1>4. Call(f, "sblock")
  BY <1>2 DEF ForBlock, Keep, FT
<1>5. /\ At(text, p) = "KW_FOR"
      /\ \E g \in p + 1 .. at - 1 : \E h \in g + 1 .. at - 1 :
           /\ At(text, g) = "TK_SEMI" /\ At(text, h) = "TK_SEMI"
           /\ Top.kids[1] \in Optional(Trees(text), p + 1, g - 1, 0)
           /\ Top.kids[2] \in Spells(text, "expr", g + 1, h - 1)
           /\ post \in Optional(Trees(text), h + 1, at - 1, 0)
  BY <1>1, <1>2, PostRead
<1> HIDE DEF post
<1>6. Scene(M, b, p) /\ post \in M
  BY <1>3, SceneGrows
<1> HIDE DEF M
<1>7. k \in Seq(M) /\ k[1] = Top.kids[1] /\ k[2] = Top.kids[2] /\ k[3] = post
  <2>1. pc \in {"cond", "semi", "post"} /\ pc # "cond"
    OBVIOUS
  <2>2. /\ Append(Top.kids, post) \in Seq(M)
        /\ Append(Top.kids, post)[1] = Top.kids[1]
        /\ Append(Top.kids, post)[2] = Top.kids[2] /\ Append(Top.kids, post)[3] = post
    BY <1>1, <1>6, <2>1, KidsMore
  <2> QED
    BY <2>2
<1> HIDE DEF k
<1>8. "block" \in PCs /\ "sblock" \in Callees
  BY DEF PCs, Callees, Functions, Heads
<1>9. f.fn = "sfor" /\ f.pc = "block" /\ f.kids = k
  <2>1. Top \in FT(M)
    BY <1>6, SceneFacts
  <2> QED
    BY <1>2, <1>7, <1>8, <2>1, KeepFacts
<1>10. Awaits(text, f, p, at') /\ Waits(f) /\ Yields("sblock", Awaited(f))
  <2> HIDE DEF f
  <2>1. AwaitsFor(text, f, p, at')
    BY <1>2, <1>5, <1>7, <1>9 DEF AwaitsFor
  <2> QED
    BY <1>9, <2>1 DEF Awaits, AwaitsStmt, AwaitsExpr, Waits, Yields, Awaited, Sorted, AwaitsBlock
<1>11. at' \in at .. Len(text) + 1
  BY <1>2, Stayed
<1> QED
  BY <1>4, <1>6, <1>7, <1>8, <1>10, <1>11, KeepCalls

LEMMA ForEndSound ==
  ASSUME NEW N, NEW b, NEW p, Scene(N, b, p), ForEnd
  PROVE  Sound(text, stack', ret', at')
<1> DEFINE n == NewStFor(Top.kids[1], Top.kids[2], Top.kids[3], ret)
<1>1. Running("sfor", "block") /\ Leave(n) /\ at' = at
  BY DEF ForEnd
<1>2. Top.fn = "sfor" /\ Top.pc = "block"
  BY <1>1 DEF Running
<1>3. PICK c \in p .. at : /\ Awaits(text, Top, p, c)
                           /\ ret \in Spells(text, "block", c, at - 1)
                           /\ c < at - 1 /\ At(text, c) = "TK_OCURLY"
  BY <1>1, BlockRead
<1>4. /\ At(text, p) = "KW_FOR"
      /\ \E g \in p + 1 .. c - 1 : \E h \in g + 1 .. c - 1 :
           /\ At(text, g) = "TK_SEMI" /\ At(text, h) = "TK_SEMI"
           /\ Top.kids[1] \in Optional(Trees(text), p + 1, g - 1, 0)
           /\ Top.kids[2] \in Spells(text, "expr", g + 1, h - 1)
           /\ Top.kids[3] \in Optional(Trees(text), h + 1, c - 1, 0)
  BY <1>2, <1>3 DEF Awaits, AwaitsFor
<1>5. PICK g \in p + 1 .. c - 1 : \E h \in g + 1 .. c - 1 :
           /\ At(text, g) = "TK_SEMI" /\ At(text, h) = "TK_SEMI"
           /\ Top.kids[1] \in Optional(Trees(text), p + 1, g - 1, 0)
           /\ Top.kids[2] \in Spells(text, "expr", g + 1, h - 1)
           /\ Top.kids[3] \in Optional(Trees(text), h + 1, c - 1, 0)
  BY <1>4
<1>6. PICK h \in g + 1 .. c - 1 :
           /\ At(text, g) = "TK_SEMI" /\ At(text, h) = "TK_SEMI"
           /\ Top.kids[1] \in Optional(Trees(text), p + 1, g - 1, 0)
           /\ Top.kids[2] \in Spells(text, "expr", g + 1, h - 1)
           /\ Top.kids[3] \in Optional(Trees(text), h + 1, c - 1, 0)
  BY <1>5
<1>7. /\ Len(text) \in Nat /\ p \in 1 .. Len(text) + 1 /\ at - 1 \in 0 .. Len(text) /\ p <= at - 1
      /\ g \in p + 1 .. (at - 1) - 1 /\ h \in g + 1 .. (at - 1) - 1 /\ c \in h + 1 .. (at - 1) - 1
  BY <1>3, SceneFacts
<1>8. n \in For(text, Trees(text), p, at - 1)
  BY <1>3, <1>6, <1>7, ForIs
<1>9. n \in Spells(text, Sorted[Top.fn], p, at' - 1)
  <2>1. Sorted[Top.fn] = "stmt"
    BY <1>2 DEF Sorted
  <2>2. n \in Spells(text, "stmt", p, at - 1)
    <3>1. At(text, p) = "KW_FOR"
      BY <1>4
    <3>2. Len(text) \in Nat /\ p \in 1 .. Len(text) + 1 /\ at - 1 \in 0 .. Len(text) /\ p <= at - 1
      BY <1>7
    <3> HIDE DEF n
    <3> QED
      BY <1>8, <3>1, <3>2, StmtIs
  <2> QED
    BY <1>1, <2>1, <2>2
<1> QED
  BY <1>1, <1>9, Stayed, LeaveOn

-----------------------------------------------------------------------------
(***************************************************************************)
(* The functions for expressions.                                          *)
(***************************************************************************)
LEMMA DescendSound ==
  ASSUME NEW N, NEW b, NEW p, Scene(N, b, p), Descend
  PROVE  Sound(text, stack', ret', at')
<1> DEFINE f == To(Top, "left")
           fn == Operand[Top.fn]
<1>1. PICK h \in {"eass", "eadd", "emul"} : Running(h, "enter")
  BY DEF Descend, Operand
<1>2. Call(f, fn) /\ at' = at
  BY DEF Descend, To
<1>3. Top.fn = h /\ p = at
  BY <1>1, Entered DEF Enters
<1>4. "left" \in PCs /\ fn \in Callees /\ fn # "sexpr"
  BY <1>3 DEF PCs, Callees, Functions, Heads, Operand
<1>5. f.fn = h /\ f.pc = "left"
  BY <1>3, <1>4, ToFacts
<1>6. fn = Operand[f.fn]
  BY <1>3, <1>5
<1>7. Awaits(text, f, p, at') /\ Waits(f) /\ Yields(fn, Awaited(f))
  <2> HIDE DEF f, fn
  <2> QED
    BY <1>2, <1>3, <1>5, <1>6 DEF Awaits, AwaitsStmt, AwaitsFor, AwaitsExpr, Waits, Yields, Awaited,
                                  AwaitsBlock
<1>8. at' \in at .. Len(text) + 1
  BY <1>2, Stayed
<1> HIDE DEF fn
<1> QED
  BY <1>2, <1>4, <1>7, <1>8, ToCalls

(* The left side of an assignment, or the whole expression. *)
LEMMA LeftRead ==
  ASSUME NEW N, NEW b, NEW p, Scene(N, b, p), Running("eass", "left")
  PROVE  /\ Top.fn = "eass" /\ Top \in FT(N) /\ ret \in Exprs(N)
         /\ ret \in Spells(text, "sum", p, at - 1) /\ p < at
<1>1. Top.fn = "eass" /\ Top.pc = "left" /\ Top \in FT(N) /\ ret \in Exprs(N)
  BY HasExpr DEF Scene, ExprFns
<1>2. PICK c \in p .. at : Awaits(text, Top, p, c) /\ ret \in Spells(text, Awaited(Top), c, at - 1)
  BY Given
<1>3. c = p /\ ret \in Spells(text, "sum", p, at - 1)
  BY <1>1, <1>2 DEF Awaits, AwaitsExpr, Awaited, AwaitsBlock, Operand, Sorted
<1>4. /\ Len(text) \in Nat /\ p \in 1 .. Len(text) + 1 /\ at - 1 \in 0 .. Len(text) /\ at \in Nat
      /\ p \in Nat
  BY SceneFacts
<1>5. p <= at - 1
  BY <1>3, <1>4, NotEmpty
<1> QED
  BY <1>1, <1>3, <1>4, <1>5

LEMMA AssignSound ==
  ASSUME NEW N, NEW b, NEW p, Scene(N, b, p), Assign, phase' = "parsing"
  PROVE  Sound(text, stack', ret', at')
<1> DEFINE k == <<ret>>
           f == Keep(Top, "right", k)
<1>1. Running("eass", "left") /\ Check("TK_ASS") /\ Call(f, "eass")
  BY DEF Assign, Keep
<1>2. IsVariable(ret) /\ Advance
  BY DEF Assign, Advance, Fail
<1>3. /\ Top.fn = "eass" /\ Top \in FT(N) /\ ret \in Exprs(N)
      /\ ret \in Spells(text, "sum", p, at - 1) /\ p < at
  BY <1>1, LeftRead
<1>4. "right" \in PCs /\ "eass" \in Callees
  BY DEF PCs, Callees, Functions, Heads
<1>5. k \in Seq(N) /\ k[1] = ret
  BY <1>3, NodeSets, One
<1> HIDE DEF k
<1>6. f.fn = "eass" /\ f.pc = "right" /\ f.kids = k
  BY <1>3, <1>4, <1>5, KeepFacts
<1>7. At(text, at) = "TK_ASS"
  BY <1>1, SceneFacts DEF Check
<1>8. at' = at + 1 /\ at' \in at .. Len(text) + 1
  BY <1>2, <1>7, Consumed
<1>9. p + 1 < at' /\ at' - 1 = at /\ at' - 2 = at - 1
  BY <1>3, <1>8, SceneFacts
<1>10. AwaitsExpr(text, f, p, at')
  <2>1. /\ At(text, at' - 1) = "TK_ASS" /\ f.kids[1] \in Spells(text, "sum", p, at' - 2)
        /\ IsId(f.kids[1])
    BY <1>2, <1>3, <1>5, <1>6, <1>7, <1>9 DEF IsId, IsVariable
  <2> HIDE DEF f
  <2> QED
    BY <1>6, <1>9, <2>1 DEF AwaitsExpr
<1>11. Awaits(text, f, p, at') /\ Waits(f) /\ Yields("eass", Awaited(f))
  <2> HIDE DEF f
  <2> QED
    BY <1>6, <1>10 DEF Awaits, AwaitsStmt, AwaitsFor, Waits, Yields, Awaited, Sorted, AwaitsBlock
<1> QED
  BY <1>1, <1>4, <1>5, <1>8, <1>11, KeepCalls

LEMMA NoAssignSound ==
  ASSUME NEW N, NEW b, NEW p, Scene(N, b, p), NoAssign
  PROVE  Sound(text, stack', ret', at')
<1>1. Running("eass", "left") /\ Leave(ret) /\ at' = at
  BY DEF NoAssign
<1>2. Top.fn = "eass" /\ ret \in Spells(text, "sum", p, at - 1)
  BY <1>1, LeftRead
<1>3. Len(text) \in Nat /\ p \in 1 .. Len(text) + 1 /\ at - 1 \in 0 .. Len(text)
  BY SceneFacts
<1>4. ret \in Spells(text, Sorted[Top.fn], p, at' - 1)
  <2>1. Spells(text, "sum", p, at - 1) \subseteq Spells(text, "expr", p, at - 1)
    BY <1>3, ExprIs
  <2> QED
    BY <1>1, <1>2, <2>1 DEF Sorted
<1> QED
  BY <1>1, <1>4, Stayed, LeaveOn

LEMMA AssignEndSound ==
  ASSUME NEW N, NEW b, NEW p, Scene(N, b, p), AssignEnd
  PROVE  Sound(text, stack', ret', at')
<1> DEFINE n == NewBinop("BINOP_ASS", Top.kids[1], ret)
<1>1. Running("eass", "right") /\ Leave(n) /\ at' = at
  BY DEF AssignEnd
<1>2. Top.fn = "eass" /\ Top.pc = "right"
  BY <1>1 DEF Running
<1>3. PICK c \in p .. at : Awaits(text, Top, p, c) /\ ret \in Spells(text, Awaited(Top), c, at - 1)
  BY <1>1, Given
<1>4. /\ p + 1 < c /\ At(text, c - 1) = "TK_ASS" /\ IsId(Top.kids[1])
      /\ Top.kids[1] \in Spells(text, "sum", p, c - 2)
      /\ ret \in Spells(text, "expr", c, at - 1)
  BY <1>2, <1>3 DEF Awaits, AwaitsExpr, Awaited, AwaitsBlock
<1>5. Len(text) \in Nat /\ p \in 1 .. Len(text) + 1 /\ at - 1 \in 0 .. Len(text)
        /\ c \in 1 .. Len(text) + 1
  BY <1>3, SceneFacts
<1>6. c <= at - 1
  BY <1>4, <1>5, NotEmpty
<1>7. c - 1 \in p + 1 .. (at - 1) - 1 /\ (c - 1) - 1 = c - 2 /\ (c - 1) + 1 = c
  <2>1. p + 1 < c
    BY <1>4
  <2> QED
    BY <1>5, <1>6, <2>1
<1>8. n \in Spells(text, "expr", p, at - 1)
  BY <1>4, <1>5, <1>7, ExprIs
<1>9. n \in Spells(text, Sorted[Top.fn], p, at' - 1)
  BY <1>1, <1>2, <1>8 DEF Sorted
<1> QED
  BY <1>1, <1>9, Stayed, LeaveOn

(* The operands of one level that have been read. *)
LEMMA LeftSound ==
  ASSUME NEW N, NEW b, NEW p, Scene(N, b, p), InLoop
  PROVE  /\ Top.fn \in {"eadd", "emul"} /\ p < at
         /\ Left \in Spells(text, Sorted[Top.fn], p, at - 1)
<1>1. PICK fn \in {"eadd", "emul"}, pc \in {"left", "right"} : Running(fn, pc)
  BY DEF InLoop, Operators
<1>2. Top.fn = fn /\ Top.pc = pc
  BY <1>1 DEF Running
<1>3. PICK c \in p .. at : Awaits(text, Top, p, c) /\ ret \in Spells(text, Awaited(Top), c, at - 1)
  BY <1>1, Given
<1>4. ret \in Spells(text, Sorted[Operand[fn]], c, at - 1)
  BY <1>2, <1>3 DEF Awaited, AwaitsBlock
<1>5. /\ Len(text) \in Nat /\ p \in 1 .. Len(text) + 1 /\ at - 1 \in 0 .. Len(text)
      /\ c \in 1 .. Len(text) + 1 /\ at \in Nat /\ p \in Nat /\ c \in Nat
  BY <1>3, SceneFacts
<1>6. c <= at - 1 /\ p < at
  <2>1. Sorted[Operand[fn]] \in {"product", "unary"}
    BY DEF Sorted, Operand
  <2>2. c <= at - 1
    BY <1>4, <1>5, <2>1, NotEmpty
  <2> QED
    BY <1>5, <2>2
<1>7. /\ Operand["eadd"] = "emul" /\ Operand["emul"] = "eunary"
      /\ Sorted["eadd"] = "sum" /\ Sorted["emul"] = "product" /\ Sorted["eunary"] = "unary"
      /\ DOMAIN Operators["eadd"] = {"TK_ADD", "TK_SUB"}
      /\ DOMAIN Operators["emul"] = {"TK_MUL", "TK_DIV"}
  BY DEF Operand, Sorted, Operators
<1>8. Joins(text, p, at - 1, Sorted[fn], Sorted[Operand[fn]], DOMAIN Operators[fn])
  <2>1. CASE fn = "eadd"
    <3>1. Joins(text, p, at - 1, "sum", "product", {"TK_ADD", "TK_SUB"})
      BY <1>5, SumIs
    <3> QED
      BY <2>1, <3>1, <1>7
  <2>2. CASE fn = "emul"
    <3>1. Joins(text, p, at - 1, "product", "unary", {"TK_MUL", "TK_DIV"})
      BY <1>5, ProductIs
    <3> QED
      BY <2>2, <3>1, <1>7
  <2> QED
    BY <2>1, <2>2
<1>9. CASE pc = "left"
  <2>1. c = p /\ Left = ret
    BY <1>2, <1>3, <1>9 DEF Awaits, AwaitsExpr, Left
  <2>2. Left \in Spells(text, Sorted[fn], p, at - 1)
    BY <1>4, <1>8, <2>1 DEF Joins
  <2> QED
    BY <1>2, <1>6, <2>2
<1>10. CASE pc = "right"
  <2>1. /\ p + 1 < c /\ At(text, c - 1) \in DOMAIN Operators[fn] /\ Top.op = BinopOf[At(text, c - 1)]
        /\ Top.kids[1] \in Spells(text, Sorted[fn], p, c - 2)
        /\ Left = NewBinop(Top.op, Top.kids[1], ret)
    BY <1>2, <1>3, <1>10 DEF Awaits, AwaitsExpr, Left
  <2>2. c - 1 \in p + 1 .. (at - 1) - 1 /\ (c - 1) - 1 = c - 2 /\ (c - 1) + 1 = c
    BY <1>5, <1>6, <2>1
  <2>3. /\ Top.kids[1] \in Spells(text, Sorted[fn], p, (c - 1) - 1)
        /\ ret \in Spells(text, Sorted[Operand[fn]], (c - 1) + 1, at - 1)
    BY <1>4, <2>1, <2>2
  <2>4. NewBinop(BinopOf[At(text, c - 1)], Top.kids[1], ret) \in Spells(text, Sorted[fn], p, at - 1)
    BY <1>8, <2>1, <2>2, <2>3 DEF Joins
  <2> QED
    BY <1>2, <1>6, <2>1, <2>4
<1> QED
  BY <1>9, <1>10

LEMMA OperatorSound ==
  ASSUME NEW N, NEW b, NEW p, Scene(N, b, p), Operator
  PROVE  Sound(text, stack', ret', at')
<1> DEFINE M == N \cup {Left}
           k == <<Left>>
           o == Operators[Top.fn][CTok.kind]
           f == Join(Top, "right", k, o)
           fn == Operand[Top.fn]
<1>1. InLoop /\ CTok.kind \in DOMAIN Operators[Top.fn] /\ Call(f, fn) /\ Advance
  BY DEF Operator, Join
<1>2. /\ Top.fn \in {"eadd", "emul"} /\ p < at
      /\ Left \in Spells(text, Sorted[Top.fn], p, at - 1)
  BY <1>1, LeftSound
<1>3. WellFormed(Left, N) /\ Left.kind \in ExprKinds
  BY <1>1, LeftOK DEF Scene
<1>4. Scene(M, b, p) /\ Left \in M
  BY <1>3, SceneGrows
<1> HIDE DEF M
<1>5. At(text, at) \in DOMAIN Operators[Top.fn] /\ o = BinopOf[At(text, at)] /\ o \in ArithKind
  BY <1>1, <1>2, SceneFacts DEF Operators, BinopOf, ArithKind
<1>6. fn \in Callees /\ fn # "sexpr" /\ "right" \in PCs
  BY <1>2 DEF Operand, Functions, Callees, Heads, PCs
<1>7. k \in Seq(M) /\ k[1] = Left
  BY <1>4, One
<1> HIDE DEF k, o
<1>8. f \in FT(M) /\ f.fn = Top.fn /\ f.pc = "right" /\ f.kids = k /\ f.op = o
  <2>1. Top \in FT(M)
    BY <1>4, SceneFacts
  <2> QED
    BY <1>5, <1>6, <1>7, <2>1, Update DEF Updated
<1>9. At(text, at) # "TK_EOF"
  BY <1>2, <1>5 DEF Operators
<1>10. at' = at + 1 /\ at' \in at .. Len(text) + 1
  BY <1>1, <1>9, Consumed
<1>11. p + 1 < at' /\ at' - 1 = at /\ at' - 2 = at - 1
  BY <1>2, <1>10, SceneFacts
<1>12. AwaitsExpr(text, f, p, at')
  <2>1. /\ At(text, at' - 1) \in DOMAIN Operators[f.fn] /\ f.op = BinopOf[At(text, at' - 1)]
        /\ f.kids[1] \in Spells(text, Sorted[f.fn], p, at' - 2)
    BY <1>2, <1>5, <1>7, <1>8, <1>11
  <2> HIDE DEF f
  <2> QED
    BY <1>2, <1>8, <1>11, <2>1 DEF AwaitsExpr
<1>13. fn = Operand[f.fn]
  BY <1>8
<1>14. Awaits(text, f, p, at') /\ Waits(f) /\ Yields(fn, Awaited(f))
  <2> HIDE DEF f, fn
  <2> QED
    BY <1>2, <1>8, <1>12, <1>13 DEF Awaits, AwaitsStmt, AwaitsFor, Waits, Yields, Awaited, AwaitsBlock
<1> HIDE DEF f, fn
<1> QED
  BY <1>1, <1>4, <1>6, <1>8, <1>10, <1>14, CallOn

LEMMA NoOperatorSound ==
  ASSUME NEW N, NEW b, NEW p, Scene(N, b, p), NoOperator
  PROVE  Sound(text, stack', ret', at')
<1>1. InLoop /\ Leave(Left) /\ at' = at
  BY DEF NoOperator
<1>2. Left \in Spells(text, Sorted[Top.fn], p, at' - 1)
  BY <1>1, LeftSound
<1> QED
  BY <1>1, <1>2, Stayed, LeaveOn

-----------------------------------------------------------------------------
(* One more plus. *)
LEMMA PlusMore ==
  ASSUME NEW T, Len(T) \in Nat, NEW i \in 1 .. Len(T) + 1, NEW c \in 1 .. Len(T),
         Pluses(T, i, c), At(T, c) = "TK_ADD"
  PROVE  Pluses(T, i, c + 1)
<1>1. i <= c + 1
  BY DEF Pluses
<1>2. ASSUME NEW j \in 0 .. Len(T), NEW n \in Spells(T, "unary", c + 1, j)
      PROVE  n \in Spells(T, "unary", i, j)
  <2>1. c + 1 \in 1 .. Len(T) + 1 /\ c \in 1 .. Len(T) + 1
    OBVIOUS
  <2>2. c + 1 <= j
    BY <1>2, <2>1, NotEmpty
  <2>3. Spells(T, "unary", c, j) = Spells(T, "unary", c + 1, j)
    BY <2>1, <2>2, UnaryIs
  <2> QED
    BY <1>2, <2>3 DEF Pluses
<1> QED
  BY <1>1, <1>2 DEF Pluses

LEMMA UnaryPlusSound ==
  ASSUME NEW N, NEW b, NEW p, Scene(N, b, p), UnaryPlus
  PROVE  Sound(text, stack', ret', at')
<1>1. Running("eunary", "enter") /\ Check("TK_ADD") /\ Advance /\ stack' = stack
  BY DEF UnaryPlus
<1>2. Top.fn = "eunary" /\ Pluses(text, p, at) /\ Top.pc = "enter"
  BY <1>1, Entered DEF Enters, Running
<1>3. At(text, at) = "TK_ADD"
  BY <1>1, SceneFacts DEF Check
<1>4. at' = at + 1 /\ at' \in at .. Len(text) + 1
  BY <1>1, <1>3, Consumed
<1>5. Pluses(text, p, at')
  <2>1. Len(text) \in Nat /\ p \in 1 .. Len(text) + 1 /\ at \in 1 .. Len(text)
    BY <1>3, SceneFacts
  <2> QED
    BY <1>2, <1>3, <1>4, <2>1, PlusMore
<1>6. Ready(text, Top, p, at', ret')
  BY <1>2, <1>5 DEF Ready, Enters, Heads
<1> QED
  BY <1>1, <1>4, <1>6, StayOn

LEMMA UnaryMinusSound ==
  ASSUME NEW N, NEW b, NEW p, Scene(N, b, p), UnaryMinus
  PROVE  Sound(text, stack', ret', at')
<1> DEFINE f == To(Top, "minus")
<1>1. Running("eunary", "enter") /\ Check("TK_SUB") /\ Advance /\ Call(f, "eunary")
  BY DEF UnaryMinus, To
<1>2. Top.fn = "eunary" /\ Pluses(text, p, at)
  BY <1>1, Entered DEF Enters
<1>3. "minus" \in PCs /\ "eunary" \in Callees
  BY DEF PCs, Callees, Functions, Heads
<1>4. f.fn = "eunary" /\ f.pc = "minus"
  BY <1>2, <1>3, ToFacts
<1>5. At(text, at) = "TK_SUB"
  BY <1>1, SceneFacts DEF Check
<1>6. at' = at + 1 /\ at' \in at .. Len(text) + 1
  BY <1>1, <1>5, Consumed
<1>7. at' - 1 = at
  BY <1>6, SceneFacts
<1>8. Awaits(text, f, p, at') /\ Waits(f) /\ Yields("eunary", Awaited(f))
  <2> HIDE DEF f
  <2> QED
    BY <1>2, <1>4, <1>5, <1>7 DEF Awaits, AwaitsStmt, AwaitsFor, AwaitsExpr, Waits, Yields, Awaited,
                                  Sorted, AwaitsBlock
<1> QED
  BY <1>1, <1>3, <1>6, <1>8, ToCalls

LEMMA UnaryMinusEndSound ==
  ASSUME NEW N, NEW b, NEW p, Scene(N, b, p), UnaryMinusEnd
  PROVE  Sound(text, stack', ret', at')
<1> DEFINE n == NewUnary("UNAOP_NEG", ret)
<1>1. Running("eunary", "minus") /\ Leave(n) /\ at' = at
  BY DEF UnaryMinusEnd
<1>2. Top.fn = "eunary" /\ Top.pc = "minus"
  BY <1>1 DEF Running
<1>3. PICK c \in p .. at : Awaits(text, Top, p, c) /\ ret \in Spells(text, Awaited(Top), c, at - 1)
  BY <1>1, Given
<1>4. At(text, c - 1) = "TK_SUB" /\ Pluses(text, p, c - 1) /\ ret \in Spells(text, "unary", c, at - 1)
  BY <1>2, <1>3 DEF Awaits, AwaitsExpr, Awaited, AwaitsBlock
<1>5. /\ Len(text) \in Nat /\ p \in 1 .. Len(text) + 1 /\ at - 1 \in 0 .. Len(text)
      /\ c \in 1 .. Len(text) + 1 /\ p <= c - 1 /\ c \in Nat /\ p \in Nat
  BY <1>3, <1>4, SceneFacts DEF Pluses
<1>6. c <= at - 1
  BY <1>4, <1>5, NotEmpty
<1>7. c - 1 \in 1 .. Len(text) + 1 /\ ~(c - 1 > at - 1) /\ (c - 1) + 1 = c
  BY <1>5, <1>6
<1>8. n \in Spells(text, "unary", c - 1, at - 1)
  <2>1. Spells(text, "unary", c - 1, at - 1)
          = {NewUnary("UNAOP_NEG", m) : m \in Spells(text, "unary", (c - 1) + 1, at - 1)}
    BY <1>4, <1>5, <1>7, UnaryIs
  <2> QED
    BY <1>4, <1>7, <2>1
<1>9. n \in Spells(text, "unary", p, at - 1)
  BY <1>4, <1>5, <1>8 DEF Pluses
<1>10. n \in Spells(text, Sorted[Top.fn], p, at' - 1)
  BY <1>1, <1>2, <1>9 DEF Sorted
<1> QED
  BY <1>1, <1>10, Stayed, LeaveOn

LEMMA UnaryPrimarySound ==
  ASSUME NEW N, NEW b, NEW p, Scene(N, b, p), UnaryPrimary
  PROVE  Sound(text, stack', ret', at')
<1> DEFINE f == To(Top, "postfix")
<1>1. /\ Running("eunary", "enter") /\ ~Check("TK_ADD") /\ ~Check("TK_SUB")
      /\ Call(f, "eprimary") /\ at' = at
  BY DEF UnaryPrimary, To
<1>2. Top.fn = "eunary" /\ Pluses(text, p, at)
  BY <1>1, Entered DEF Enters
<1>3. "postfix" \in PCs /\ "eprimary" \in Callees
  BY DEF PCs, Callees, Functions, Heads
<1>4. f.fn = "eunary" /\ f.pc = "postfix"
  BY <1>2, <1>3, ToFacts
<1>5. At(text, at) \notin {"TK_ADD", "TK_SUB"}
  BY <1>1, SceneFacts DEF Check
<1>6. at' \in at .. Len(text) + 1
  BY <1>1, Stayed
<1>7. Awaits(text, f, p, at') /\ Waits(f) /\ Yields("eprimary", Awaited(f))
  <2> HIDE DEF f
  <2> QED
    BY <1>1, <1>2, <1>4, <1>5 DEF Awaits, AwaitsStmt, AwaitsFor, AwaitsExpr, Waits, Yields, Awaited,
                                  Sorted, AwaitsBlock
<1> QED
  BY <1>1, <1>3, <1>6, <1>7, ToCalls

(* The operand that stands before the postfix operators. *)
LEMMA OperandRead ==
  ASSUME NEW N, NEW b, NEW p, Scene(N, b, p), Running("eunary", "postfix")
  PROVE  /\ Top.fn = "eunary" /\ Top.pc = "postfix"
         /\ \E c \in p .. at :
              /\ c \in 1 .. Len(text) + 1 /\ c < at
              /\ Awaits(text, Top, p, c) /\ ret \in Spells(text, "operand", c, at - 1)
              /\ Pluses(text, p, c) /\ At(text, c) \notin {"TK_ADD", "TK_SUB"}
<1>1. Top.fn = "eunary" /\ Top.pc = "postfix"
  BY DEF Running
<1>2. PICK c \in p .. at : Awaits(text, Top, p, c) /\ ret \in Spells(text, Awaited(Top), c, at - 1)
  BY Given
<1>3. /\ Pluses(text, p, c) /\ At(text, c) \notin {"TK_ADD", "TK_SUB"}
      /\ ret \in Spells(text, "operand", c, at - 1)
  BY <1>1, <1>2 DEF Awaits, AwaitsExpr, Awaited, AwaitsBlock
<1>4. Len(text) \in Nat /\ at - 1 \in 0 .. Len(text) /\ c \in 1 .. Len(text) + 1 /\ at \in Nat
  BY <1>2, SceneFacts
<1>5. c <= at - 1
  BY <1>3, <1>4, NotEmpty
<1> QED
  BY <1>1, <1>2, <1>3, <1>4, <1>5

LEMMA PostfixSound ==
  ASSUME NEW N, NEW b, NEW p, Scene(N, b, p), Postfix
  PROVE  Sound(text, stack', ret', at')
<1> DEFINE n == NewUnary(PostfixOps[CTok.kind], ret)
<1>1. Running("eunary", "postfix") /\ IsPostfix /\ Advance /\ ret' = n /\ stack' = stack
  BY DEF Postfix
<1>2. /\ At(text, at) \in DOMAIN UnaopOf /\ ~StartsExpr(At(text, at + 1))
      /\ n = NewUnary(UnaopOf[At(text, at)], ret)
  BY <1>1, SceneFacts DEF IsPostfix, PostfixOps, UnaopOf
<1>3. at' = at + 1 /\ at' \in at .. Len(text) + 1
  BY <1>1, <1>2, Consumed DEF UnaopOf
<1>4. Top.fn = "eunary" /\ Top.pc = "postfix"
  BY <1>1, OperandRead
<1>5. PICK c \in p .. at :
        /\ c \in 1 .. Len(text) + 1 /\ c < at
        /\ Awaits(text, Top, p, c) /\ ret \in Spells(text, "operand", c, at - 1)
  BY <1>1, OperandRead
<1>6. Len(text) \in Nat /\ at \in 0 .. Len(text) /\ at \in Nat /\ p \in Nat /\ at' - 1 = at
        /\ c \in p .. at'
  BY <1>2, <1>3, SceneFacts DEF UnaopOf
<1>7. n \in Spells(text, "operand", c, at)
  <2>1. Spells(text, "operand", c, at)
          = {NewUnary(UnaopOf[At(text, at)], m) : m \in Spells(text, "operand", c, at - 1)}
    BY <1>2, <1>5, <1>6, PostfixedIs
  <2> QED
    BY <1>2, <1>5, <2>1
<1>8. Awaited(Top) = "operand" /\ Waits(Top)
  BY <1>4 DEF Awaited, AwaitsBlock, Waits
<1>9. Ready(text, Top, p, at', ret')
  <2>1. Has(text, Top, p, at', ret')
    BY <1>1, <1>5, <1>6, <1>7, <1>8 DEF Has
  <2> QED
    BY <1>4, <1>8, <2>1 DEF Ready
<1> QED
  BY <1>1, <1>3, <1>9, StayOn

LEMMA NoPostfixSound ==
  ASSUME NEW N, NEW b, NEW p, Scene(N, b, p), NoPostfix
  PROVE  Sound(text, stack', ret', at')
<1>1. Running("eunary", "postfix") /\ Leave(ret) /\ at' = at
  BY DEF NoPostfix
<1>2. Top.fn = "eunary"
  BY <1>1, OperandRead
<1>3. PICK c \in p .. at :
        /\ c \in 1 .. Len(text) + 1 /\ c < at /\ ret \in Spells(text, "operand", c, at - 1)
        /\ Pluses(text, p, c) /\ At(text, c) \notin {"TK_ADD", "TK_SUB"}
  BY <1>1, OperandRead
<1>4. Len(text) \in Nat /\ at - 1 \in 0 .. Len(text) /\ at \in Nat /\ ~(c > at - 1)
  BY <1>3, SceneFacts
<1>5. ret \in Spells(text, "unary", c, at - 1)
  BY <1>3, <1>4, UnaryIs
<1>6. ret \in Spells(text, Sorted[Top.fn], p, at' - 1)
  BY <1>1, <1>2, <1>3, <1>4, <1>5 DEF Sorted, Pluses
<1> QED
  BY <1>1, <1>6, Stayed, LeaveOn

LEMMA ParenOpenSound ==
  ASSUME NEW N, NEW b, NEW p, Scene(N, b, p), ParenOpen
  PROVE  Sound(text, stack', ret', at')
<1> DEFINE f == Open(Top, "paren", at)
<1>1. Running("eprimary", "enter") /\ Check("TK_OPAREN") /\ Advance /\ Call(f, "eass")
  BY DEF ParenOpen, Open
<1>2. At(text, at) = "TK_OPAREN" /\ Top \in FT(N) /\ at \in Nat
  BY <1>1, SceneFacts DEF Check
<1>3. Top.fn = "eprimary" /\ p = at
  BY <1>1, Entered DEF Enters
<1>4. "paren" \in PCs /\ "eass" \in Callees
  BY DEF PCs, Callees, Functions, Heads
<1>5. f \in FT(N) /\ f.fn = "eprimary" /\ f.pc = "paren"
  BY <1>2, <1>3, <1>4, Update DEF Updated
<1>6. at' = at + 1 /\ at' \in at .. Len(text) + 1
  BY <1>1, <1>2, Consumed
<1> HIDE DEF f
<1>7. Awaits(text, f, p, at') /\ Waits(f) /\ Yields("eass", Awaited(f))
  BY <1>2, <1>3, <1>5, <1>6 DEF Awaits, AwaitsStmt, AwaitsFor, AwaitsExpr, Waits, Yields, Awaited,
                                Sorted, AwaitsBlock
<1> QED
  BY <1>1, <1>3, <1>4, <1>5, <1>6, <1>7, CallOn

LEMMA ParenCloseSound ==
  ASSUME NEW N, NEW b, NEW p, Scene(N, b, p), ParenClose
  PROVE  Sound(text, stack', ret', at')
<1>1. Running("eprimary", "paren") /\ Check("TK_CPAREN") /\ Advance /\ Leave(ret)
  BY DEF ParenClose
<1>2. Top.fn = "eprimary" /\ Top.pc = "paren"
  BY <1>1 DEF Running
<1>3. At(text, at) = "TK_CPAREN"
  BY <1>1, SceneFacts DEF Check
<1>4. at' = at + 1 /\ at' \in at .. Len(text) + 1
  BY <1>1, <1>3, Consumed
<1>5. PICK c \in p .. at : Awaits(text, Top, p, c) /\ ret \in Spells(text, Awaited(Top), c, at - 1)
  BY <1>1, Given
<1>6. c = p + 1 /\ At(text, p) = "TK_OPAREN" /\ ret \in Spells(text, "expr", p + 1, at - 1)
  BY <1>2, <1>5 DEF Awaits, AwaitsExpr, Awaited, AwaitsBlock
<1>7. /\ Len(text) \in Nat /\ p \in 1 .. Len(text) + 1 /\ at \in 0 .. Len(text) /\ p < at
      /\ at' - 1 = at /\ at \in Nat /\ p \in Nat
  BY <1>3, <1>4, <1>5, <1>6, SceneFacts
<1>8. At(text, at) \notin DOMAIN UnaopOf
  BY <1>3 DEF UnaopOf
<1>9. ret \in Spells(text, "operand", p, at)
  BY <1>3, <1>6, <1>7, <1>8, PostfixedIs
<1>10. ret \in Spells(text, Sorted[Top.fn], p, at' - 1)
  BY <1>2, <1>7, <1>9 DEF Sorted
<1> QED
  BY <1>1, <1>4, <1>10, LeaveOn

LEMMA LiteralSound ==
  ASSUME NEW N, NEW b, NEW p, Scene(N, b, p), Literal
  PROVE  Sound(text, stack', ret', at')
<1> DEFINE n == NewLit(Literals[CTok.kind], CTok.str)
<1>1. /\ Running("eprimary", "enter") /\ CTok.kind \in {"TK_ID", "TK_INT"} /\ Advance /\ Leave(n)
  BY DEF Literal, Literals
<1>2. Top.fn = "eprimary" /\ p = at
  BY <1>1, Entered DEF Enters
<1>3. At(text, at) \in {"TK_ID", "TK_INT"} /\ CTok = text[at]
  BY <1>1, SceneFacts
<1>4. at' = at + 1 /\ at' \in at .. Len(text) + 1
  BY <1>1, <1>3, Consumed
<1>5. n \in LiteralOf(text[at])
  BY <1>1, <1>3 DEF LiteralOf, Literals
<1>6. /\ Len(text) \in Nat /\ at \in 1 .. Len(text) + 1 /\ at \in 0 .. Len(text) /\ at \in Nat
      /\ at' - 1 = at
  BY <1>3, <1>4, SceneFacts
<1> HIDE DEF n
<1>7. n \in Spells(text, "operand", at, at)
  BY <1>5, <1>6, PostfixedIs
<1>8. n \in Spells(text, Sorted[Top.fn], p, at' - 1)
  BY <1>2, <1>6, <1>7 DEF Sorted
<1> QED
  BY <1>1, <1>4, <1>8, LeaveOn

-----------------------------------------------------------------------------
LEMMA FailingSteps ==
  /\ BlockExpected \/ BlockUnclosed \/ SemiExpected => phase' # "parsing"
  /\ ParenUnclosed \/ ExprExpected => phase' # "parsing"
BY DEF BlockExpected, BlockUnclosed, SemiExpected, ParenUnclosed, ExprExpected, Expected, Unclosed,
       Fail

LEMMA StmtSound ==
  ASSUME NEW N, NEW b, NEW p, Scene(N, b, p), StmtStep, phase' = "parsing"
  PROVE  Sound(text, stack', ret', at')
<1>1. SStmt \/ BlockOpen \/ BlockStmt \/ BlockClose => Sound(text, stack', ret', at')
  BY SStmtSound, BlockOpenSound, BlockStmtSound, BlockCloseSound
<1>2. SExpr \/ SReturn \/ SExprEnd \/ SReturnEnd => Sound(text, stack', ret', at')
  BY SExprSound, SReturnSound, SemiSound
<1>3. SIf \/ IfBlock \/ IfElse \/ IfEnd \/ IfElseEnd => Sound(text, stack', ret', at')
  BY SIfSound, IfBlockSound, IfElseSound, IfEndSound, IfElseEndSound
<1>4. SFor \/ ForDefault \/ ForInit \/ ForCond => Sound(text, stack', ret', at')
  BY SForSound, ForDefaultSound, ForInitSound, ForCondSound
<1>5. WhileBlock \/ WhileEnd \/ ForSemi => Sound(text, stack', ret', at')
  BY WhileBlockSound, WhileEndSound, ForSemiSound
<1>6. ForPost \/ ForBlock \/ ForEnd => Sound(text, stack', ret', at')
  BY ForPostSound, ForBlockSound, ForEndSound
<1> QED
  BY <1>1, <1>2, <1>3, <1>4, <1>5, <1>6, FailingSteps DEF StmtStep

LEMMA ExprSound ==
  ASSUME NEW N, NEW b, NEW p, Scene(N, b, p), ExprStep, phase' = "parsing"
  PROVE  Sound(text, stack', ret', at')
<1>1. Descend \/ Assign \/ NoAssign \/ AssignEnd => Sound(text, stack', ret', at')
  BY DescendSound, AssignSound, NoAssignSound, AssignEndSound
<1>2. Operator \/ NoOperator => Sound(text, stack', ret', at')
  BY OperatorSound, NoOperatorSound
<1>3. UnaryPlus \/ UnaryMinus \/ UnaryMinusEnd \/ UnaryPrimary => Sound(text, stack', ret', at')
  BY UnaryPlusSound, UnaryMinusSound, UnaryMinusEndSound, UnaryPrimarySound
<1>4. Postfix \/ NoPostfix => Sound(text, stack', ret', at')
  BY PostfixSound, NoPostfixSound
<1>5. ParenOpen \/ ParenClose \/ Literal => Sound(text, stack', ret', at')
  BY ParenOpenSound, ParenCloseSound, LiteralSound
<1> QED
  BY <1>1, <1>2, <1>3, <1>4, <1>5, FailingSteps DEF ExprStep

(* The invariant: all that has been read is derived. *)
DerivationInv ==
  /\ phase = "parsing" => Sound(text, stack, ret, at)
  /\ phase = "done" => ret \in Programs(text)

LEMMA StartSound == ParseStart /\ text \in Texts /\ phase' = "parsing" => Sound(text, stack', ret', at')
<1> SUFFICES ASSUME ParseStart, text \in Texts PROVE Sound(text, stack', ret', at')
  OBVIOUS
<1> DEFINE s == <<Frame("sstmt")>>
           b == <<1>>
<1>1. stack' = s /\ at' = 1
  BY DEF ParseStart
<1>2. 1 \in 1 .. Len(text) + 1
  <2>1. Len(text) \in Nat
    BY TokenKinds
  <2> QED
    BY <2>1
<1>3. /\ Frame("sstmt").fn = "sstmt" /\ Frame("sstmt").pc = "enter"
      /\ Len(s) = 1 /\ s[1] = Frame("sstmt") /\ Last(s) = Frame("sstmt") /\ s # << >>
  BY DEF Frame, Last
<1>4. b \in Seq(Nat) /\ Len(b) = 1 /\ b[1] = 1
  OBVIOUS
<1> HIDE DEF s, b
<1>5. Placed(text, s, b, 1)
  <2>1. \A k \in 1 .. Len(s) : k = 1
    BY <1>3
  <2>2. \A k \in 1 .. Len(s) - 1 : FALSE
    BY <1>3
  <2>3. Yields("sstmt", "stmt")
    BY DEF Yields, Sorted
  <2> QED
    BY <1>3, <1>4, <2>1, <2>2, <2>3 DEF Placed
<1>6. Ready(text, Last(s), b[Len(s)], 1, ret')
  BY <1>3, <1>4 DEF Ready, Enters, Heads
<1> QED
  BY <1>1, <1>2, <1>3, <1>5, <1>6 DEF Sound

(* The end of file is the only token past the text. *)
LEMMA EndSound ==
  ASSUME text \in Texts, Sound(text, stack, ret, at), ParseEnd, phase' = "done"
  PROVE  ret' \in Programs(text')
<1>1. stack = << >> /\ Check("TK_EOF") /\ ret' = ret /\ text' = text
  BY DEF ParseEnd, Fail
<1>2. /\ Len(text) \in Nat /\ at \in 1 .. Len(text) + 1 /\ ret \in Spells(text, "stmt", 1, at - 1)
  BY <1>1, TokenKinds DEF Sound
<1>3. at = Len(text) + 1
  <2>1. \A k \in 1 .. Len(text) : text[k].kind # "TK_EOF"
    BY TokenKinds
  <2> QED
    BY <1>1, <1>2, <2>1 DEF Check, CTok, Tok
<1>4. at - 1 = Len(text)
  BY <1>2, <1>3
<1> QED
  BY <1>1, <1>2, <1>4 DEF Programs, Spells

LEMMA TopScene ==
  ASSUME NEW N, Well(N, stack, ret), text \in Texts, Sound(text, stack, ret, at), stack # << >>
  PROVE  \E b, p : Scene(N, b, p)
<1>1. PICK b : Placed(text, stack, b, at) /\ Ready(text, Last(stack), b[Len(stack)], at, ret)
  BY DEF Sound
<1>2. at \in 1 .. Len(text) + 1
  BY DEF Sound
<1>3. Scene(N, b, b[Len(stack)])
  BY <1>1, <1>2 DEF Scene, Top
<1> QED
  BY <1>3

LEMMA StepRuns == StmtStep \/ ExprStep => stack # << >> /\ text' = text
<1> USE DEF Running
<1>1. StmtStep => stack # << >>
  <2>1. SStmt \/ BlockOpen \/ BlockExpected \/ BlockStmt \/ BlockClose \/ BlockUnclosed => stack # << >>
    BY DEF SStmt, BlockOpen, BlockExpected, BlockStmt, BlockClose, BlockUnclosed, InBlock
  <2>2. SExpr \/ SExprEnd \/ SReturn \/ SReturnEnd \/ SemiExpected => stack # << >>
    BY DEF SExpr, SExprEnd, SReturn, SReturnEnd, SemiExpected, Semi
  <2>3. SIf \/ IfBlock \/ IfElse \/ IfEnd \/ IfElseEnd => stack # << >>
    BY DEF SIf, IfBlock, IfElse, IfEnd, IfElseEnd
  <2>4. SFor \/ ForDefault \/ ForInit \/ ForCond \/ WhileBlock \/ WhileEnd => stack # << >>
    BY DEF SFor, ForDefault, ForInit, ForCond, WhileBlock, WhileEnd
  <2>5. ForSemi \/ ForPost \/ ForBlock \/ ForEnd => stack # << >>
    BY DEF ForSemi, ForPost, ForBlock, ForEnd
  <2> QED
    BY <2>1, <2>2, <2>3, <2>4, <2>5 DEF StmtStep
<1>2. ExprStep => stack # << >>
  <2>1. Descend \/ Assign \/ NoAssign \/ AssignEnd \/ Operator \/ NoOperator => stack # << >>
    BY DEF Descend, Assign, NoAssign, AssignEnd, Operator, NoOperator, InLoop
  <2>2. UnaryPlus \/ UnaryMinus \/ UnaryMinusEnd \/ UnaryPrimary \/ Postfix \/ NoPostfix
          => stack # << >>
    BY DEF UnaryPlus, UnaryMinus, UnaryMinusEnd, UnaryPrimary, Postfix, NoPostfix
  <2>3. ParenOpen \/ ParenClose \/ ParenUnclosed \/ Literal \/ ExprExpected => stack # << >>
    BY DEF ParenOpen, ParenClose, ParenUnclosed, Literal, ExprExpected
  <2> QED
    BY <2>1, <2>2, <2>3 DEF ExprStep
<1> QED
  BY <1>1, <1>2, StmtMoves, ExprMoves DEF Moves

LEMMA DerivationStep == DerivationInv /\ TInv /\ AInv /\ Next => DerivationInv'
<1> SUFFICES ASSUME DerivationInv, TInv, AInv, Next PROVE DerivationInv'
  OBVIOUS
<1>1. text \in Texts
  BY DEF AInv
<1>2. CASE ParseStart
  <2>1. phase' # "done" /\ text' = text
    BY <1>2, PhaseMoves DEF ParseStart
  <2> QED
    BY <1>1, <1>2, <2>1, StartSound DEF DerivationInv
<1>3. CASE StmtStep \/ ExprStep
  <2>1. phase = "parsing" /\ phase' # "done"
    BY <1>3, StmtMoves, ExprMoves, PhaseMoves
  <2>2. stack # << >> /\ text' = text
    BY <1>3, StepRuns
  <2>3. PICK N : Well(N, stack, ret)
    BY <2>1 DEF TInv
  <2>4. PICK b, p : Scene(N, b, p)
    BY <1>1, <2>1, <2>2, <2>3, TopScene DEF DerivationInv
  <2>5. phase' = "parsing" => Sound(text, stack', ret', at')
    BY <1>3, <2>4, StmtSound, ExprSound
  <2> QED
    BY <2>1, <2>2, <2>5 DEF DerivationInv
<1>4. CASE ParseEnd
  <2>1. phase = "parsing" /\ phase' # "parsing"
    BY <1>4, PhaseMoves DEF ParseEnd, Fail
  <2>2. phase' = "done" => ret' \in Programs(text')
    BY <1>1, <1>4, <2>1, EndSound DEF DerivationInv
  <2> QED
    BY <2>1, <2>2 DEF DerivationInv
<1> QED
  BY <1>2, <1>3, <1>4 DEF Next

-----------------------------------------------------------------------------
(***************************************************************************)
(* What the frames of the parser have still to read, if what they return   *)
(* is to be a given tree of the grammar.                                   *)
(***************************************************************************)
(* The operands without a postfix operator. *)
Primary(T, i, j) ==
  IF i = j THEN LiteralOf(T[i])
  ELSE IF i < j /\ At(T, i) = "TK_OPAREN" /\ At(T, j) = "TK_CPAREN" THEN Spells(T, "expr", i + 1, j - 1)
  ELSE {}

(* What a function that begins at i may return, ending at j. *)
Goal(T, fn, i, j) == IF fn = "eprimary" THEN Primary(T, i, j) ELSE Spells(T, Sorted[fn], i, j)

(* One turn of a loop: the tree l, which ends at d, becomes n, which ends at j. *)
Links(T, fn, d, l, j, n) ==
  /\ fn \in {"eadd", "emul"} =>
       /\ At(T, d + 1) \in DOMAIN Operators[fn] /\ d + 2 <= j
       /\ \E r \in Spells(T, Sorted[Operand[fn]], d + 2, j) : n = NewBinop(BinopOf[At(T, d + 1)], l, r)
  /\ fn = "eunary" =>
       /\ j = d + 1 /\ At(T, j) \in DOMAIN UnaopOf /\ ~StartsExpr(At(T, j + 1))
       /\ n = NewUnary(UnaopOf[At(T, j)], l)
  /\ fn = "sblock" => d + 1 <= j /\ \E s \in Spells(T, "stmt", d + 1, j) : n = Append(l, s)

(* Any number of turns. *)
Leads(T, fn, d, l, j, n) ==
  \E m \in Nat \ {0} : \E e, t :
    /\ e[1] = d /\ t[1] = l /\ e[m] = j /\ t[m] = n
    /\ \A k \in 1 .. m : e[k] \in 0 .. j
    /\ \A k \in 1 .. m - 1 : Links(T, fn, e[k], t[k], e[k + 1], t[k + 1])

LEMMA LeadsSelf ==
  ASSUME NEW T, NEW fn, NEW j \in Nat, NEW n
  PROVE  Leads(T, fn, j, n, j, n)
<1> DEFINE e == <<j>>
           t == <<n>>
<1>1. /\ e[1] = j /\ t[1] = n
      /\ \A k \in 1 .. 1 : e[k] \in 0 .. j
      /\ \A k \in 1 .. 1 - 1 : FALSE
  OBVIOUS
<1>2. 1 \in Nat \ {0}
  OBVIOUS
<1> HIDE DEF e, t
<1> QED
  BY <1>1, <1>2 DEF Leads

LEMMA LeadsMore ==
  ASSUME NEW T, NEW fn, NEW d, NEW l, NEW c \in Nat, NEW r, Leads(T, fn, d, l, c, r),
         NEW j \in Nat, c <= j, NEW n, Links(T, fn, c, r, j, n)
  PROVE  Leads(T, fn, d, l, j, n)
<1>0. PICK m \in Nat \ {0} : \E e, t :
        /\ e[1] = d /\ t[1] = l /\ e[m] = c /\ t[m] = r
        /\ \A k \in 1 .. m : e[k] \in 0 .. c
        /\ \A k \in 1 .. m - 1 : Links(T, fn, e[k], t[k], e[k + 1], t[k + 1])
  BY DEF Leads
<1>1. PICK e, t :
        /\ e[1] = d /\ t[1] = l /\ e[m] = c /\ t[m] = r
        /\ \A k \in 1 .. m : e[k] \in 0 .. c
        /\ \A k \in 1 .. m - 1 : Links(T, fn, e[k], t[k], e[k + 1], t[k + 1])
  BY <1>0
<1> DEFINE f == [k \in 1 .. m + 1 |-> IF k <= m THEN e[k] ELSE j]
           u == [k \in 1 .. m + 1 |-> IF k <= m THEN t[k] ELSE n]
<1>2. (\A k \in 1 .. m : f[k] = e[k] /\ u[k] = t[k]) /\ f[m + 1] = j /\ u[m + 1] = n
  OBVIOUS
<1> HIDE DEF f, u
<1>3. m + 1 \in Nat \ {0} /\ f[1] = d /\ u[1] = l
  BY <1>1, <1>2
<1>4. ASSUME NEW k \in 1 .. m + 1 PROVE f[k] \in 0 .. j
  <2>1. CASE k \in 1 .. m
    <3>1. e[k] \in 0 .. c
      BY <1>1, <2>1
    <3> QED
      BY <1>2, <2>1, <3>1
  <2>2. CASE k = m + 1
    BY <1>2, <2>2
  <2> QED
    BY <2>1, <2>2
<1>5. ASSUME NEW k \in 1 .. (m + 1) - 1
      PROVE  Links(T, fn, f[k], u[k], f[k + 1], u[k + 1])
  <2>1. CASE k \in 1 .. m - 1
    <3>1. k \in 1 .. m /\ k + 1 \in 1 .. m
      BY <2>1
    <3>2. f[k] = e[k] /\ f[k + 1] = e[k + 1] /\ u[k] = t[k] /\ u[k + 1] = t[k + 1]
      BY <1>2, <3>1
    <3> QED
      BY <1>1, <2>1, <3>2
  <2>2. CASE k = m
    <3>1. f[k] = c /\ f[k + 1] = j /\ u[k] = r /\ u[k + 1] = n
      BY <1>1, <1>2, <2>2
    <3> QED
      BY <3>1
  <2> QED
    BY <2>1, <2>2
<1> QED
  BY <1>2, <1>3, <1>4, <1>5 DEF Leads

LEMMA LeadsFirst ==
  ASSUME NEW T, NEW fn, NEW d, NEW l, NEW j \in Nat, NEW n, Leads(T, fn, d, l, j, n)
  PROVE  /\ d \in 0 .. j
         /\ \/ d = j /\ l = n
            \/ \E c \in 0 .. j : \E r : Links(T, fn, d, l, c, r) /\ Leads(T, fn, c, r, j, n)
<1>0. PICK m \in Nat \ {0} : \E e, t :
        /\ e[1] = d /\ t[1] = l /\ e[m] = j /\ t[m] = n
        /\ \A k \in 1 .. m : e[k] \in 0 .. j
        /\ \A k \in 1 .. m - 1 : Links(T, fn, e[k], t[k], e[k + 1], t[k + 1])
  BY DEF Leads
<1>1. PICK e, t :
        /\ e[1] = d /\ t[1] = l /\ e[m] = j /\ t[m] = n
        /\ \A k \in 1 .. m : e[k] \in 0 .. j
        /\ \A k \in 1 .. m - 1 : Links(T, fn, e[k], t[k], e[k + 1], t[k + 1])
  BY <1>0
<1>2. d \in 0 .. j
  <2>1. 1 \in 1 .. m
    OBVIOUS
  <2> QED
    BY <1>1, <2>1
<1>3. CASE m = 1
  BY <1>1, <1>2, <1>3
<1>4. CASE m > 1
  <2> DEFINE f == [k \in 1 .. m - 1 |-> e[k + 1]]
             u == [k \in 1 .. m - 1 |-> t[k + 1]]
  <2>1. \A k \in 1 .. m - 1 : f[k] = e[k + 1] /\ u[k] = t[k + 1]
    OBVIOUS
  <2> HIDE DEF f, u
  <2>2. /\ m - 1 \in Nat \ {0} /\ 1 \in 1 .. m - 1 /\ 2 \in 1 .. m /\ m - 1 \in 1 .. m - 1
        /\ (m - 1) + 1 = m /\ 1 + 1 = 2
    BY <1>4
  <2>3. Links(T, fn, d, l, e[2], t[2]) /\ e[2] \in 0 .. j
    BY <1>1, <2>2
  <2>4. f[1] = e[2] /\ u[1] = t[2] /\ f[m - 1] = j /\ u[m - 1] = n
    BY <1>1, <2>1, <2>2
  <2>5. ASSUME NEW k \in 1 .. m - 1 PROVE f[k] \in 0 .. j
    <3>1. k + 1 \in 1 .. m
      OBVIOUS
    <3> QED
      BY <1>1, <2>1, <3>1
  <2>6. ASSUME NEW k \in 1 .. (m - 1) - 1 PROVE Links(T, fn, f[k], u[k], f[k + 1], u[k + 1])
    <3>1. k \in 1 .. m - 1 /\ k + 1 \in 1 .. m - 1
      OBVIOUS
    <3>2. Links(T, fn, e[k + 1], t[k + 1], e[(k + 1) + 1], t[(k + 1) + 1])
      BY <1>1, <3>1
    <3> QED
      BY <2>1, <3>1, <3>2
  <2>7. Leads(T, fn, e[2], t[2], j, n)
    BY <2>2, <2>4, <2>5, <2>6 DEF Leads
  <2> QED
    BY <1>2, <2>3, <2>7
<1> QED
  BY <1>3, <1>4

-----------------------------------------------------------------------------
(* A sum or a product begins with an operand, to which the others are added. *)
LEMMA BeginsWithOperand ==
  ASSUME NEW T, Len(T) \in Nat, NEW fn \in {"eadd", "emul"}, NEW i \in 1 .. Len(T) + 1
  PROVE  \A j \in 0 .. Len(T) : \A n \in Spells(T, Sorted[fn], i, j) :
           \E c \in i .. j : \E r \in Spells(T, Sorted[Operand[fn]], i, c) : Leads(T, fn, c, r, j, n)
<1> DEFINE Is(j) == \A n \in Spells(T, Sorted[fn], i, j) :
             \E c \in i .. j : \E r \in Spells(T, Sorted[Operand[fn]], i, c) : Leads(T, fn, c, r, j, n)
           S == {j \in 0 .. Len(T) : ~Is(j)}
<1> SUFFICES ASSUME S # {} PROVE FALSE
  OBVIOUS
<1>1. S \in SUBSET Nat
  OBVIOUS
<1>2. PICK j \in S : \A k \in S : j <= k
  BY <1>1, LeastNat
<1>3. j \in 0 .. Len(T) /\ ~Is(j) /\ \A k \in 0 .. Len(T) : k < j => Is(k)
  BY <1>2
<1> HIDE DEF S
<1>4. PICK n \in Spells(T, Sorted[fn], i, j) :
        ~\E c \in i .. j : \E r \in Spells(T, Sorted[Operand[fn]], i, c) : Leads(T, fn, c, r, j, n)
  BY <1>3
<1>5. /\ Operand["eadd"] = "emul" /\ Operand["emul"] = "eunary"
      /\ Sorted["eadd"] = "sum" /\ Sorted["emul"] = "product" /\ Sorted["eunary"] = "unary"
      /\ DOMAIN Operators["eadd"] = {"TK_ADD", "TK_SUB"}
      /\ DOMAIN Operators["emul"] = {"TK_MUL", "TK_DIV"}
  BY DEF Operand, Sorted, Operators
<1>6. Joins(T, i, j, Sorted[fn], Sorted[Operand[fn]], DOMAIN Operators[fn])
  <2>1. CASE fn = "eadd"
    <3>1. Joins(T, i, j, "sum", "product", {"TK_ADD", "TK_SUB"})
      BY <1>3, SumIs
    <3> QED
      BY <2>1, <3>1, <1>5
  <2>2. CASE fn = "emul"
    <3>1. Joins(T, i, j, "product", "unary", {"TK_MUL", "TK_DIV"})
      BY <1>3, ProductIs
    <3> QED
      BY <2>2, <3>1, <1>5
  <2> QED
    BY <2>1, <2>2
<1>7. i <= j
  BY <1>3, <1>5, NotEmpty
<1>8. CASE n \in Spells(T, Sorted[Operand[fn]], i, j)
  <2>1. Leads(T, fn, j, n, j, n) /\ j \in i .. j
    BY <1>3, <1>7, LeadsSelf
  <2> QED
    BY <1>4, <1>8, <2>1
<1>9. CASE \E k \in i + 1 .. j - 1 :
             /\ At(T, k) \in DOMAIN Operators[fn]
             /\ \E l \in Spells(T, Sorted[fn], i, k - 1), r \in Spells(T, Sorted[Operand[fn]], k + 1, j) :
                  n = NewBinop(BinopOf[At(T, k)], l, r)
  <2>1. PICK k \in i + 1 .. j - 1 :
             /\ At(T, k) \in DOMAIN Operators[fn]
             /\ \E l \in Spells(T, Sorted[fn], i, k - 1), r \in Spells(T, Sorted[Operand[fn]], k + 1, j) :
                  n = NewBinop(BinopOf[At(T, k)], l, r)
    BY <1>9
  <2>2. PICK l \in Spells(T, Sorted[fn], i, k - 1), r \in Spells(T, Sorted[Operand[fn]], k + 1, j) :
                  n = NewBinop(BinopOf[At(T, k)], l, r)
    BY <2>1
  <2>3. /\ k - 1 \in 0 .. Len(T) /\ k - 1 < j /\ k - 1 \in Nat /\ (k - 1) + 1 = k /\ (k - 1) + 2 = k + 1
        /\ j \in Nat /\ k + 1 <= j /\ k - 1 <= j
    BY <1>3
  <2>4. PICK c \in i .. k - 1 : \E q \in Spells(T, Sorted[Operand[fn]], i, c) : Leads(T, fn, c, q, k - 1, l)
    BY <1>3, <2>3
  <2>5. PICK q \in Spells(T, Sorted[Operand[fn]], i, c) : Leads(T, fn, c, q, k - 1, l)
    BY <2>4
  <2>6. Links(T, fn, k - 1, l, j, n)
    BY <2>1, <2>2, <2>3 DEF Links
  <2>7. Leads(T, fn, c, q, j, n)
    BY <2>3, <2>5, <2>6, LeadsMore
  <2>8. c \in i .. j
    BY <2>3
  <2> QED
    BY <1>4, <2>5, <2>7, <2>8
<1> QED
  BY <1>6, <1>8, <1>9 DEF Joins

(* An operand begins with one that has no postfix operator. *)
LEMMA BeginsWithPrimary ==
  ASSUME NEW T, Len(T) \in Nat, NEW i \in 1 .. Len(T) + 1
  PROVE  \A j \in 0 .. Len(T) : \A n \in Spells(T, "operand", i, j) :
           \E c \in i .. j : \E r \in Primary(T, i, c) : Leads(T, "eunary", c, r, j, n)
<1> DEFINE Is(j) == \A n \in Spells(T, "operand", i, j) :
             \E c \in i .. j : \E r \in Primary(T, i, c) : Leads(T, "eunary", c, r, j, n)
           S == {j \in 0 .. Len(T) : ~Is(j)}
<1> SUFFICES ASSUME S # {} PROVE FALSE
  OBVIOUS
<1>1. S \in SUBSET Nat
  OBVIOUS
<1>2. PICK j \in S : \A k \in S : j <= k
  BY <1>1, LeastNat
<1>3. j \in 0 .. Len(T) /\ ~Is(j) /\ \A k \in 0 .. Len(T) : k < j => Is(k)
  BY <1>2
<1> HIDE DEF S
<1>4. PICK n \in Spells(T, "operand", i, j) :
        ~\E c \in i .. j : \E r \in Primary(T, i, c) : Leads(T, "eunary", c, r, j, n)
  BY <1>3
<1>5. i <= j /\ j \in Nat /\ i \in Nat /\ j \in i .. j
  BY <1>3, NotEmpty
<1>6. n \notin Primary(T, i, j)
  BY <1>4, <1>5, LeadsSelf
<1>7. /\ i < j /\ At(T, j) \in DOMAIN UnaopOf /\ ~StartsExpr(At(T, j + 1))
      /\ n \in {NewUnary(UnaopOf[At(T, j)], l) : l \in Spells(T, "operand", i, j - 1)}
  BY <1>3, <1>5, <1>6, PostfixedIs DEF Primary
<1>8. PICK l \in Spells(T, "operand", i, j - 1) : n = NewUnary(UnaopOf[At(T, j)], l)
  BY <1>7
<1>9. j - 1 \in 0 .. Len(T) /\ j - 1 < j /\ j - 1 \in Nat /\ j = (j - 1) + 1 /\ j - 1 <= j
  BY <1>3, <1>5, <1>7
<1>10. PICK c \in i .. j - 1 : \E r \in Primary(T, i, c) : Leads(T, "eunary", c, r, j - 1, l)
  BY <1>3, <1>9
<1>11. PICK r \in Primary(T, i, c) : Leads(T, "eunary", c, r, j - 1, l)
  BY <1>10
<1>12. Links(T, "eunary", j - 1, l, j, n)
  BY <1>7, <1>8, <1>9 DEF Links
<1>13. Leads(T, "eunary", c, r, j, n) /\ c \in i .. j
  BY <1>5, <1>9, <1>11, <1>12, LeadsMore
<1> QED
  BY <1>4, <1>11, <1>13

(* A list grows from the empty one. *)
LEMMA BeginsEmpty ==
  ASSUME NEW T, Len(T) \in Nat, NEW i \in 1 .. Len(T) + 1
  PROVE  \A j \in i - 1 .. Len(T) : \A n \in Spells(T, "list", i, j) :
           Leads(T, "sblock", i - 1, << >>, j, n)
<1> DEFINE Is(j) == \A n \in Spells(T, "list", i, j) : Leads(T, "sblock", i - 1, << >>, j, n)
           S == {j \in i - 1 .. Len(T) : ~Is(j)}
<1> SUFFICES ASSUME S # {} PROVE FALSE
  OBVIOUS
<1>1. S \in SUBSET Nat
  OBVIOUS
<1>2. PICK j \in S : \A k \in S : j <= k
  BY <1>1, LeastNat
<1>3. j \in i - 1 .. Len(T) /\ ~Is(j) /\ \A k \in i - 1 .. Len(T) : k < j => Is(k)
  BY <1>2
<1> HIDE DEF S
<1>4. PICK n \in Spells(T, "list", i, j) : ~Leads(T, "sblock", i - 1, << >>, j, n)
  BY <1>3
<1>5. j \in 0 .. Len(T) /\ j \in Nat /\ i \in Nat /\ i - 1 \in Nat
  BY <1>3
<1>6. CASE i > j
  <2>1. n = << >> /\ j = i - 1
    BY <1>3, <1>4, <1>5, <1>6, StmtListIs
  <2> QED
    BY <1>4, <1>5, <2>1, LeadsSelf
<1>7. CASE i <= j
  <2>1. PICK k \in i .. j : \E l \in Spells(T, "list", i, k - 1), s \in Spells(T, "stmt", k, j) : n = Append(l, s)
    BY <1>4, <1>5, <1>7, StmtListIs
  <2>2. PICK l \in Spells(T, "list", i, k - 1), s \in Spells(T, "stmt", k, j) : n = Append(l, s)
    BY <2>1
  <2>3. k - 1 \in i - 1 .. Len(T) /\ k - 1 < j /\ k - 1 \in Nat /\ (k - 1) + 1 = k /\ k - 1 <= j
    BY <1>3, <1>5
  <2>4. Leads(T, "sblock", i - 1, << >>, k - 1, l)
    BY <1>3, <2>3
  <2>5. Links(T, "sblock", k - 1, l, j, n)
    BY <2>2, <2>3 DEF Links
  <2>6. Leads(T, "sblock", i - 1, << >>, j, n)
    BY <1>5, <2>3, <2>4, <2>5, LeadsMore
  <2> QED
    BY <1>4, <2>6
<1> QED
  BY <1>5, <1>6, <1>7

-----------------------------------------------------------------------------
(* The first token of an expression and of a statement. *)
LEMMA OperandStarts ==
  ASSUME NEW T, Len(T) \in Nat, NEW i \in 1 .. Len(T) + 1, NEW j \in 0 .. Len(T),
         NEW n \in Spells(T, "operand", i, j)
  PROVE  At(T, i) \in {"TK_OPAREN", "TK_ID", "TK_INT"}
<1>1. PICK c \in i .. j : \E r \in Primary(T, i, c) : TRUE
  BY BeginsWithPrimary
<1>2. i \in 1 .. Len(T)
  BY NotEmpty
<1> QED
  BY <1>1, <1>2 DEF Primary, LiteralOf, At

LEMMA UnaryStarts ==
  ASSUME NEW T, Len(T) \in Nat, NEW i \in 1 .. Len(T) + 1, NEW j \in 0 .. Len(T),
         NEW n \in Spells(T, "unary", i, j)
  PROVE  StartsExpr(At(T, i))
<1>1. \/ At(T, i) \in {"TK_ADD", "TK_SUB"}
      \/ n \in Spells(T, "operand", i, j)
  BY UnaryIs
<1> QED
  BY <1>1, OperandStarts DEF StartsExpr

LEMMA ExprStarts ==
  ASSUME NEW T, Len(T) \in Nat, NEW i \in 1 .. Len(T) + 1, NEW j \in 0 .. Len(T)
  PROVE  /\ \A n \in Spells(T, "product", i, j) : StartsExpr(At(T, i))
         /\ \A n \in Spells(T, "sum", i, j) : StartsExpr(At(T, i))
         /\ \A n \in Spells(T, "expr", i, j) : StartsExpr(At(T, i))
<1> DEFINE P(k) == \A n \in Spells(T, "product", i, k) : StartsExpr(At(T, i))
           Q(k) == \A n \in Spells(T, "sum", i, k) : StartsExpr(At(T, i))
<1>1. /\ Operand["eadd"] = "emul" /\ Operand["emul"] = "eunary"
      /\ Sorted["eadd"] = "sum" /\ Sorted["emul"] = "product" /\ Sorted["eunary"] = "unary"
  BY DEF Operand, Sorted
<1>2. ASSUME NEW k \in 0 .. Len(T) PROVE P(k)
  <2> TAKE n \in Spells(T, "product", i, k)
  <2>1. PICK c \in i .. k : \E r \in Spells(T, "unary", i, c) : TRUE
    BY <1>1, BeginsWithOperand
  <2>2. c \in 0 .. Len(T)
    OBVIOUS
  <2> QED
    BY <2>1, <2>2, UnaryStarts
<1>3. ASSUME NEW k \in 0 .. Len(T) PROVE Q(k)
  <2> TAKE n \in Spells(T, "sum", i, k)
  <2>1. PICK c \in i .. k : \E r \in Spells(T, "product", i, c) : TRUE
    BY <1>1, BeginsWithOperand
  <2>2. c \in 0 .. Len(T)
    OBVIOUS
  <2> QED
    BY <1>2, <2>1, <2>2
<1>4. ASSUME NEW n \in Spells(T, "expr", i, j) PROVE StartsExpr(At(T, i))
  <2>1. CASE n \in Spells(T, "sum", i, j)
    BY <1>3, <2>1
  <2>2. CASE \E k \in i + 1 .. j - 1 : \E l : l \in Spells(T, "sum", i, k - 1)
    <3>1. PICK k \in i + 1 .. j - 1 : \E l : l \in Spells(T, "sum", i, k - 1)
      BY <2>2
    <3>2. k - 1 \in 0 .. Len(T)
      OBVIOUS
    <3> QED
      BY <1>3, <3>1, <3>2
  <2> QED
    BY <2>1, <2>2, ExprIs
<1> QED
  BY <1>2, <1>3, <1>4

LEMMA StmtStarts ==
  ASSUME NEW T, Len(T) \in Nat, NEW i \in 1 .. Len(T) + 1, NEW j \in 0 .. Len(T),
         NEW n \in Spells(T, "stmt", i, j)
  PROVE  At(T, i) \in Starters \/ StartsExpr(At(T, i))
<1>1. CASE At(T, i) \notin Starters
  <2>1. i <= j /\ n \in {NewStExpr(m) : m \in Spells(T, "expr", i, j - 1)}
    BY <1>1, StmtIs DEF Starters
  <2>2. PICK m : m \in Spells(T, "expr", i, j - 1)
    BY <2>1
  <2>3. j - 1 \in 0 .. Len(T)
    BY <2>1
  <2> QED
    BY <2>2, <2>3, ExprStarts
<1> QED
  BY <1>1

-----------------------------------------------------------------------------
(***************************************************************************)
(* A text with a tree has no invalid token.                                *)
(***************************************************************************)
(* The scanner has made no invalid token of it. *)
Clean(T, i, j) == \A k \in i .. j : At(T, k) # "TK_INVALID"

(* The same of every stretch within i .. j that is not all of it. *)
InnerClean(T, i, j) ==
  \A u \in Sorts, k \in i .. j + 1, h \in i - 1 .. j :
    i < k \/ h < j => \A n \in Spells(T, u, k, h) : Clean(T, k, h)

LEMMA CleanJoins ==
  ASSUME NEW T, Len(T) \in Nat, NEW i \in 1 .. Len(T) + 1, NEW j \in 0 .. Len(T),
         InnerClean(T, i, j), NEW s \in Sorts, NEW u \in Sorts, NEW K, "TK_INVALID" \notin K,
         Joins(T, i, j, s, u, K), \A n \in Spells(T, u, i, j) : Clean(T, i, j),
         NEW n \in Spells(T, s, i, j)
  PROVE  Clean(T, i, j)
<1>1. CASE n \in Spells(T, u, i, j)
  BY <1>1
<1>2. CASE \E k \in i + 1 .. j - 1 :
             /\ At(T, k) \in K
             /\ \E l \in Spells(T, s, i, k - 1), r \in Spells(T, u, k + 1, j) : TRUE
  <2>1. PICK k \in i + 1 .. j - 1 :
             /\ At(T, k) \in K
             /\ \E l \in Spells(T, s, i, k - 1), r \in Spells(T, u, k + 1, j) : TRUE
    BY <1>2
  <2>2. /\ i \in i .. j + 1 /\ k - 1 \in i - 1 .. j /\ k - 1 < j
        /\ k + 1 \in i .. j + 1 /\ j \in i - 1 .. j /\ i < k + 1
    OBVIOUS
  <2>3. Clean(T, i, k - 1) /\ Clean(T, k + 1, j)
    BY <2>1, <2>2 DEF InnerClean
  <2>4. \A h \in i .. j : h \in i .. k - 1 \/ h = k \/ h \in k + 1 .. j
    OBVIOUS
  <2> QED
    BY <2>1, <2>3, <2>4 DEF Clean
<1> QED
  BY <1>1, <1>2 DEF Joins

LEMMA CleanOperand ==
  ASSUME NEW T, Len(T) \in Nat, NEW i \in 1 .. Len(T) + 1, NEW j \in 0 .. Len(T),
         InnerClean(T, i, j), NEW n \in Spells(T, "operand", i, j)
  PROVE  Clean(T, i, j)
<1>1. i <= j
  BY NotEmpty
<1>2. CASE i = j
  <2>1. n \in LiteralOf(T[i]) /\ i \in 1 .. Len(T)
    BY <1>2, PostfixedIs
  <2> QED
    BY <1>2, <2>1 DEF LiteralOf, Clean, At
<1>3. CASE i < j /\ At(T, j) \in DOMAIN UnaopOf /\ \E m : m \in Spells(T, "operand", i, j - 1)
  <2>1. Clean(T, i, j - 1)
    <3>1. i \in i .. j + 1 /\ j - 1 \in i - 1 .. j /\ j - 1 < j /\ "operand" \in Sorts
      BY <1>3 DEF Sorts
    <3> QED
      BY <1>3, <3>1 DEF InnerClean
  <2>2. \A h \in i .. j : h \in i .. j - 1 \/ h = j
    OBVIOUS
  <2> QED
    BY <1>3, <2>1, <2>2 DEF Clean, UnaopOf
<1>4. CASE /\ i < j /\ At(T, i) = "TK_OPAREN" /\ At(T, j) = "TK_CPAREN"
           /\ \E m : m \in Spells(T, "expr", i + 1, j - 1)
  <2>1. Clean(T, i + 1, j - 1)
    <3>1. i + 1 \in i .. j + 1 /\ j - 1 \in i - 1 .. j /\ j - 1 < j /\ "expr" \in Sorts
      BY <1>4 DEF Sorts
    <3> QED
      BY <1>4, <3>1 DEF InnerClean
  <2>2. \A h \in i .. j : h \in i + 1 .. j - 1 \/ h = j \/ h = i
    OBVIOUS
  <2> QED
    BY <1>4, <2>1, <2>2 DEF Clean
<1> QED
  BY <1>1, <1>2, <1>3, <1>4, PostfixedIs

LEMMA CleanUnary ==
  ASSUME NEW T, Len(T) \in Nat, NEW i \in 1 .. Len(T) + 1, NEW j \in 0 .. Len(T),
         InnerClean(T, i, j), \A m \in Spells(T, "operand", i, j) : Clean(T, i, j),
         NEW n \in Spells(T, "unary", i, j)
  PROVE  Clean(T, i, j)
<1>1. i <= j
  BY NotEmpty
<1>2. CASE At(T, i) \in {"TK_ADD", "TK_SUB"} /\ \E m : m \in Spells(T, "unary", i + 1, j)
  <2>1. Clean(T, i + 1, j)
    <3>1. i + 1 \in i .. j + 1 /\ j \in i - 1 .. j /\ i < i + 1 /\ "unary" \in Sorts
      BY <1>1 DEF Sorts
    <3> QED
      BY <1>2, <3>1 DEF InnerClean
  <2>2. \A h \in i .. j : h \in i + 1 .. j \/ h = i
    OBVIOUS
  <2> QED
    BY <1>2, <2>1, <2>2 DEF Clean
<1>3. CASE n \in Spells(T, "operand", i, j)
  BY <1>3
<1> QED
  BY <1>1, <1>2, <1>3, UnaryIs

LEMMA CleanExpr ==
  ASSUME NEW T, Len(T) \in Nat, NEW i \in 1 .. Len(T) + 1, NEW j \in 0 .. Len(T),
         InnerClean(T, i, j), \A m \in Spells(T, "sum", i, j) : Clean(T, i, j),
         NEW n \in Spells(T, "expr", i, j)
  PROVE  Clean(T, i, j)
<1>1. CASE n \in Spells(T, "sum", i, j)
  BY <1>1
<1>2. CASE \E k \in i + 1 .. j - 1 :
             /\ At(T, k) = "TK_ASS"
             /\ \E l \in Spells(T, "sum", i, k - 1), r \in Spells(T, "expr", k + 1, j) : TRUE
  <2>1. PICK k \in i + 1 .. j - 1 :
             /\ At(T, k) = "TK_ASS"
             /\ \E l \in Spells(T, "sum", i, k - 1), r \in Spells(T, "expr", k + 1, j) : TRUE
    BY <1>2
  <2>2. /\ i \in i .. j + 1 /\ k - 1 \in i - 1 .. j /\ k - 1 < j
        /\ k + 1 \in i .. j + 1 /\ j \in i - 1 .. j /\ i < k + 1
        /\ "sum" \in Sorts /\ "expr" \in Sorts
    BY DEF Sorts
  <2>3. Clean(T, i, k - 1) /\ Clean(T, k + 1, j)
    BY <2>1, <2>2 DEF InnerClean
  <2>4. \A h \in i .. j : h \in i .. k - 1 \/ h = k \/ h \in k + 1 .. j
    OBVIOUS
  <2> QED
    BY <2>1, <2>3, <2>4 DEF Clean
<1> QED
  BY <1>1, <1>2, ExprIs

LEMMA CleanBlock ==
  ASSUME NEW T, Len(T) \in Nat, NEW i \in 1 .. Len(T) + 1, NEW j \in 0 .. Len(T),
         InnerClean(T, i, j), NEW n \in Spells(T, "block", i, j)
  PROVE  Clean(T, i, j)
<1>1. i < j /\ At(T, i) = "TK_OCURLY" /\ At(T, j) = "TK_CCURLY"
  BY NotEmpty
<1>2. PICK l : l \in Spells(T, "list", i + 1, j - 1)
  BY BlockIs
<1>3. i + 1 \in i .. j + 1 /\ j - 1 \in i - 1 .. j /\ j - 1 < j /\ "list" \in Sorts
  BY <1>1 DEF Sorts
<1>4. Clean(T, i + 1, j - 1)
  BY <1>2, <1>3 DEF InnerClean
<1>5. \A h \in i .. j : h \in i + 1 .. j - 1 \/ h = j \/ h = i
  OBVIOUS
<1> QED
  BY <1>1, <1>4, <1>5 DEF Clean

LEMMA CleanList ==
  ASSUME NEW T, Len(T) \in Nat, NEW i \in 1 .. Len(T) + 1, NEW j \in 0 .. Len(T),
         InnerClean(T, i, j), \A m \in Spells(T, "stmt", i, j) : Clean(T, i, j),
         NEW n \in Spells(T, "list", i, j)
  PROVE  Clean(T, i, j)
<1>1. CASE i > j
  BY <1>1 DEF Clean
<1>2. CASE i <= j
  <2>1. PICK k \in i .. j : \E l \in Spells(T, "list", i, k - 1), s \in Spells(T, "stmt", k, j) : TRUE
    BY <1>2, StmtListIs
  <2>2. /\ i \in i .. j + 1 /\ k - 1 \in i - 1 .. j /\ k - 1 < j
        /\ k \in i .. j + 1 /\ j \in i - 1 .. j
        /\ "list" \in Sorts /\ "stmt" \in Sorts
    BY <1>2 DEF Sorts
  <2>3. Clean(T, i, k - 1)
    BY <2>1, <2>2 DEF InnerClean
  <2>4. Clean(T, k, j)
    <3>1. CASE k = i
      BY <2>1, <3>1
    <3>2. CASE i < k
      BY <2>1, <2>2, <3>2 DEF InnerClean
    <3> QED
      BY <3>1, <3>2
  <2>5. \A h \in i .. j : h \in i .. k - 1 \/ h \in k .. j
    OBVIOUS
  <2> QED
    BY <2>3, <2>4, <2>5 DEF Clean
<1> QED
  BY <1>1, <1>2

LEMMA CleanOptional ==
  ASSUME NEW T, NEW i \in Nat, NEW j \in Nat, InnerClean(T, i, j),
         NEW k \in i .. j + 1, NEW h \in i - 1 .. j, i < k, NEW v,
         NEW n \in Optional(Trees(T), k, h, v)
  PROVE  Clean(T, k, h)
<1>1. CASE k > h
  BY <1>1 DEF Clean
<1>2. CASE k <= h
  <2>1. n \in Spells(T, "expr", k, h) /\ "expr" \in Sorts
    BY <1>2 DEF Optional, Spells, Sorts
  <2> QED
    BY <2>1 DEF InnerClean
<1> QED
  BY <1>1, <1>2

LEMMA CleanIf ==
  ASSUME NEW T, Len(T) \in Nat, NEW i \in 1 .. Len(T) + 1, NEW j \in 0 .. Len(T),
         InnerClean(T, i, j), At(T, i) # "TK_INVALID", NEW n \in If(T, Trees(T), i, j)
  PROVE  Clean(T, i, j)
<1>1. PICK k \in i + 1 .. j - 1 :
           \/ \E c \in Spells(T, "expr", i + 1, k - 1), b \in Spells(T, "block", k, j) : TRUE
           \/ \E h \in k + 1 .. j - 1 :
                /\ At(T, h) = "KW_ELSE"
                /\ \E c \in Spells(T, "expr", i + 1, k - 1), b \in Spells(T, "block", k, h - 1),
                      e \in Spells(T, "block", h + 1, j) : TRUE
  BY IfIs
<1>2. /\ i + 1 \in i .. j + 1 /\ k - 1 \in i - 1 .. j /\ k - 1 < j
      /\ k \in i .. j + 1 /\ j \in i - 1 .. j /\ i < k /\ "expr" \in Sorts /\ "block" \in Sorts
  BY DEF Sorts
<1>3. Clean(T, i + 1, k - 1)
  BY <1>1, <1>2 DEF InnerClean
<1>4. Clean(T, k, j)
  <2>1. CASE \E b : b \in Spells(T, "block", k, j)
    BY <1>2, <2>1 DEF InnerClean
  <2>2. CASE \E h \in k + 1 .. j - 1 :
                /\ At(T, h) = "KW_ELSE"
                /\ \E b \in Spells(T, "block", k, h - 1), e \in Spells(T, "block", h + 1, j) : TRUE
    <3>1. PICK h \in k + 1 .. j - 1 :
                /\ At(T, h) = "KW_ELSE"
                /\ \E b \in Spells(T, "block", k, h - 1), e \in Spells(T, "block", h + 1, j) : TRUE
      BY <2>2
    <3>2. h - 1 \in i - 1 .. j /\ h + 1 \in i .. j + 1 /\ i < h + 1
      OBVIOUS
    <3>3. Clean(T, k, h - 1) /\ Clean(T, h + 1, j)
      BY <1>2, <3>1, <3>2 DEF InnerClean
    <3>4. \A g \in k .. j : g \in k .. h - 1 \/ g = h \/ g \in h + 1 .. j
      OBVIOUS
    <3> QED
      BY <3>1, <3>3, <3>4 DEF Clean
  <2> QED
    BY <1>1, <2>1, <2>2
<1>5. \A g \in i .. j : g = i \/ g \in i + 1 .. k - 1 \/ g \in k .. j
  OBVIOUS
<1> QED
  BY <1>3, <1>4, <1>5 DEF Clean

LEMMA CleanWhile ==
  ASSUME NEW T, Len(T) \in Nat, NEW i \in 1 .. Len(T) + 1, NEW j \in 0 .. Len(T),
         InnerClean(T, i, j), At(T, i) # "TK_INVALID", NEW n \in While(T, Trees(T), i, j)
  PROVE  Clean(T, i, j)
<1>1. PICK k \in i + 1 .. j - 1 :
        \E c \in Optional(Trees(T), i + 1, k - 1, 1), b \in Spells(T, "block", k, j) : TRUE
  BY WhileIs
<1>2. /\ i + 1 \in i .. j + 1 /\ k - 1 \in i - 1 .. j /\ i < i + 1
      /\ k \in i .. j + 1 /\ j \in i - 1 .. j /\ i < k /\ "block" \in Sorts
      /\ i \in Nat /\ j \in Nat
  BY DEF Sorts
<1>3. PICK c \in Optional(Trees(T), i + 1, k - 1, 1) : TRUE
  BY <1>1
<1>4. Clean(T, i + 1, k - 1)
  BY <1>2, <1>3, CleanOptional
<1>5. Clean(T, k, j)
  BY <1>1, <1>2 DEF InnerClean
<1>6. \A g \in i .. j : g = i \/ g \in i + 1 .. k - 1 \/ g \in k .. j
  OBVIOUS
<1> QED
  BY <1>4, <1>5, <1>6 DEF Clean

LEMMA CleanFor ==
  ASSUME NEW T, Len(T) \in Nat, NEW i \in 1 .. Len(T) + 1, NEW j \in 0 .. Len(T),
         InnerClean(T, i, j), At(T, i) # "TK_INVALID", NEW n \in For(T, Trees(T), i, j)
  PROVE  Clean(T, i, j)
<1> DEFINE Parts(g, h, k) ==
             /\ At(T, g) = "TK_SEMI" /\ At(T, h) = "TK_SEMI" /\ At(T, k) = "TK_OCURLY"
             /\ \E a \in Optional(Trees(T), i + 1, g - 1, 0), c \in Spells(T, "expr", g + 1, h - 1),
                   p \in Optional(Trees(T), h + 1, k - 1, 0), b \in Spells(T, "block", k, j) : TRUE
<1>1. PICK g \in i + 1 .. j - 1 : \E h \in g + 1 .. j - 1 : \E k \in h + 1 .. j - 1 : Parts(g, h, k)
  BY ForIs
<1>2. PICK h \in g + 1 .. j - 1 : \E k \in h + 1 .. j - 1 : Parts(g, h, k)
  BY <1>1
<1>3. PICK k \in h + 1 .. j - 1 : Parts(g, h, k)
  BY <1>2
<1>4. /\ i + 1 \in i .. j + 1 /\ g - 1 \in i - 1 .. j /\ i < i + 1
      /\ g + 1 \in i .. j + 1 /\ h - 1 \in i - 1 .. j /\ i < g + 1
      /\ h + 1 \in i .. j + 1 /\ k - 1 \in i - 1 .. j /\ i < h + 1
      /\ k \in i .. j + 1 /\ j \in i - 1 .. j /\ i < k /\ i \in Nat /\ j \in Nat
  OBVIOUS
<1>5. "block" \in Sorts /\ "expr" \in Sorts
  BY DEF Sorts
<1>6. PICK a \in Optional(Trees(T), i + 1, g - 1, 0), p \in Optional(Trees(T), h + 1, k - 1, 0) : TRUE
  BY <1>3
<1>7. Clean(T, i + 1, g - 1) /\ Clean(T, h + 1, k - 1)
  BY <1>4, <1>6, CleanOptional
<1>8. Clean(T, g + 1, h - 1) /\ Clean(T, k, j)
  BY <1>3, <1>4, <1>5 DEF InnerClean
<1>9. \A f \in i .. j : \/ f = i \/ f \in i + 1 .. g - 1 \/ f = g \/ f \in g + 1 .. h - 1 \/ f = h
                       \/ f \in h + 1 .. k - 1 \/ f \in k .. j
  OBVIOUS
<1> QED
  BY <1>3, <1>7, <1>8, <1>9 DEF Clean

LEMMA CleanStmt ==
  ASSUME NEW T, Len(T) \in Nat, NEW i \in 1 .. Len(T) + 1, NEW j \in 0 .. Len(T),
         InnerClean(T, i, j), \A m \in Spells(T, "block", i, j) : Clean(T, i, j),
         NEW n \in Spells(T, "stmt", i, j)
  PROVE  Clean(T, i, j)
<1>1. i <= j
  BY StmtEnds
<1>2. CASE At(T, i) = "TK_OCURLY"
  BY <1>1, <1>2, StmtIs
<1>3. CASE At(T, i) \in {"KW_IF", "KW_FOR"}
  <2>1. \/ n \in If(T, Trees(T), i, j) \/ n \in While(T, Trees(T), i, j) \/ n \in For(T, Trees(T), i, j)
    BY <1>1, <1>3, StmtIs
  <2> QED
    BY <1>3, <2>1, CleanIf, CleanWhile, CleanFor
<1>4. CASE At(T, j) = "TK_SEMI" /\ \E m : m \in Spells(T, "expr", i + 1, j - 1) /\ At(T, i) = "KW_RETURN"
  <2>1. Clean(T, i + 1, j - 1)
    <3>1. i + 1 \in i .. j + 1 /\ j - 1 \in i - 1 .. j /\ j - 1 < j /\ "expr" \in Sorts
      BY <1>1 DEF Sorts
    <3> QED
      BY <1>4, <3>1 DEF InnerClean
  <2>2. \A h \in i .. j : h \in i + 1 .. j - 1 \/ h = j \/ h = i
    OBVIOUS
  <2> QED
    BY <1>4, <2>1, <2>2 DEF Clean
<1>5. CASE At(T, j) = "TK_SEMI" /\ \E m : m \in Spells(T, "expr", i, j - 1)
  <2>1. Clean(T, i, j - 1)
    <3>1. i \in i .. j + 1 /\ j - 1 \in i - 1 .. j /\ j - 1 < j /\ "expr" \in Sorts
      BY <1>1 DEF Sorts
    <3> QED
      BY <1>5, <3>1 DEF InnerClean
  <2>2. \A h \in i .. j : h \in i .. j - 1 \/ h = j
    OBVIOUS
  <2> QED
    BY <1>5, <2>1, <2>2 DEF Clean
<1> QED
  BY <1>1, <1>2, <1>3, <1>4, <1>5, StmtIs

(* The rules use no invalid token; again by a least counterexample. *)
LEMMA CleanStretch ==
  ASSUME NEW T, Len(T) \in Nat
  PROVE  \A s \in Sorts, i \in 1 .. Len(T) + 1, j \in 0 .. Len(T) :
           \A n \in Spells(T, s, i, j) : Clean(T, i, j)
<1> DEFINE Is(x) == Trees(T)[x] # {} => Clean(T, x[2], x[3])
           S == {Size(x) : x \in {y \in Stretches(T) : ~Is(y)}}
<1>1. S \in SUBSET Nat
  BY SizeType
<1>2. S = {}
  <2> SUFFICES ASSUME S # {} PROVE FALSE
    OBVIOUS
  <2>1. PICK m \in S : \A k \in S : m <= k
    <3> HIDE DEF S
    <3> QED
      BY <1>1, LeastNat
  <2>2. PICK x \in Stretches(T) : ~Is(x) /\ Size(x) = m
    OBVIOUS
  <2>3. ASSUME NEW y \in Stretches(T), Size(y) < Size(x) PROVE Is(y)
    <3>1. ~Is(y) => Size(y) \in S
      OBVIOUS
    <3>2. Size(y) \in Nat /\ Size(x) \in Nat
      BY SizeType
    <3> HIDE DEF S, Is
    <3> QED
      BY <2>1, <2>2, <2>3, <3>1, <3>2
  <2>4. PICK s \in Sorts, i \in 1 .. Len(T) + 1, j \in 0 .. Len(T) : x = <<s, i, j>>
    BY DEF Stretches
  <2>5. PICK n \in Spells(T, s, i, j) : ~Clean(T, i, j)
    BY <2>2, <2>4 DEF Spells
  <2>6. ASSUME NEW u \in Sorts, NEW k \in 1 .. Len(T) + 1, NEW h \in 0 .. Len(T),
               \/ Wide(k, h) < Wide(i, j)
               \/ Wide(k, h) = Wide(i, j) /\ Level[u] < Level[s],
               NEW q \in Spells(T, u, k, h)
        PROVE  Clean(T, k, h)
    <3>1. <<u, k, h>> \in Stretches(T)
      BY DEF Stretches
    <3>2. Level[u] \in 0 .. 7 /\ Level[s] \in 0 .. 7
      BY DEF Level, Sorts
    <3>3. Wide(k, h) \in Nat /\ Wide(i, j) \in Nat
      BY DEF Wide
    <3>4. Size(<<u, k, h>>) = 8 * Wide(k, h) + Level[u] /\ Size(x) = 8 * Wide(i, j) + Level[s]
      BY <2>4 DEF Size
    <3>5. Size(<<u, k, h>>) < Size(x)
      <4> DEFINE a == Wide(k, h)
                 c == Wide(i, j)
                 d == Level[u]
                 e == Level[s]
      <4>1. a \in Nat /\ c \in Nat /\ d \in 0 .. 7 /\ e \in 0 .. 7 /\ (a < c \/ (a = c /\ d < e))
        BY <2>6, <3>2, <3>3
      <4>2. Size(<<u, k, h>>) = 8 * a + d /\ Size(x) = 8 * c + e
        BY <3>4
      <4> HIDE DEF a, c, d, e
      <4>3. 8 * a + d < 8 * c + e
        BY <4>1
      <4> QED
        BY <4>2, <4>3
    <3>6. Is(<<u, k, h>>)
      BY <2>3, <3>1, <3>5
    <3> QED
      BY <3>6 DEF Spells
  <2> HIDE DEF S, Is
  <2>7. i <= j
    BY <2>5 DEF Clean
  <2>8. InnerClean(T, i, j)
    <3> SUFFICES ASSUME NEW u \in Sorts, NEW k \in i .. j + 1, NEW h \in i - 1 .. j, i < k \/ h < j,
                        NEW q \in Spells(T, u, k, h)
                 PROVE  Clean(T, k, h)
      BY DEF InnerClean
    <3>1. k \in 1 .. Len(T) + 1 /\ h \in 0 .. Len(T)
      BY <2>7
    <3>2. Wide(k, h) < Wide(i, j)
      BY <2>7 DEF Wide
    <3> QED
      BY <2>6, <3>1, <3>2
  <2>9. ASSUME NEW u \in Sorts, Level[u] < Level[s], NEW q \in Spells(T, u, i, j) PROVE Clean(T, i, j)
    BY <2>6, <2>9
  <2>10. Joins(T, i, j, "sum", "product", {"TK_ADD", "TK_SUB"})
    BY SumIs
  <2>11. Joins(T, i, j, "product", "unary", {"TK_MUL", "TK_DIV"})
    BY ProductIs
  <2>12. CASE s \in {"operand", "block"}
    BY <2>5, <2>8, <2>12, CleanOperand, CleanBlock
  <2>13. CASE s = "unary"
    <3>1. Level["operand"] < Level["unary"] /\ "operand" \in Sorts
      BY DEF Level, Sorts
    <3> QED
      BY <2>5, <2>8, <2>9, <2>13, <3>1, CleanUnary
  <2>14. CASE s = "product"
    <3>1. Level["unary"] < Level["product"] /\ "unary" \in Sorts /\ "product" \in Sorts
      BY DEF Level, Sorts
    <3>2. \A q \in Spells(T, "unary", i, j) : Clean(T, i, j)
      BY <2>9, <2>14, <3>1
    <3>3. "TK_INVALID" \notin {"TK_MUL", "TK_DIV"}
      OBVIOUS
    <3> QED
      BY <2>5, <2>8, <2>11, <2>14, <3>1, <3>2, <3>3, CleanJoins
  <2>15. CASE s = "sum"
    <3>1. Level["product"] < Level["sum"] /\ "product" \in Sorts /\ "sum" \in Sorts
      BY DEF Level, Sorts
    <3>2. \A q \in Spells(T, "product", i, j) : Clean(T, i, j)
      BY <2>9, <2>15, <3>1
    <3>3. "TK_INVALID" \notin {"TK_ADD", "TK_SUB"}
      OBVIOUS
    <3> QED
      BY <2>5, <2>8, <2>10, <2>15, <3>1, <3>2, <3>3, CleanJoins
  <2>16. CASE s = "expr"
    <3>1. Level["sum"] < Level["expr"] /\ "sum" \in Sorts
      BY DEF Level, Sorts
    <3> QED
      BY <2>5, <2>8, <2>9, <2>16, <3>1, CleanExpr
  <2>17. CASE s = "stmt"
    <3>1. Level["block"] < Level["stmt"] /\ "block" \in Sorts
      BY DEF Level, Sorts
    <3> QED
      BY <2>5, <2>8, <2>9, <2>17, <3>1, CleanStmt
  <2>18. CASE s = "list"
    <3>1. Level["stmt"] < Level["list"] /\ "stmt" \in Sorts
      BY DEF Level, Sorts
    <3> QED
      BY <2>5, <2>8, <2>9, <2>18, <3>1, CleanList
  <2> QED
    BY <2>12, <2>13, <2>14, <2>15, <2>16, <2>17, <2>18 DEF Sorts
<1> TAKE s \in Sorts, i \in 1 .. Len(T) + 1, j \in 0 .. Len(T)
<1> TAKE n \in Spells(T, s, i, j)
<1>3. <<s, i, j>> \in Stretches(T)
  BY DEF Stretches
<1>4. Is(<<s, i, j>>)
  <2>1. Is(<<s, i, j>>) \/ Size(<<s, i, j>>) \in S
    BY <1>3
  <2> QED
    BY <1>2, <2>1
<1> QED
  BY <1>4 DEF Spells

-----------------------------------------------------------------------------
(***************************************************************************)
(* What a function must find after the tree it is to return.               *)
(***************************************************************************)
(* The tokens an expression ends before. *)
Ends == {"TK_SEMI", "TK_CPAREN", "TK_OCURLY"}

(* No function stops too late: what follows the tree cannot continue it.  So
   longest match, else before its if, and the look at two tokens agree with
   the grammar. *)
Follows(T, fn, j) ==
  LET next == At(T, j + 1)
  IN  /\ fn \in {"sstmt", "sif"} => next # "KW_ELSE"
      /\ fn = "eass" => next \in Ends
      /\ fn = "eadd" => next \in Ends \cup {"TK_ASS"}
      /\ fn = "emul" => next \in Ends \cup {"TK_ASS", "TK_ADD", "TK_SUB"}
      /\ fn = "eunary" => ~(next \in DOMAIN UnaopOf /\ ~StartsExpr(At(T, j + 2)))

(* Frame f, whose call has returned m, which ends at token d, can return n,
   which ends at j. *)
WantsStmt(T, f, d, m, j, n) ==
  /\ f.fn = "sblock" =>
       /\ At(T, j) = "TK_CCURLY" /\ 1 <= j
       /\ \E l : /\ n = NewStBlock(l)
                 /\ Leads(T, "sblock", d, IF f.pc = "stmt" THEN Append(f.kids, m) ELSE f.kids, j - 1, l)
  /\ f.fn = "sexpr" => d = j - 1 /\ At(T, j) = "TK_SEMI" /\ n = NewStExpr(m)
  /\ f.fn = "sreturn" => d = j - 1 /\ At(T, j) = "TK_SEMI" /\ n = NewStReturn(m)
  /\ f.fn = "sif" /\ f.pc = "cond" =>
       \/ \E x \in Spells(T, "block", d + 1, j) : n = NewStIf(m, x, NULL)
       \/ \E h \in d + 1 .. j : /\ At(T, h) = "KW_ELSE"
                                /\ \E x \in Spells(T, "block", d + 1, h - 1),
                                      y \in Spells(T, "block", h + 1, j) : n = NewStIf(m, x, y)
  /\ f.fn = "sif" /\ f.pc = "block" =>
       \/ d = j /\ n = NewStIf(f.kids[1], m, NULL)
       \/ At(T, d + 1) = "KW_ELSE" /\ \E y \in Spells(T, "block", d + 2, j) : n = NewStIf(f.kids[1], m, y)
  /\ f.fn = "sif" /\ f.pc = "else" => d = j /\ n = NewStIf(f.kids[1], f.kids[2], m)

(* The rest of a for, after its second semicolon at h. *)
AfterSemi(T, a, c, h, j, n) ==
  \E k \in h + 1 .. j : \E p \in Optional(Trees(T), h + 1, k - 1, 0), x \in Spells(T, "block", k, j) :
    n = NewStFor(a, c, p, x)

(* The rest of a for or a while, after the first expression a. *)
AfterInit(T, a, d, j, n) ==
  \/ \E x \in Spells(T, "block", d + 1, j) : n = NewStForWhile(a, x)
  \/ /\ At(T, d + 1) = "TK_SEMI"
     /\ \E h \in d + 2 .. j : /\ At(T, h) = "TK_SEMI"
                              /\ \E c \in Spells(T, "expr", d + 2, h - 1) : AfterSemi(T, a, c, h, j, n)

WantsFor(T, f, d, m, j, n) ==
  f.fn = "sfor" =>
    /\ f.pc = "head" =>
         \/ At(T, d + 1) = "TK_SEMI" /\ AfterInit(T, Default(0), d, j, n)
         \/ At(T, d + 1) = "TK_OCURLY" /\ AfterInit(T, Default(1), d, j, n)
         \/ \E g \in d .. j : \E a \in Spells(T, "expr", d + 1, g) : AfterInit(T, a, g, j, n)
    /\ f.pc = "init" => AfterInit(T, m, d, j, n)
    /\ f.pc = "while" => d = j /\ n = NewStForWhile(f.kids[1], m)
    /\ f.pc = "cond" => At(T, d + 1) = "TK_SEMI" /\ AfterSemi(T, f.kids[1], m, d + 1, j, n)
    /\ f.pc = "semi" => AfterSemi(T, f.kids[1], f.kids[2], d, j, n)
    /\ f.pc = "post" => \E x \in Spells(T, "block", d + 1, j) : n = NewStFor(f.kids[1], f.kids[2], m, x)
    /\ f.pc = "block" => d = j /\ n = NewStFor(f.kids[1], f.kids[2], f.kids[3], m)

WantsExpr(T, f, d, m, j, n) ==
  /\ f.fn = "eass" /\ f.pc = "left" =>
       \/ d = j /\ n = m
       \/ /\ At(T, d + 1) = "TK_ASS" /\ IsId(m)
          /\ \E r \in Spells(T, "expr", d + 2, j) : n = NewBinop("BINOP_ASS", m, r)
  /\ f.fn = "eass" /\ f.pc = "right" => d = j /\ n = NewBinop("BINOP_ASS", f.kids[1], m)
  /\ f.fn \in {"eadd", "emul"} =>
       Leads(T, f.fn, d, IF f.pc = "right" THEN NewBinop(f.op, f.kids[1], m) ELSE m, j, n)
  /\ f.fn = "eunary" /\ f.pc = "minus" => d = j /\ n = NewUnary("UNAOP_NEG", m)
  /\ f.fn = "eunary" /\ f.pc = "postfix" => Leads(T, "eunary", d, m, j, n)
  /\ f.fn = "eprimary" => d = j - 1 /\ At(T, j) = "TK_CPAREN" /\ n = m

Wants(T, f, d, m, j, n) ==
  WantsStmt(T, f, d, m, j, n) /\ WantsFor(T, f, d, m, j, n) /\ WantsExpr(T, f, d, m, j, n)

(* The top frame f, before token e, with r as the last result. *)
Owes(T, f, e, r, j, n) ==
  IF f.pc = "enter" THEN n \in Goal(T, f.fn, e, j) ELSE Wants(T, f, e - 1, r, j, n)

(* The frames of s are to return the trees u, which end at the tokens q. *)
Due(T, s, q, u, n) ==
  /\ q[1] = Len(T) /\ u[1] = n
  /\ \A k \in 1 .. Len(s) : q[k] \in 0 .. Len(T) /\ Follows(T, s[k].fn, q[k])
  /\ \A k \in 1 .. Len(s) - 1 : Wants(T, s[k], q[k + 1], u[k + 1], q[k], u[k])

(* The frames can still return n. *)
OnTrack(T, s, r, e, n) ==
  IF s = << >> THEN r = n /\ e = Len(T) + 1
  ELSE \E q, u : Due(T, s, q, u, n) /\ Owes(T, Last(s), e, r, q[Len(s)], u[Len(s)])

(* The running function is to return m, which ends at j. *)
Chase(n, j, m) ==
  /\ Clean(text, 1, Len(text))
  /\ \E q, u : Due(text, stack, q, u, n) /\ q[Len(stack)] = j /\ u[Len(stack)] = m
  /\ Owes(text, Top, at, ret, j, m)

LEMMA ChaseFacts ==
  ASSUME NEW N, NEW b, NEW p, Scene(N, b, p), NEW n, NEW j, NEW m, Chase(n, j, m)
  PROVE  j \in 0 .. Len(text) /\ j \in Nat /\ Follows(text, Top.fn, j)
<1>1. PICK q, u : Due(text, stack, q, u, n) /\ q[Len(stack)] = j /\ u[Len(stack)] = m
  BY DEF Chase
<1>2. stack \in Seq(FT(N)) /\ stack # << >> /\ Len(text) \in Nat
  BY SceneFacts
<1>3. Len(stack) \in Nat \ {0} /\ Top = stack[Len(stack)]
  BY <1>2, FrontType DEF Top
<1>4. Len(stack) \in 1 .. Len(stack)
  BY <1>3
<1> QED
  BY <1>1, <1>2, <1>3, <1>4 DEF Due

-----------------------------------------------------------------------------
(* The running function goes on, stays, calls, or leaves its result. *)
LEMMA GoTrack ==
  ASSUME NEW N, NEW b, NEW p, Scene(N, b, p), NEW n, NEW j, NEW m, Chase(n, j, m),
         NEW f \in FT(N), Goes(f), Follows(text, f.fn, j), Owes(text, f, at', ret', j, m)
  PROVE  OnTrack(text, stack', ret', at', n)
<1> DEFINE t == Append(Front(stack), f)
<1>1. PICK q, u : Due(text, stack, q, u, n) /\ q[Len(stack)] = j /\ u[Len(stack)] = m
  BY DEF Chase
<1>2. stack \in Seq(FT(N)) /\ stack # << >>
  BY SceneFacts
<1>3. /\ Len(stack) \in Nat \ {0} /\ Front(stack) \in Seq(FT(N)) /\ Len(Front(stack)) = Len(stack) - 1
      /\ \A k \in 1 .. Len(stack) - 1 : Front(stack)[k] = stack[k]
  BY <1>2, FrontType
<1>4. /\ t \in Seq(FT(N)) /\ Len(t) = Len(stack) /\ t[Len(stack)] = f /\ t # << >> /\ Last(t) = f
      /\ \A k \in 1 .. Len(stack) - 1 : t[k] = stack[k]
  BY <1>3 DEF Last
<1>5. stack' = t
  BY DEF Goes
<1> HIDE DEF t
<1>6. \A k \in 1 .. Len(t) : q[k] \in 0 .. Len(text) /\ Follows(text, t[k].fn, q[k])
  <2> TAKE k \in 1 .. Len(t)
  <2>1. q[k] \in 0 .. Len(text) /\ Follows(text, stack[k].fn, q[k])
    BY <1>1, <1>4 DEF Due
  <2>2. CASE k = Len(stack)
    BY <1>1, <1>4, <2>1, <2>2
  <2>3. CASE k # Len(stack)
    <3>1. t[k] = stack[k]
      BY <1>3, <1>4, <2>3
    <3> QED
      BY <2>1, <3>1
  <2> QED
    BY <2>2, <2>3
<1>7. \A k \in 1 .. Len(t) - 1 : Wants(text, t[k], q[k + 1], u[k + 1], q[k], u[k])
  BY <1>1, <1>4 DEF Due
<1>8. Due(text, t, q, u, n)
  BY <1>1, <1>6, <1>7 DEF Due
<1> QED
  BY <1>1, <1>4, <1>5, <1>8 DEF OnTrack

LEMMA StayTrack ==
  ASSUME NEW N, NEW b, NEW p, Scene(N, b, p), NEW n, NEW j, NEW m, Chase(n, j, m),
         stack' = stack, Owes(text, Top, at', ret', j, m)
  PROVE  OnTrack(text, stack', ret', at', n)
<1>1. stack # << >>
  BY SceneFacts
<1> QED
  BY <1>1 DEF Chase, OnTrack, Top

LEMMA CallTrack ==
  ASSUME NEW N, NEW b, NEW p, Scene(N, b, p), NEW n, NEW j, NEW m, Chase(n, j, m),
         NEW f \in FT(N), f.fn = Top.fn, NEW fn \in Functions, Call(f, fn),
         NEW c \in 0 .. Len(text), NEW r,
         Wants(text, f, c, r, j, m), Follows(text, fn, c), r \in Goal(text, fn, at', c)
  PROVE  OnTrack(text, stack', ret', at', n)
<1> DEFINE t == Append(Append(Front(stack), f), Frame(fn))
<1>1. PICK q, u : Due(text, stack, q, u, n) /\ q[Len(stack)] = j /\ u[Len(stack)] = m
  BY DEF Chase
<1>2. stack \in Seq(FT(N)) /\ stack # << >> /\ Len(stack) \in Nat \ {0} /\ Top = stack[Len(stack)]
  BY SceneFacts, FrontType DEF Top
<1>3. Frame(fn) \in FT(N) /\ Frame(fn).fn = fn /\ Frame(fn).pc = "enter"
  BY FrameOK
<1>4. /\ t \in Seq(FT(N)) /\ Len(t) = Len(stack) + 1 /\ t[Len(stack)] = f
      /\ t[Len(stack) + 1] = Frame(fn)
      /\ \A k \in 1 .. Len(stack) - 1 : t[k] = stack[k]
  BY <1>2, <1>3, CallStack
<1>5. stack' = t
  BY DEF Call
<1> HIDE DEF t
<1>6. t # << >> /\ Last(t) = Frame(fn)
  BY <1>2, <1>4 DEF Last
<1> DEFINE z == [k \in 1 .. Len(stack) + 1 |-> IF k <= Len(stack) THEN q[k] ELSE c]
           v == [k \in 1 .. Len(stack) + 1 |-> IF k <= Len(stack) THEN u[k] ELSE r]
<1>7. /\ \A k \in 1 .. Len(stack) : z[k] = q[k] /\ v[k] = u[k]
      /\ z[Len(stack) + 1] = c /\ v[Len(stack) + 1] = r
  BY <1>2
<1> HIDE DEF z, v
<1>8. z[1] = Len(text) /\ v[1] = n
  BY <1>1, <1>2, <1>7 DEF Due
<1>9. \A k \in 1 .. Len(t) : z[k] \in 0 .. Len(text) /\ Follows(text, t[k].fn, z[k])
  <2> TAKE k \in 1 .. Len(t)
  <2>1. CASE k = Len(stack) + 1
    BY <1>3, <1>4, <1>7, <2>1
  <2>2. CASE k \in 1 .. Len(stack)
    <3>1. q[k] \in 0 .. Len(text) /\ Follows(text, stack[k].fn, q[k])
      BY <1>1, <2>2 DEF Due
    <3>2. t[k].fn = stack[k].fn
      BY <1>2, <1>4, <2>2
    <3> QED
      BY <1>7, <2>2, <3>1, <3>2
  <2> QED
    BY <1>2, <1>4, <2>1, <2>2
<1>10. ASSUME NEW k \in 1 .. Len(t) - 1
       PROVE  Wants(text, t[k], z[k + 1], v[k + 1], z[k], v[k])
  <2>1. CASE k = Len(stack)
    <3>1. t[k] = f /\ z[k] = j /\ v[k] = m /\ z[k + 1] = c /\ v[k + 1] = r
      BY <1>1, <1>2, <1>4, <1>7, <2>1
    <3> QED
      BY <3>1
  <2>2. CASE k # Len(stack)
    <3>1. k \in 1 .. Len(stack) - 1 /\ k \in 1 .. Len(stack) /\ k + 1 \in 1 .. Len(stack)
      BY <1>2, <1>4, <2>2
    <3>2. t[k] = stack[k] /\ z[k] = q[k] /\ v[k] = u[k] /\ z[k + 1] = q[k + 1] /\ v[k + 1] = u[k + 1]
      BY <1>4, <1>7, <3>1
    <3>3. Wants(text, stack[k], q[k + 1], u[k + 1], q[k], u[k])
      BY <1>1, <3>1 DEF Due
    <3> QED
      BY <3>2, <3>3
  <2> QED
    BY <2>1, <2>2
<1>11. Due(text, t, z, v, n)
  BY <1>8, <1>9, <1>10 DEF Due
<1>12. Owes(text, Frame(fn), at', ret', c, r)
  BY <1>3 DEF Owes
<1>13. Owes(text, Last(t), at', ret', z[Len(t)], v[Len(t)])
  BY <1>4, <1>6, <1>7, <1>12
<1> QED
  BY <1>5, <1>6, <1>11, <1>13 DEF OnTrack

LEMMA LeaveTrack ==
  ASSUME NEW N, NEW b, NEW p, Scene(N, b, p), NEW n, NEW j, NEW m, Chase(n, j, m),
         Leave(m), at' = j + 1
  PROVE  OnTrack(text, stack', ret', at', n)
<1> DEFINE t == Front(stack)
<1>1. PICK q, u : Due(text, stack, q, u, n) /\ q[Len(stack)] = j /\ u[Len(stack)] = m
  BY DEF Chase
<1>2. stack \in Seq(FT(N)) /\ stack # << >> /\ j \in Nat
  BY SceneFacts, ChaseFacts
<1>3. /\ Len(stack) \in Nat \ {0} /\ t \in Seq(FT(N)) /\ Len(t) = Len(stack) - 1
      /\ \A k \in 1 .. Len(stack) - 1 : t[k] = stack[k]
  BY <1>2, FrontType
<1>4. stack' = t /\ ret' = m
  BY DEF Leave
<1> HIDE DEF t
<1>5. CASE t = << >>
  <2>1. Len(stack) = 1
    BY <1>3, <1>5
  <2>2. j = Len(text) /\ m = n
    BY <1>1, <2>1 DEF Due
  <2> QED
    BY <1>4, <1>5, <2>2 DEF OnTrack
<1>6. CASE t # << >>
  <2> DEFINE k == Len(stack) - 1
  <2>1. k \in 1 .. Len(stack) - 1 /\ k + 1 = Len(stack) /\ k = Len(t) /\ k \in Nat \ {0}
    <3>1. Len(t) # 0
      BY <1>3, <1>6, EmptySeq
    <3> QED
      BY <1>3, <3>1
  <2> HIDE DEF k
  <2>2. Last(t) = stack[k]
    BY <1>3, <2>1 DEF Last
  <2>3. Wants(text, stack[k], j, m, q[k], u[k])
    BY <1>1, <2>1 DEF Due
  <2>4. Waits(stack[k])
    BY <2>1 DEF Scene, Placed
  <2>5. Owes(text, Last(t), at', ret', q[Len(t)], u[Len(t)])
    <3>1. at' - 1 = j /\ stack[k].pc # "enter"
      BY <1>2, <2>4 DEF Waits
    <3> QED
      BY <1>4, <2>1, <2>2, <2>3, <3>1 DEF Owes
  <2>6. Due(text, t, q, u, n)
    <3>1. \A h \in 1 .. Len(t) : h \in 1 .. Len(stack) /\ t[h] = stack[h]
      BY <1>3
    <3>2. \A h \in 1 .. Len(t) - 1 : h \in 1 .. Len(stack) - 1 /\ t[h] = stack[h]
      BY <1>3
    <3> QED
      BY <1>1, <3>1, <3>2 DEF Due
  <2> QED
    BY <1>4, <1>6, <2>5, <2>6 DEF OnTrack
<1> QED
  BY <1>5, <1>6

(* The step has kept the parser on the track of n. *)
Tracks(n) == phase' # "error" /\ OnTrack(text, stack', ret', at', n)

(* No invalid token is ahead. *)
LEMMA Advanced ==
  ASSUME NEW N, NEW b, NEW p, Scene(N, b, p), NEW n, NEW j, NEW m, Chase(n, j, m), Advance
  PROVE  at' = at + 1 /\ phase' = phase
<1>1. Len(text) \in Nat /\ at \in Nat
  BY SceneFacts
<1>2. Tok(at + 2).kind # "TK_INVALID"
  <2>1. CASE at + 2 <= Len(text)
    <3>1. at + 2 \in 1 .. Len(text)
      BY <1>1, <2>1
    <3> QED
      BY <2>1, <3>1 DEF Chase, Clean, At, Tok
  <2>2. CASE ~(at + 2 <= Len(text))
    BY <2>2 DEF Tok, Token
  <2> QED
    BY <2>1, <2>2
<1> QED
  BY <1>2 DEF Advance

(* What the running function has to return when it begins, and later. *)
LEMMA Asked ==
  ASSUME NEW n, NEW j, NEW m, Chase(n, j, m), NEW fn, Running(fn, "enter")
  PROVE  Top.fn = fn /\ m \in Goal(text, fn, at, j) /\ phase = "parsing"
BY DEF Chase, Owes, Running

LEMMA Owed ==
  ASSUME NEW n, NEW j, NEW m, Chase(n, j, m), NEW fn, NEW pc, Running(fn, pc), pc # "enter"
  PROVE  /\ Top.fn = fn /\ Top.pc = pc /\ phase = "parsing"
         /\ Wants(text, Top, at - 1, ret, j, m)
BY DEF Chase, Owes, Running

-----------------------------------------------------------------------------
LEMMA AssTracks ==
  ASSUME NEW N, NEW b, NEW p, Scene(N, b, p), NEW n, NEW j, NEW m, Chase(n, j, m),
         Descend, Running("eass", "enter")
  PROVE  Tracks(n)
<1> DEFINE f == To(Top, "left")
<1>1. Top.fn = "eass" /\ m \in Spells(text, "expr", at, j) /\ phase = "parsing"
  BY Asked DEF Goal, Sorted
<1>2. Call(f, "eadd") /\ at' = at /\ phase' = phase
  BY <1>1 DEF Descend, To, Operand
<1>3. f \in FT(N) /\ f.fn = "eass" /\ f.pc = "left"
  <2>1. "left" \in PCs
    BY DEF PCs
  <2> QED
    BY <1>1, <2>1, ToFacts
<1>4. /\ Len(text) \in Nat /\ at \in 1 .. Len(text) + 1 /\ j \in 0 .. Len(text)
      /\ Follows(text, "eass", j)
  BY <1>1, SceneFacts, ChaseFacts
<1> DEFINE Way(c, r) == /\ Wants(text, f, c, r, j, m) /\ Follows(text, "eadd", c)
                        /\ r \in Spells(text, "sum", at, c)
<1>5. \E c \in 0 .. Len(text) : \E r : Way(c, r)
  <2> HIDE DEF f
  <2>1. CASE m \in Spells(text, "sum", at, j)
    <3>1. Wants(text, f, j, m, j, m)
      BY <1>3 DEF Wants, WantsStmt, WantsFor, WantsExpr
    <3>2. Follows(text, "eadd", j)
      BY <1>4 DEF Follows
    <3> QED
      BY <1>4, <2>1, <3>1, <3>2
  <2>2. CASE \E k \in at + 1 .. j - 1 :
               /\ At(text, k) = "TK_ASS"
               /\ \E l \in Spells(text, "sum", at, k - 1), r \in Spells(text, "expr", k + 1, j) :
                    IsId(l) /\ m = NewBinop("BINOP_ASS", l, r)
    <3>1. PICK k \in at + 1 .. j - 1 :
               /\ At(text, k) = "TK_ASS"
               /\ \E l \in Spells(text, "sum", at, k - 1), r \in Spells(text, "expr", k + 1, j) :
                    IsId(l) /\ m = NewBinop("BINOP_ASS", l, r)
      BY <2>2
    <3>2. PICK l \in Spells(text, "sum", at, k - 1), r \in Spells(text, "expr", k + 1, j) :
                    IsId(l) /\ m = NewBinop("BINOP_ASS", l, r)
      BY <3>1
    <3>3. k - 1 \in 0 .. Len(text) /\ (k - 1) + 1 = k /\ (k - 1) + 2 = k + 1
      BY <1>4
    <3>4. Wants(text, f, k - 1, l, j, m)
      BY <1>3, <3>1, <3>2, <3>3 DEF Wants, WantsStmt, WantsFor, WantsExpr
    <3>5. Follows(text, "eadd", k - 1)
      BY <3>1, <3>3 DEF Follows
    <3> QED
      BY <3>2, <3>3, <3>4, <3>5
  <2> QED
    BY <1>1, <1>4, <2>1, <2>2, ExprIs
<1>6. PICK c \in 0 .. Len(text) : \E r : Way(c, r)
  BY <1>5
<1>7. PICK r : Way(c, r)
  BY <1>6
<1>8. r \in Goal(text, "eadd", at', c) /\ "eadd" \in Functions
  BY <1>2, <1>7 DEF Goal, Sorted, Functions
<1>9. OnTrack(text, stack', ret', at', n)
  <2> HIDE DEF f
  <2> QED
    BY <1>1, <1>2, <1>3, <1>7, <1>8, CallTrack
<1> QED
  BY <1>1, <1>2, <1>9 DEF Tracks

(* What follows an operand of a sum or a product. *)
LEMMA LeadsFollows ==
  ASSUME NEW T, Len(T) \in Nat, NEW fn \in {"eadd", "emul"}, NEW c \in Nat, NEW r,
         NEW j \in 0 .. Len(T), NEW n, Leads(T, fn, c, r, j, n), Follows(T, fn, j)
  PROVE  Follows(T, Operand[fn], c)
<1>1. j \in Nat
  OBVIOUS
<1>2. \/ c = j
      \/ \E e \in 0 .. j : \E q : Links(T, fn, c, r, e, q)
  BY <1>1, LeadsFirst
<1>3. Operand["eadd"] = "emul" /\ Operand["emul"] = "eunary"
  BY DEF Operand
<1>4. CASE c = j
  BY <1>3, <1>4 DEF Follows, UnaopOf, Ends
<1>5. CASE \E e \in 0 .. j : \E q : Links(T, fn, c, r, e, q)
  <2>1. PICK e \in 0 .. j : \E q : Links(T, fn, c, r, e, q)
    BY <1>5
  <2>2. PICK q : Links(T, fn, c, r, e, q)
    BY <2>1
  <2>3. /\ At(T, c + 1) \in DOMAIN Operators[fn] /\ c + 2 <= e
        /\ \E o : o \in Spells(T, Sorted[Operand[fn]], c + 2, e)
    BY <2>2 DEF Links
  <2>4. CASE fn = "eadd"
    <3>1. At(T, c + 1) \in {"TK_ADD", "TK_SUB"}
      BY <2>3, <2>4 DEF Operators
    <3> QED
      BY <1>3, <2>4, <3>1 DEF Follows
  <2>5. CASE fn = "emul"
    <3>1. PICK o : o \in Spells(T, "unary", c + 2, e)
      BY <1>3, <2>3, <2>5 DEF Sorted
    <3>2. c + 2 \in 1 .. Len(T) + 1 /\ e \in 0 .. Len(T)
      BY <2>3
    <3>3. StartsExpr(At(T, c + 2))
      BY <3>1, <3>2, UnaryStarts
    <3> QED
      BY <1>3, <2>5, <3>3 DEF Follows
  <2> QED
    BY <2>4, <2>5
<1> QED
  BY <1>2, <1>4, <1>5

LEMMA LevelTracks ==
  ASSUME NEW N, NEW b, NEW p, Scene(N, b, p), NEW n, NEW j, NEW m, Chase(n, j, m),
         NEW h \in {"eadd", "emul"}, Descend, Running(h, "enter")
  PROVE  Tracks(n)
<1> DEFINE f == To(Top, "left")
           fn == Operand[h]
<1>1. Top.fn = h /\ m \in Spells(text, Sorted[h], at, j) /\ phase = "parsing"
  BY Asked DEF Goal
<1>2. Call(f, fn) /\ at' = at /\ phase' = phase
  BY <1>1 DEF Descend, To
<1>3. f \in FT(N) /\ f.fn = h /\ f.pc = "left"
  <2>1. "left" \in PCs
    BY DEF PCs
  <2> QED
    BY <1>1, <2>1, ToFacts
<1>4. /\ Len(text) \in Nat /\ at \in 1 .. Len(text) + 1 /\ j \in 0 .. Len(text)
      /\ Follows(text, h, j) /\ at \in Nat
  BY <1>1, SceneFacts, ChaseFacts
<1>5. PICK c \in at .. j : \E r \in Spells(text, Sorted[fn], at, c) : Leads(text, h, c, r, j, m)
  BY <1>1, <1>4, BeginsWithOperand
<1>6. PICK r \in Spells(text, Sorted[fn], at, c) : Leads(text, h, c, r, j, m)
  BY <1>5
<1>7. c \in 0 .. Len(text) /\ c \in Nat
  BY <1>4
<1>8. Follows(text, fn, c)
  BY <1>4, <1>6, <1>7, LeadsFollows
<1>9. fn \in Functions /\ fn # "eprimary"
  BY DEF Operand, Functions
<1> HIDE DEF f, fn
<1>10. Wants(text, f, c, r, j, m)
  BY <1>3, <1>6 DEF Wants, WantsStmt, WantsFor, WantsExpr
<1>11. r \in Goal(text, fn, at', c)
  BY <1>2, <1>6, <1>9 DEF Goal
<1>12. OnTrack(text, stack', ret', at', n)
  BY <1>1, <1>2, <1>3, <1>7, <1>8, <1>9, <1>10, <1>11, CallTrack
<1> QED
  BY <1>1, <1>2, <1>12 DEF Tracks

(* Whether an assignment follows its left side. *)
LEMMA AssOwed ==
  ASSUME NEW N, NEW b, NEW p, Scene(N, b, p), NEW n, NEW j, NEW m, Chase(n, j, m),
         Running("eass", "left")
  PROVE  \/ /\ at = j + 1 /\ m = ret /\ At(text, at) # "TK_ASS"
         \/ /\ At(text, at) = "TK_ASS" /\ IsId(ret)
            /\ \E r \in Spells(text, "expr", at + 1, j) : m = NewBinop("BINOP_ASS", ret, r)
<1>1. Top.fn = "eass" /\ Top.pc = "left" /\ Wants(text, Top, at - 1, ret, j, m)
  BY Owed
<1>2. at \in Nat /\ j \in Nat /\ (at - 1) + 1 = at /\ (at - 1) + 2 = at + 1
  BY SceneFacts, ChaseFacts
<1>3. Follows(text, "eass", j)
  BY <1>1, ChaseFacts
<1>4. \/ at - 1 = j /\ m = ret
      \/ /\ At(text, at) = "TK_ASS" /\ IsId(ret)
         /\ \E r \in Spells(text, "expr", at + 1, j) : m = NewBinop("BINOP_ASS", ret, r)
  BY <1>1, <1>2 DEF Wants, WantsExpr
<1>5. at - 1 = j => at = j + 1 /\ At(text, at) # "TK_ASS"
  <2>1. at - 1 = j => at = j + 1
    BY <1>2
  <2> QED
    BY <1>3, <2>1 DEF Follows, Ends
<1> QED
  BY <1>4, <1>5

LEMMA AssignTracks ==
  ASSUME NEW N, NEW b, NEW p, Scene(N, b, p), NEW n, NEW j, NEW m, Chase(n, j, m), Assign
  PROVE  Tracks(n)
<1> DEFINE k == <<ret>>
           f == Keep(Top, "right", k)
<1>1. Running("eass", "left") /\ Check("TK_ASS") /\ Call(f, "eass") /\ phase = "parsing"
  BY DEF Assign, Keep, Running
<1>2. At(text, at) = "TK_ASS"
  BY <1>1, SceneFacts DEF Check
<1>3. IsId(ret) /\ \E r \in Spells(text, "expr", at + 1, j) : m = NewBinop("BINOP_ASS", ret, r)
  BY <1>1, <1>2, AssOwed
<1>4. Advance
  BY <1>3 DEF Assign, IsId, IsVariable
<1>5. at' = at + 1 /\ phase' = phase
  BY <1>4, Advanced
<1>6. Top.fn = "eass" /\ Top \in FT(N) /\ ret \in Exprs(N)
  BY <1>1, LeftRead
<1>7. "right" \in PCs /\ "eass" \in Functions
  BY DEF PCs, Functions
<1>8. k \in Seq(N) /\ k[1] = ret
  BY <1>6, NodeSets, One
<1> HIDE DEF k
<1>9. f \in FT(N) /\ f.fn = "eass" /\ f.pc = "right" /\ f.kids = k
  BY <1>6, <1>7, <1>8, KeepFacts
<1>10. PICK r \in Spells(text, "expr", at + 1, j) : m = NewBinop("BINOP_ASS", ret, r)
  BY <1>3
<1>11. j \in 0 .. Len(text) /\ Follows(text, "eass", j)
  BY <1>6, ChaseFacts
<1> HIDE DEF f
<1>12. Wants(text, f, j, r, j, m)
  BY <1>8, <1>9, <1>10 DEF Wants, WantsStmt, WantsFor, WantsExpr
<1>13. r \in Goal(text, "eass", at', j)
  BY <1>5, <1>10 DEF Goal, Sorted
<1>14. OnTrack(text, stack', ret', at', n)
  BY <1>1, <1>6, <1>7, <1>9, <1>11, <1>12, <1>13, CallTrack
<1> QED
  BY <1>1, <1>5, <1>14 DEF Tracks

LEMMA NoAssignTracks ==
  ASSUME NEW N, NEW b, NEW p, Scene(N, b, p), NEW n, NEW j, NEW m, Chase(n, j, m), NoAssign
  PROVE  Tracks(n)
<1>1. Running("eass", "left") /\ ~Check("TK_ASS") /\ Leave(ret) /\ at' = at /\ phase' = phase
      /\ phase = "parsing"
  BY DEF NoAssign, Running
<1>2. At(text, at) # "TK_ASS"
  BY <1>1, SceneFacts DEF Check
<1>3. at = j + 1 /\ m = ret
  BY <1>1, <1>2, AssOwed
<1>4. OnTrack(text, stack', ret', at', n)
  BY <1>1, <1>3, LeaveTrack
<1> QED
  BY <1>1, <1>4 DEF Tracks

LEMMA AssignEndTracks ==
  ASSUME NEW N, NEW b, NEW p, Scene(N, b, p), NEW n, NEW j, NEW m, Chase(n, j, m), AssignEnd
  PROVE  Tracks(n)
<1>1. /\ Running("eass", "right") /\ Leave(NewBinop("BINOP_ASS", Top.kids[1], ret)) /\ at' = at
      /\ phase' = phase /\ phase = "parsing"
  BY DEF AssignEnd, Running
<1>2. Top.fn = "eass" /\ Top.pc = "right" /\ Wants(text, Top, at - 1, ret, j, m)
  BY <1>1, Owed
<1>3. at - 1 = j /\ m = NewBinop("BINOP_ASS", Top.kids[1], ret)
  BY <1>2 DEF Wants, WantsExpr
<1>4. at' = j + 1
  BY <1>1, <1>3, SceneFacts
<1>5. OnTrack(text, stack', ret', at', n)
  BY <1>1, <1>3, <1>4, LeaveTrack
<1> QED
  BY <1>1, <1>5 DEF Tracks

-----------------------------------------------------------------------------
(* Whether an operator of the level follows. *)
LEMMA LevelOwed ==
  ASSUME NEW N, NEW b, NEW p, Scene(N, b, p), NEW n, NEW j, NEW m, Chase(n, j, m), InLoop
  PROVE  /\ Top.fn \in {"eadd", "emul"} /\ phase = "parsing" /\ CTok.kind = At(text, at)
         /\ \/ /\ at = j + 1 /\ m = Left /\ At(text, at) \notin DOMAIN Operators[Top.fn]
            \/ /\ At(text, at) \in DOMAIN Operators[Top.fn]
               /\ \E c \in 0 .. j : \E r \in Spells(text, Sorted[Operand[Top.fn]], at + 1, c) :
                    Leads(text, Top.fn, c, NewBinop(BinopOf[At(text, at)], Left, r), j, m)
<1>1. PICK fn \in {"eadd", "emul"}, pc \in {"left", "right"} : Running(fn, pc)
  BY DEF InLoop, Operators
<1>2. /\ Top.fn = fn /\ Top.pc = pc /\ phase = "parsing"
      /\ Wants(text, Top, at - 1, ret, j, m)
  BY <1>1, Owed
<1>3. Leads(text, fn, at - 1, Left, j, m)
  BY <1>2 DEF Wants, WantsExpr, Left
<1>4. at \in Nat /\ j \in Nat /\ (at - 1) + 1 = at /\ (at - 1) + 2 = at + 1 /\ CTok.kind = At(text, at)
  BY SceneFacts, ChaseFacts
<1>5. Follows(text, fn, j)
  BY <1>2, ChaseFacts
<1>6. \/ at - 1 = j /\ Left = m
      \/ \E c \in 0 .. j : \E q : Links(text, fn, at - 1, Left, c, q) /\ Leads(text, fn, c, q, j, m)
  BY <1>3, <1>4, LeadsFirst
<1>7. CASE at - 1 = j /\ Left = m
  <2>1. at = j + 1
    BY <1>4, <1>7
  <2>2. At(text, at) \notin DOMAIN Operators[fn]
    BY <1>5, <2>1 DEF Follows, Operators, Ends
  <2> QED
    BY <1>2, <1>4, <1>7, <2>1, <2>2
<1>8. CASE \E c \in 0 .. j : \E q : Links(text, fn, at - 1, Left, c, q) /\ Leads(text, fn, c, q, j, m)
  <2>1. PICK c \in 0 .. j : \E q : Links(text, fn, at - 1, Left, c, q) /\ Leads(text, fn, c, q, j, m)
    BY <1>8
  <2>2. PICK q : Links(text, fn, at - 1, Left, c, q) /\ Leads(text, fn, c, q, j, m)
    BY <2>1
  <2>3. /\ At(text, at) \in DOMAIN Operators[fn]
        /\ \E r \in Spells(text, Sorted[Operand[fn]], at + 1, c) :
             q = NewBinop(BinopOf[At(text, at)], Left, r)
    BY <1>4, <2>2 DEF Links
  <2> QED
    BY <1>2, <1>4, <2>2, <2>3
<1> QED
  BY <1>6, <1>7, <1>8

LEMMA OperatorTracks ==
  ASSUME NEW N, NEW b, NEW p, Scene(N, b, p), NEW n, NEW j, NEW m, Chase(n, j, m), Operator
  PROVE  Tracks(n)
<1> DEFINE M == N \cup {Left}
           k == <<Left>>
           o == Operators[Top.fn][CTok.kind]
           f == Join(Top, "right", k, o)
           fn == Operand[Top.fn]
<1>1. InLoop /\ CTok.kind \in DOMAIN Operators[Top.fn] /\ Call(f, fn) /\ Advance
  BY DEF Operator, Join
<1>2. /\ Top.fn \in {"eadd", "emul"} /\ phase = "parsing"
      /\ At(text, at) \in DOMAIN Operators[Top.fn]
      /\ \E c \in 0 .. j : \E r \in Spells(text, Sorted[fn], at + 1, c) :
           Leads(text, Top.fn, c, NewBinop(BinopOf[At(text, at)], Left, r), j, m)
  BY <1>1, LevelOwed
<1>3. PICK c \in 0 .. j : \E r \in Spells(text, Sorted[fn], at + 1, c) :
           Leads(text, Top.fn, c, NewBinop(BinopOf[At(text, at)], Left, r), j, m)
  BY <1>2
<1>4. PICK r \in Spells(text, Sorted[fn], at + 1, c) :
           Leads(text, Top.fn, c, NewBinop(BinopOf[At(text, at)], Left, r), j, m)
  BY <1>3
<1>5. at' = at + 1 /\ phase' = phase
  BY <1>1, Advanced
<1>6. WellFormed(Left, N) /\ Left.kind \in ExprKinds
  BY <1>1, LeftOK DEF Scene
<1>7. Scene(M, b, p) /\ Left \in M
  BY <1>6, SceneGrows
<1> HIDE DEF M
<1>8. o = BinopOf[At(text, at)] /\ o \in ArithKind
  BY <1>1, <1>2, SceneFacts DEF Operators, BinopOf, ArithKind
<1>9. fn \in Functions /\ fn # "eprimary" /\ "right" \in PCs
  BY <1>2 DEF Operand, Functions, PCs
<1>10. k \in Seq(M) /\ k[1] = Left
  BY <1>7, One
<1> HIDE DEF k, o
<1>11. f \in FT(M) /\ f.fn = Top.fn /\ f.pc = "right" /\ f.kids = k /\ f.op = o
  <2>1. Top \in FT(M)
    BY <1>7, SceneFacts
  <2> QED
    BY <1>8, <1>9, <1>10, <2>1, Update DEF Updated
<1>12. j \in 0 .. Len(text) /\ Follows(text, Top.fn, j) /\ Len(text) \in Nat
  BY ChaseFacts, SceneFacts
<1>13. c \in 0 .. Len(text) /\ c \in Nat
  BY <1>12
<1> HIDE DEF f
<1>14. Wants(text, f, c, r, j, m)
  <2>1. Leads(text, f.fn, c, NewBinop(f.op, f.kids[1], r), j, m)
    BY <1>4, <1>8, <1>10, <1>11
  <2> QED
    BY <1>2, <1>11, <2>1 DEF Wants, WantsStmt, WantsFor, WantsExpr
<1>15. Follows(text, fn, c)
  <2> DEFINE l == NewBinop(BinopOf[At(text, at)], Left, r)
  <2>1. Leads(text, Top.fn, c, l, j, m)
    BY <1>4
  <2> HIDE DEF l
  <2> QED
    BY <1>2, <1>12, <1>13, <2>1, LeadsFollows
<1> HIDE DEF fn
<1>16. r \in Goal(text, fn, at', c)
  BY <1>4, <1>5, <1>9 DEF Goal
<1>17. OnTrack(text, stack', ret', at', n)
  BY <1>1, <1>7, <1>9, <1>11, <1>13, <1>14, <1>15, <1>16, CallTrack
<1> QED
  BY <1>2, <1>5, <1>17 DEF Tracks

LEMMA NoOperatorTracks ==
  ASSUME NEW N, NEW b, NEW p, Scene(N, b, p), NEW n, NEW j, NEW m, Chase(n, j, m), NoOperator
  PROVE  Tracks(n)
<1>1. InLoop /\ CTok.kind \notin DOMAIN Operators[Top.fn] /\ Leave(Left) /\ at' = at /\ phase' = phase
  BY DEF NoOperator
<1>2. at = j + 1 /\ m = Left /\ phase = "parsing"
  BY <1>1, LevelOwed
<1>3. OnTrack(text, stack', ret', at', n)
  BY <1>1, <1>2, LeaveTrack
<1> QED
  BY <1>1, <1>2, <1>3 DEF Tracks

(* How an expression that a prefix may begin is read. *)
LEMMA UnaryAsked ==
  ASSUME NEW N, NEW b, NEW p, Scene(N, b, p), NEW n, NEW j, NEW m, Chase(n, j, m),
         Running("eunary", "enter")
  PROVE  /\ Top.fn = "eunary" /\ Top.pc = "enter" /\ phase = "parsing" /\ CTok.kind = At(text, at)
         /\ m \in IF At(text, at) = "TK_ADD" THEN Spells(text, "unary", at + 1, j)
                  ELSE IF At(text, at) = "TK_SUB"
                  THEN {NewUnary("UNAOP_NEG", l) : l \in Spells(text, "unary", at + 1, j)}
                  ELSE Spells(text, "operand", at, j)
<1>1. Top.fn = "eunary" /\ phase = "parsing" /\ m \in Spells(text, "unary", at, j)
  BY Asked DEF Goal, Sorted
<1>2. Top.pc = "enter"
  BY DEF Running
<1>3. Len(text) \in Nat /\ at \in 1 .. Len(text) + 1 /\ j \in 0 .. Len(text) /\ CTok.kind = At(text, at)
  BY SceneFacts, ChaseFacts
<1>4. at <= j
  BY <1>1, <1>3, NotEmpty
<1>5. ~(at > j)
  BY <1>3, <1>4
<1> QED
  BY <1>1, <1>2, <1>3, <1>5, UnaryIs

LEMMA UnaryPlusTracks ==
  ASSUME NEW N, NEW b, NEW p, Scene(N, b, p), NEW n, NEW j, NEW m, Chase(n, j, m), UnaryPlus
  PROVE  Tracks(n)
<1>1. Running("eunary", "enter") /\ Check("TK_ADD") /\ Advance /\ stack' = stack
  BY DEF UnaryPlus
<1>2. at' = at + 1 /\ phase' = phase
  BY <1>1, Advanced
<1>3. /\ Top.fn = "eunary" /\ Top.pc = "enter" /\ phase = "parsing"
      /\ m \in Spells(text, "unary", at + 1, j)
  BY <1>1, UnaryAsked DEF Check
<1>4. Owes(text, Top, at', ret', j, m)
  BY <1>2, <1>3 DEF Owes, Goal, Sorted
<1>5. OnTrack(text, stack', ret', at', n)
  BY <1>1, <1>4, StayTrack
<1> QED
  BY <1>2, <1>3, <1>5 DEF Tracks

LEMMA UnaryMinusTracks ==
  ASSUME NEW N, NEW b, NEW p, Scene(N, b, p), NEW n, NEW j, NEW m, Chase(n, j, m), UnaryMinus
  PROVE  Tracks(n)
<1> DEFINE f == To(Top, "minus")
<1>1. Running("eunary", "enter") /\ Check("TK_SUB") /\ Advance /\ Call(f, "eunary")
  BY DEF UnaryMinus, To
<1>2. at' = at + 1 /\ phase' = phase
  BY <1>1, Advanced
<1>3. /\ Top.fn = "eunary" /\ phase = "parsing"
      /\ m \in {NewUnary("UNAOP_NEG", l) : l \in Spells(text, "unary", at + 1, j)}
  BY <1>1, UnaryAsked DEF Check
<1>4. PICK l \in Spells(text, "unary", at + 1, j) : m = NewUnary("UNAOP_NEG", l)
  BY <1>3
<1>5. "minus" \in PCs /\ "eunary" \in Functions
  BY DEF PCs, Functions
<1>6. f \in FT(N) /\ f.fn = "eunary" /\ f.pc = "minus"
  BY <1>3, <1>5, ToFacts
<1>7. j \in 0 .. Len(text) /\ Follows(text, "eunary", j)
  BY <1>3, ChaseFacts
<1> HIDE DEF f
<1>8. Wants(text, f, j, l, j, m)
  BY <1>4, <1>6 DEF Wants, WantsStmt, WantsFor, WantsExpr
<1>9. l \in Goal(text, "eunary", at', j)
  BY <1>2, <1>4 DEF Goal, Sorted
<1>10. OnTrack(text, stack', ret', at', n)
  BY <1>1, <1>3, <1>5, <1>6, <1>7, <1>8, <1>9, CallTrack
<1> QED
  BY <1>2, <1>3, <1>10 DEF Tracks

LEMMA UnaryMinusEndTracks ==
  ASSUME NEW N, NEW b, NEW p, Scene(N, b, p), NEW n, NEW j, NEW m, Chase(n, j, m), UnaryMinusEnd
  PROVE  Tracks(n)
<1>1. /\ Running("eunary", "minus") /\ Leave(NewUnary("UNAOP_NEG", ret)) /\ at' = at
      /\ phase' = phase /\ phase = "parsing"
  BY DEF UnaryMinusEnd, Running
<1>2. Top.fn = "eunary" /\ Top.pc = "minus" /\ Wants(text, Top, at - 1, ret, j, m)
  BY <1>1, Owed
<1>3. at - 1 = j /\ m = NewUnary("UNAOP_NEG", ret)
  BY <1>2 DEF Wants, WantsExpr
<1>4. at' = j + 1
  BY <1>1, <1>3, SceneFacts
<1>5. OnTrack(text, stack', ret', at', n)
  BY <1>1, <1>3, <1>4, LeaveTrack
<1> QED
  BY <1>1, <1>5 DEF Tracks

LEMMA UnaryPrimaryTracks ==
  ASSUME NEW N, NEW b, NEW p, Scene(N, b, p), NEW n, NEW j, NEW m, Chase(n, j, m), UnaryPrimary
  PROVE  Tracks(n)
<1> DEFINE f == To(Top, "postfix")
<1>1. /\ Running("eunary", "enter") /\ ~Check("TK_ADD") /\ ~Check("TK_SUB")
      /\ Call(f, "eprimary") /\ at' = at /\ phase' = phase
  BY DEF UnaryPrimary, To
<1>2. Top.fn = "eunary" /\ phase = "parsing" /\ m \in Spells(text, "operand", at, j)
  BY <1>1, UnaryAsked DEF Check
<1>3. "postfix" \in PCs /\ "eprimary" \in Functions
  BY DEF PCs, Functions
<1>4. f \in FT(N) /\ f.fn = "eunary" /\ f.pc = "postfix"
  BY <1>2, <1>3, ToFacts
<1>5. Len(text) \in Nat /\ at \in 1 .. Len(text) + 1 /\ j \in 0 .. Len(text) /\ at \in Nat
  BY SceneFacts, ChaseFacts
<1>6. PICK c \in at .. j : \E r \in Primary(text, at, c) : Leads(text, "eunary", c, r, j, m)
  BY <1>2, <1>5, BeginsWithPrimary
<1>7. PICK r \in Primary(text, at, c) : Leads(text, "eunary", c, r, j, m)
  BY <1>6
<1>8. c \in 0 .. Len(text)
  BY <1>5
<1> HIDE DEF f
<1>9. Wants(text, f, c, r, j, m)
  BY <1>4, <1>7 DEF Wants, WantsStmt, WantsFor, WantsExpr
<1>10. r \in Goal(text, "eprimary", at', c) /\ Follows(text, "eprimary", c)
  BY <1>1, <1>7 DEF Goal, Follows
<1>11. OnTrack(text, stack', ret', at', n)
  BY <1>1, <1>2, <1>3, <1>4, <1>8, <1>9, <1>10, CallTrack
<1> QED
  BY <1>1, <1>2, <1>11 DEF Tracks

(* Whether a postfix operator follows. *)
LEMMA PostfixOwed ==
  ASSUME NEW N, NEW b, NEW p, Scene(N, b, p), NEW n, NEW j, NEW m, Chase(n, j, m),
         Running("eunary", "postfix")
  PROVE  /\ Top.fn = "eunary" /\ Top.pc = "postfix" /\ phase = "parsing"
         /\ CTok.kind = At(text, at)
         /\ IF IsPostfix
            THEN Leads(text, "eunary", at, NewUnary(UnaopOf[At(text, at)], ret), j, m)
            ELSE at = j + 1 /\ m = ret
<1>1. /\ Top.fn = "eunary" /\ Top.pc = "postfix" /\ phase = "parsing"
      /\ Wants(text, Top, at - 1, ret, j, m)
  BY Owed
<1>2. Leads(text, "eunary", at - 1, ret, j, m)
  BY <1>1 DEF Wants, WantsExpr
<1>3. /\ at \in Nat /\ j \in Nat /\ (at - 1) + 1 = at /\ (at - 1) + 2 = at + 1
      /\ CTok.kind = At(text, at) /\ NTok.kind = At(text, at + 1)
  BY SceneFacts, ChaseFacts
<1>4. Follows(text, "eunary", j)
  BY <1>1, ChaseFacts
<1>5. IsPostfix <=> At(text, at) \in DOMAIN UnaopOf /\ ~StartsExpr(At(text, at + 1))
  BY <1>3 DEF IsPostfix, PostfixOps, UnaopOf
<1>6. \/ at - 1 = j /\ ret = m
      \/ \E c \in 0 .. j : \E q : Links(text, "eunary", at - 1, ret, c, q) /\ Leads(text, "eunary", c, q, j, m)
  BY <1>2, <1>3, LeadsFirst
<1>7. CASE at - 1 = j /\ ret = m
  <2>1. at = j + 1 /\ at + 1 = j + 2
    BY <1>3, <1>7
  <2>2. ~IsPostfix
    BY <1>4, <1>5, <2>1 DEF Follows
  <2> QED
    BY <1>1, <1>3, <1>7, <2>1, <2>2
<1>8. CASE \E c \in 0 .. j : \E q : Links(text, "eunary", at - 1, ret, c, q) /\ Leads(text, "eunary", c, q, j, m)
  <2>1. PICK c \in 0 .. j : \E q : Links(text, "eunary", at - 1, ret, c, q) /\ Leads(text, "eunary", c, q, j, m)
    BY <1>8
  <2>2. PICK q : Links(text, "eunary", at - 1, ret, c, q) /\ Leads(text, "eunary", c, q, j, m)
    BY <2>1
  <2>3. /\ c = at /\ At(text, c) \in DOMAIN UnaopOf /\ ~StartsExpr(At(text, c + 1))
        /\ q = NewUnary(UnaopOf[At(text, c)], ret)
    BY <1>3, <2>2 DEF Links
  <2> QED
    BY <1>1, <1>3, <1>5, <2>2, <2>3
<1> QED
  BY <1>6, <1>7, <1>8

LEMMA PostfixTracks ==
  ASSUME NEW N, NEW b, NEW p, Scene(N, b, p), NEW n, NEW j, NEW m, Chase(n, j, m), Postfix
  PROVE  Tracks(n)
<1>1. /\ Running("eunary", "postfix") /\ IsPostfix /\ Advance
      /\ ret' = NewUnary(PostfixOps[CTok.kind], ret) /\ stack' = stack
  BY DEF Postfix
<1>2. at' = at + 1 /\ phase' = phase
  BY <1>1, Advanced
<1>3. /\ Top.fn = "eunary" /\ Top.pc = "postfix" /\ phase = "parsing"
      /\ Leads(text, "eunary", at, NewUnary(UnaopOf[At(text, at)], ret), j, m)
      /\ CTok.kind = At(text, at)
  BY <1>1, PostfixOwed
<1>4. ret' = NewUnary(UnaopOf[At(text, at)], ret) /\ at' - 1 = at
  BY <1>1, <1>2, <1>3, SceneFacts DEF IsPostfix, PostfixOps, UnaopOf
<1>5. Leads(text, "eunary", at' - 1, ret', j, m)
  BY <1>3, <1>4
<1>6. Owes(text, Top, at', ret', j, m)
  BY <1>3, <1>5 DEF Owes, Wants, WantsStmt, WantsFor, WantsExpr
<1>7. OnTrack(text, stack', ret', at', n)
  BY <1>1, <1>6, StayTrack
<1> QED
  BY <1>2, <1>3, <1>7 DEF Tracks

LEMMA NoPostfixTracks ==
  ASSUME NEW N, NEW b, NEW p, Scene(N, b, p), NEW n, NEW j, NEW m, Chase(n, j, m), NoPostfix
  PROVE  Tracks(n)
<1>1. Running("eunary", "postfix") /\ ~IsPostfix /\ Leave(ret) /\ at' = at /\ phase' = phase
  BY DEF NoPostfix
<1>2. at = j + 1 /\ m = ret /\ phase = "parsing"
  BY <1>1, PostfixOwed
<1>3. OnTrack(text, stack', ret', at', n)
  BY <1>1, <1>2, LeaveTrack
<1> QED
  BY <1>1, <1>2, <1>3 DEF Tracks

-----------------------------------------------------------------------------
(* A literal, or an expression in parentheses. *)
LEMMA PrimaryAsked ==
  ASSUME NEW N, NEW b, NEW p, Scene(N, b, p), NEW n, NEW j, NEW m, Chase(n, j, m),
         Running("eprimary", "enter")
  PROVE  /\ Top.fn = "eprimary" /\ phase = "parsing" /\ CTok.kind = At(text, at)
         /\ \/ /\ at = j /\ At(text, at) \in DOMAIN Literals
               /\ m = NewLit(Literals[At(text, at)], CTok.str)
            \/ /\ At(text, at) = "TK_OPAREN" /\ at < j /\ At(text, j) = "TK_CPAREN"
               /\ m \in Spells(text, "expr", at + 1, j - 1)
<1>1. Top.fn = "eprimary" /\ phase = "parsing" /\ m \in Primary(text, at, j)
  BY Asked DEF Goal
<1>2. /\ Len(text) \in Nat /\ at \in 1 .. Len(text) + 1 /\ j \in 0 .. Len(text)
      /\ CTok.kind = At(text, at)
  BY SceneFacts, ChaseFacts
<1>3. CASE at = j
  <2>1. at \in 1 .. Len(text)
    BY <1>2, <1>3
  <2>2. CTok = text[at]
    BY <2>1, <1>2 DEF CTok, Tok
  <2>3. m \in LiteralOf(CTok)
    BY <1>1, <1>3, <2>2 DEF Primary
  <2>4. CTok.kind \in DOMAIN Literals /\ m = NewLit(Literals[CTok.kind], CTok.str)
    BY <2>3 DEF LiteralOf, Literals
  <2> QED
    BY <1>1, <1>2, <1>3, <2>4
<1>4. CASE at # j
  BY <1>1, <1>2, <1>4 DEF Primary
<1> QED
  BY <1>3, <1>4

LEMMA ParenOpenTracks ==
  ASSUME NEW N, NEW b, NEW p, Scene(N, b, p), NEW n, NEW j, NEW m, Chase(n, j, m), ParenOpen
  PROVE  Tracks(n)
<1> DEFINE f == Open(Top, "paren", at)
<1>1. Running("eprimary", "enter") /\ Check("TK_OPAREN") /\ Advance /\ Call(f, "eass")
  BY DEF ParenOpen, Open
<1>2. at' = at + 1 /\ phase' = phase
  BY <1>1, Advanced
<1>3. Top.fn = "eprimary" /\ phase = "parsing" /\ CTok.kind = At(text, at)
  BY <1>1, PrimaryAsked
<1>4. /\ at < j /\ At(text, j) = "TK_CPAREN" /\ m \in Spells(text, "expr", at + 1, j - 1)
  BY <1>1, <1>3, PrimaryAsked DEF Check, Literals
<1>5. "paren" \in PCs /\ "eass" \in Functions /\ Top \in FT(N) /\ at \in Nat /\ Len(text) \in Nat
      /\ j \in 0 .. Len(text)
  BY SceneFacts, ChaseFacts DEF PCs, Functions
<1>6. f \in FT(N) /\ f.fn = "eprimary" /\ f.pc = "paren"
  <2>1. Updated(f, Top, "paren", Top.kids, N)
    BY <1>5, Update
  <2> QED
    BY <1>3, <2>1 DEF Updated
<1> HIDE DEF f
<1>7. j - 1 \in 0 .. Len(text) /\ (j - 1) + 1 = j
  BY <1>4, <1>5
<1>8. Wants(text, f, j - 1, m, j, m)
  BY <1>4, <1>6 DEF Wants, WantsStmt, WantsFor, WantsExpr
<1>9. Follows(text, "eass", j - 1)
  BY <1>4, <1>7 DEF Follows, Ends
<1>10. m \in Goal(text, "eass", at', j - 1)
  BY <1>2, <1>4 DEF Goal, Sorted
<1>11. OnTrack(text, stack', ret', at', n)
  BY <1>1, <1>3, <1>5, <1>6, <1>7, <1>8, <1>9, <1>10, CallTrack
<1> QED
  BY <1>2, <1>3, <1>11 DEF Tracks

LEMMA ParenOwed ==
  ASSUME NEW N, NEW b, NEW p, Scene(N, b, p), NEW n, NEW j, NEW m, Chase(n, j, m),
         Running("eprimary", "paren")
  PROVE  phase = "parsing" /\ at = j /\ CTok.kind = "TK_CPAREN" /\ m = ret
<1>1. Top.fn = "eprimary" /\ phase = "parsing" /\ Wants(text, Top, at - 1, ret, j, m)
  BY Owed
<1>2. at - 1 = j - 1 /\ At(text, j) = "TK_CPAREN" /\ m = ret
  BY <1>1 DEF Wants, WantsExpr
<1>3. at \in Nat /\ j \in Nat /\ CTok.kind = At(text, at)
  BY SceneFacts, ChaseFacts
<1>4. at = j
  BY <1>2, <1>3
<1> QED
  BY <1>1, <1>2, <1>3, <1>4

LEMMA ParenCloseTracks ==
  ASSUME NEW N, NEW b, NEW p, Scene(N, b, p), NEW n, NEW j, NEW m, Chase(n, j, m), ParenClose
  PROVE  Tracks(n)
<1>1. Running("eprimary", "paren") /\ Advance /\ Leave(ret)
  BY DEF ParenClose
<1>2. at' = at + 1 /\ phase' = phase
  BY <1>1, Advanced
<1>3. phase = "parsing" /\ at = j /\ m = ret
  BY <1>1, ParenOwed
<1>4. OnTrack(text, stack', ret', at', n)
  BY <1>1, <1>2, <1>3, LeaveTrack
<1> QED
  BY <1>2, <1>3, <1>4 DEF Tracks

LEMMA LiteralTracks ==
  ASSUME NEW N, NEW b, NEW p, Scene(N, b, p), NEW n, NEW j, NEW m, Chase(n, j, m), Literal
  PROVE  Tracks(n)
<1>1. /\ Running("eprimary", "enter") /\ CTok.kind \in DOMAIN Literals /\ Advance
      /\ Leave(NewLit(Literals[CTok.kind], CTok.str))
  BY DEF Literal
<1>2. at' = at + 1 /\ phase' = phase
  BY <1>1, Advanced
<1>3. phase = "parsing" /\ at = j /\ m = NewLit(Literals[CTok.kind], CTok.str)
  BY <1>1, PrimaryAsked DEF Literals
<1>4. OnTrack(text, stack', ret', at', n)
  BY <1>1, <1>2, <1>3, LeaveTrack
<1> QED
  BY <1>2, <1>3, <1>4 DEF Tracks

(* There is an expression, and its parentheses are closed. *)
LEMMA ExprFailuresTrack ==
  ASSUME NEW N, NEW b, NEW p, Scene(N, b, p), NEW n, NEW j, NEW m, Chase(n, j, m)
  PROVE  ~ParenUnclosed /\ ~ExprExpected
<1>1. ParenUnclosed => FALSE
  BY ParenOwed DEF ParenUnclosed, Check
<1>2. ExprExpected => FALSE
  BY PrimaryAsked DEF ExprExpected
<1> QED
  BY <1>1, <1>2

LEMMA ExprTracks ==
  ASSUME NEW N, NEW b, NEW p, Scene(N, b, p), NEW n, NEW j, NEW m, Chase(n, j, m), ExprStep
  PROVE  Tracks(n)
<1>1. CASE Descend
  <2>1. \E h \in {"eass", "eadd", "emul"} : Running(h, "enter")
    BY <1>1 DEF Descend, Operand
  <2> QED
    BY <1>1, <2>1, AssTracks, LevelTracks
<1>2. CASE Assign \/ NoAssign \/ AssignEnd \/ Operator \/ NoOperator
  BY <1>2, AssignTracks, NoAssignTracks, AssignEndTracks, OperatorTracks, NoOperatorTracks
<1>3. CASE UnaryPlus \/ UnaryMinus \/ UnaryMinusEnd \/ UnaryPrimary \/ Postfix \/ NoPostfix
  BY <1>3, UnaryPlusTracks, UnaryMinusTracks, UnaryMinusEndTracks, UnaryPrimaryTracks,
     PostfixTracks, NoPostfixTracks
<1>4. CASE ParenOpen \/ ParenClose \/ Literal
  BY <1>4, ParenOpenTracks, ParenCloseTracks, LiteralTracks
<1> QED
  BY <1>1, <1>2, <1>3, <1>4, ExprFailuresTrack DEF ExprStep

-----------------------------------------------------------------------------
LEMMA SStmtTracks ==
  ASSUME NEW N, NEW b, NEW p, Scene(N, b, p), NEW n, NEW j, NEW m, Chase(n, j, m), SStmt
  PROVE  Tracks(n)
<1> DEFINE fn == CASE Check("KW_IF") -> "sif"
                   [] Check("KW_RETURN") -> "sreturn"
                   [] Check("KW_FOR") -> "sfor"
                   [] Check("TK_OCURLY") -> "sblock"
                   [] OTHER -> "sexpr"
<1>1. Goes(Frame(fn)) /\ at' = at /\ phase' = phase /\ Running("sstmt", "enter")
  BY DEF SStmt, Goes
<1>2. fn \in {"sif", "sreturn", "sfor", "sblock", "sexpr"} /\ (fn = "sblock" => Check("TK_OCURLY"))
  OBVIOUS
<1> HIDE DEF fn
<1>3. Top.fn = "sstmt" /\ phase = "parsing" /\ m \in Spells(text, "stmt", at, j)
  BY <1>1, Asked DEF Goal, Sorted
<1>4. /\ Len(text) \in Nat /\ at \in 1 .. Len(text) + 1 /\ j \in 0 .. Len(text)
      /\ CTok.kind = At(text, at) /\ Follows(text, "sstmt", j)
  BY <1>3, SceneFacts, ChaseFacts
<1>5. Frame(fn) \in FT(N) /\ Frame(fn).fn = fn /\ Frame(fn).pc = "enter"
  <2>1. fn \in Functions
    BY <1>2 DEF Functions
  <2> QED
    BY <2>1, FrameOK
<1>6. Follows(text, fn, j)
  BY <1>2, <1>4 DEF Follows
<1>7. m \in Goal(text, fn, at, j)
  <2>1. CASE fn = "sblock"
    <3>1. At(text, at) = "TK_OCURLY" /\ at <= j
      BY <1>2, <1>3, <1>4, <2>1, StmtEnds DEF Check
    <3>2. m \in Spells(text, "block", at, j)
      BY <1>3, <1>4, <3>1, StmtIs
    <3> QED
      BY <2>1, <3>2 DEF Goal, Sorted
  <2>2. CASE fn # "sblock"
    BY <1>2, <1>3, <2>2 DEF Goal, Sorted
  <2> QED
    BY <2>1, <2>2
<1>8. Owes(text, Frame(fn), at', ret', j, m)
  BY <1>1, <1>5, <1>7 DEF Owes
<1>9. OnTrack(text, stack', ret', at', n)
  BY <1>1, <1>5, <1>6, <1>8, GoTrack
<1> QED
  BY <1>1, <1>3, <1>9 DEF Tracks

LEMMA BlockAsked ==
  ASSUME NEW N, NEW b, NEW p, Scene(N, b, p), NEW n, NEW j, NEW m, Chase(n, j, m),
         Running("sblock", "enter")
  PROVE  /\ Top.fn = "sblock" /\ phase = "parsing" /\ CTok.kind = "TK_OCURLY"
         /\ At(text, j) = "TK_CCURLY" /\ at < j
         /\ \E l : m = NewStBlock(l) /\ Leads(text, "sblock", at, << >>, j - 1, l)
<1>1. Top.fn = "sblock" /\ phase = "parsing" /\ m \in Spells(text, "block", at, j)
  BY Asked DEF Goal, Sorted
<1>2. /\ Len(text) \in Nat /\ at \in 1 .. Len(text) + 1 /\ j \in 0 .. Len(text)
      /\ CTok.kind = At(text, at) /\ at \in Nat /\ j \in Nat
  BY SceneFacts, ChaseFacts
<1>3. at < j /\ At(text, at) = "TK_OCURLY" /\ At(text, j) = "TK_CCURLY"
  BY <1>1, <1>2, NotEmpty
<1>4. PICK l \in Spells(text, "list", at + 1, j - 1) : m = NewStBlock(l)
  BY <1>1, <1>2, <1>3, BlockIs
<1>5. at + 1 \in 1 .. Len(text) + 1 /\ j - 1 \in (at + 1) - 1 .. Len(text) /\ (at + 1) - 1 = at
  BY <1>2, <1>3
<1>6. Leads(text, "sblock", (at + 1) - 1, << >>, j - 1, l)
  BY <1>2, <1>4, <1>5, BeginsEmpty
<1> QED
  BY <1>1, <1>2, <1>3, <1>4, <1>5, <1>6

LEMMA BlockOpenTracks ==
  ASSUME NEW N, NEW b, NEW p, Scene(N, b, p), NEW n, NEW j, NEW m, Chase(n, j, m), BlockOpen
  PROVE  Tracks(n)
<1> DEFINE f == Open(Top, "list", at)
<1>1. Running("sblock", "enter") /\ Advance /\ Goes(f)
  BY DEF BlockOpen, Open
<1>2. at' = at + 1 /\ phase' = phase
  BY <1>1, Advanced
<1>3. /\ Top.fn = "sblock" /\ phase = "parsing" /\ At(text, j) = "TK_CCURLY" /\ at < j
      /\ \E l : m = NewStBlock(l) /\ Leads(text, "sblock", at, << >>, j - 1, l)
  BY <1>1, BlockAsked
<1>4. "list" \in PCs /\ Top \in FT(N) /\ at \in Nat /\ j \in Nat
  BY SceneFacts, ChaseFacts DEF PCs
<1>5. Top.kids = << >>
  BY <1>1, Entered
<1>6. f \in FT(N) /\ f.fn = "sblock" /\ f.pc = "list" /\ f.kids = << >>
  <2>1. Updated(f, Top, "list", Top.kids, N)
    BY <1>4, Update
  <2> QED
    BY <1>3, <1>5, <2>1 DEF Updated
<1> HIDE DEF f
<1>7. at' - 1 = at /\ 1 <= j
  BY <1>2, <1>3, <1>4
<1>8. Owes(text, f, at', ret', j, m)
  BY <1>3, <1>6, <1>7 DEF Owes, Wants, WantsStmt, WantsFor, WantsExpr
<1>9. Follows(text, f.fn, j)
  BY <1>6 DEF Follows
<1>10. OnTrack(text, stack', ret', at', n)
  BY <1>1, <1>6, <1>8, <1>9, GoTrack
<1> QED
  BY <1>2, <1>3, <1>10 DEF Tracks

(* What may stand after a statement of a list. *)
LEMMA ListFollows ==
  ASSUME NEW T, Len(T) \in Nat, NEW c \in Nat, NEW l, NEW j \in 1 .. Len(T), NEW n,
         Leads(T, "sblock", c, l, j - 1, n), At(T, j) = "TK_CCURLY"
  PROVE  At(T, c + 1) # "KW_ELSE"
<1>1. j - 1 \in Nat /\ j \in Nat
  OBVIOUS
<1>2. \/ c = j - 1
      \/ \E e \in 0 .. j - 1 : \E q : Links(T, "sblock", c, l, e, q)
  BY <1>1, LeadsFirst
<1>3. CASE c = j - 1
  <2>1. c + 1 = j
    BY <1>3
  <2> QED
    BY <2>1
<1>4. CASE \E e \in 0 .. j - 1 : \E q : Links(T, "sblock", c, l, e, q)
  <2>1. PICK e \in 0 .. j - 1 : \E q : Links(T, "sblock", c, l, e, q)
    BY <1>4
  <2>2. c + 1 <= e /\ \E s : s \in Spells(T, "stmt", c + 1, e)
    BY <2>1 DEF Links
  <2>3. c + 1 \in 1 .. Len(T) + 1 /\ e \in 0 .. Len(T)
    BY <2>2
  <2>4. At(T, c + 1) \in Starters \/ StartsExpr(At(T, c + 1))
    BY <2>2, <2>3, StmtStarts
  <2> QED
    BY <2>4 DEF Starters, StartsExpr
<1> QED
  BY <1>2, <1>3, <1>4

(* Whether another statement of the block follows. *)
LEMMA BlockOwed ==
  ASSUME NEW N, NEW b, NEW p, Scene(N, b, p), NEW n, NEW j, NEW m, Chase(n, j, m), InBlock
  PROVE  /\ Top.fn = "sblock" /\ phase = "parsing" /\ CTok.kind = At(text, at)
         /\ \/ at = j /\ At(text, at) = "TK_CCURLY" /\ m = NewStBlock(List)
            \/ /\ At(text, at) \notin {"TK_CCURLY", "TK_EOF"}
               /\ \E l : /\ m = NewStBlock(l) /\ At(text, j) = "TK_CCURLY" /\ 1 <= j
                         /\ \E c \in 0 .. j - 1 : \E s \in Spells(text, "stmt", at, c) :
                              Leads(text, "sblock", c, Append(List, s), j - 1, l)
<1>1. /\ Top.fn = "sblock" /\ Top.pc \in {"list", "stmt"} /\ phase = "parsing"
      /\ Wants(text, Top, at - 1, ret, j, m)
  <2>1. Running("sblock", "list") \/ Running("sblock", "stmt")
    BY DEF InBlock
  <2> QED
    BY <2>1, Owed
<1>2. PICK l : /\ m = NewStBlock(l) /\ At(text, j) = "TK_CCURLY" /\ 1 <= j
               /\ Leads(text, "sblock", at - 1, List, j - 1, l)
  BY <1>1 DEF Wants, WantsStmt, List
<1>3. /\ at \in Nat /\ j \in Nat /\ (at - 1) + 1 = at /\ CTok.kind = At(text, at)
      /\ Len(text) \in Nat /\ j \in 0 .. Len(text) /\ at \in 1 .. Len(text) + 1
  BY SceneFacts, ChaseFacts
<1>4. j - 1 \in Nat
  BY <1>2, <1>3
<1>5. \/ at - 1 = j - 1 /\ List = l
      \/ \E c \in 0 .. j - 1 : \E q : /\ Links(text, "sblock", at - 1, List, c, q)
                                      /\ Leads(text, "sblock", c, q, j - 1, l)
  BY <1>2, <1>4, LeadsFirst
<1>6. CASE at - 1 = j - 1 /\ List = l
  <2>1. at = j
    BY <1>3, <1>6
  <2> QED
    BY <1>1, <1>2, <1>3, <1>6, <2>1
<1>7. CASE \E c \in 0 .. j - 1 : \E q : /\ Links(text, "sblock", at - 1, List, c, q)
                                        /\ Leads(text, "sblock", c, q, j - 1, l)
  <2>1. PICK c \in 0 .. j - 1 : \E q : /\ Links(text, "sblock", at - 1, List, c, q)
                                       /\ Leads(text, "sblock", c, q, j - 1, l)
    BY <1>7
  <2>2. PICK q : /\ Links(text, "sblock", at - 1, List, c, q)
                 /\ Leads(text, "sblock", c, q, j - 1, l)
    BY <2>1
  <2>3. PICK s \in Spells(text, "stmt", at, c) : q = Append(List, s)
    BY <1>3, <2>2 DEF Links
  <2>4. c \in 0 .. Len(text)
    BY <1>3
  <2>5. At(text, at) \in Starters \/ StartsExpr(At(text, at))
    BY <1>3, <2>3, <2>4, StmtStarts
  <2>6. At(text, at) \notin {"TK_CCURLY", "TK_EOF"}
    BY <2>5 DEF Starters, StartsExpr
  <2> QED
    BY <1>1, <1>2, <1>3, <2>2, <2>3, <2>6
<1> QED
  BY <1>5, <1>6, <1>7

LEMMA BlockStmtTracks ==
  ASSUME NEW N, NEW b, NEW p, Scene(N, b, p), NEW n, NEW j, NEW m, Chase(n, j, m), BlockStmt
  PROVE  Tracks(n)
<1> DEFINE f == Keep(Top, "stmt", List)
<1>1. InBlock /\ ~Check("TK_CCURLY") /\ Call(f, "sstmt") /\ at' = at /\ phase' = phase
  BY DEF BlockStmt, Keep
<1>2. List \in Seq(N)
  <2>1. List \in Seq(Stmts(N))
    BY <1>1, ListOK DEF Scene
  <2> QED
    BY <2>1, NodeSets, SeqGrows
<1>3. "stmt" \in PCs /\ "sstmt" \in Functions
  BY DEF PCs, Functions
<1>4. Top.fn = "sblock" /\ phase = "parsing" /\ CTok.kind = At(text, at)
  BY <1>1, BlockOwed
<1>5. f \in FT(N) /\ f.fn = "sblock" /\ f.pc = "stmt" /\ f.kids = List
  BY <1>2, <1>3, <1>4, SceneFacts, KeepFacts
<1>6. PICK l : /\ m = NewStBlock(l) /\ At(text, j) = "TK_CCURLY" /\ 1 <= j
               /\ \E c \in 0 .. j - 1 : \E s \in Spells(text, "stmt", at, c) :
                    Leads(text, "sblock", c, Append(List, s), j - 1, l)
  <2>1. At(text, at) # "TK_CCURLY"
    BY <1>1, <1>4 DEF Check
  <2> QED
    BY <1>1, <2>1, BlockOwed
<1>7. PICK c \in 0 .. j - 1 : \E s \in Spells(text, "stmt", at, c) :
                    Leads(text, "sblock", c, Append(List, s), j - 1, l)
  BY <1>6
<1>8. PICK s \in Spells(text, "stmt", at, c) : Leads(text, "sblock", c, Append(List, s), j - 1, l)
  BY <1>7
<1>9. Len(text) \in Nat /\ j \in 1 .. Len(text) /\ j \in Nat
  BY <1>6, SceneFacts, ChaseFacts
<1>10. c \in 0 .. Len(text) /\ c \in Nat
  BY <1>9
<1> HIDE DEF f
<1>11. Wants(text, f, c, s, j, m)
  BY <1>5, <1>6, <1>8 DEF Wants, WantsStmt, WantsFor, WantsExpr
<1>12. Follows(text, "sstmt", c)
  <2> DEFINE r == Append(List, s)
  <2>1. Leads(text, "sblock", c, r, j - 1, l)
    BY <1>8
  <2> HIDE DEF r
  <2>2. At(text, c + 1) # "KW_ELSE"
    BY <1>6, <1>9, <1>10, <2>1, ListFollows
  <2> QED
    BY <2>2 DEF Follows
<1>13. s \in Goal(text, "sstmt", at', c)
  BY <1>1, <1>8 DEF Goal, Sorted
<1>14. OnTrack(text, stack', ret', at', n)
  BY <1>1, <1>3, <1>4, <1>5, <1>10, <1>11, <1>12, <1>13, CallTrack
<1> QED
  BY <1>1, <1>4, <1>14 DEF Tracks

LEMMA BlockCloseTracks ==
  ASSUME NEW N, NEW b, NEW p, Scene(N, b, p), NEW n, NEW j, NEW m, Chase(n, j, m), BlockClose
  PROVE  Tracks(n)
<1>1. InBlock /\ Check("TK_CCURLY") /\ Advance /\ Leave(NewStBlock(List))
  BY DEF BlockClose
<1>2. at' = at + 1 /\ phase' = phase
  BY <1>1, Advanced
<1>3. phase = "parsing" /\ CTok.kind = At(text, at)
  BY <1>1, BlockOwed
<1>4. at = j /\ m = NewStBlock(List)
  <2>1. At(text, at) = "TK_CCURLY"
    BY <1>1, <1>3 DEF Check
  <2> QED
    BY <1>1, <2>1, BlockOwed
<1>5. OnTrack(text, stack', ret', at', n)
  BY <1>1, <1>2, <1>4, LeaveTrack
<1> QED
  BY <1>2, <1>3, <1>5 DEF Tracks

(* A block begins where one is read, and is closed. *)
LEMMA BlockFailuresTrack ==
  ASSUME NEW N, NEW b, NEW p, Scene(N, b, p), NEW n, NEW j, NEW m, Chase(n, j, m)
  PROVE  ~BlockExpected /\ ~BlockUnclosed
<1>1. BlockExpected => FALSE
  BY BlockAsked DEF BlockExpected, Check
<1>2. BlockUnclosed => FALSE
  <2> SUFFICES ASSUME BlockUnclosed PROVE FALSE
    OBVIOUS
  <2>1. InBlock /\ CTok.kind = "TK_EOF"
    BY DEF BlockUnclosed, Check
  <2>2. CTok.kind = At(text, at) /\ At(text, at) # "TK_EOF"
    BY <2>1, BlockOwed
  <2> QED
    BY <2>1, <2>2
<1> QED
  BY <1>1, <1>2

(* What a statement is that begins with another token than a bracket. *)
LEMMA StmtAsked ==
  ASSUME NEW N, NEW b, NEW p, Scene(N, b, p), NEW n, NEW j, NEW m, Chase(n, j, m),
         NEW fn \in {"sexpr", "sreturn", "sif", "sfor"}, Running(fn, "enter")
  PROVE  /\ Top.fn = fn /\ phase = "parsing" /\ Follows(text, fn, j)
         /\ fn = "sexpr" =>
              /\ At(text, j) = "TK_SEMI" /\ at <= j
              /\ \E x \in Spells(text, "expr", at, j - 1) : m = NewStExpr(x)
         /\ fn = "sreturn" =>
              /\ At(text, j) = "TK_SEMI" /\ at <= j
              /\ \E x \in Spells(text, "expr", at + 1, j - 1) : m = NewStReturn(x)
         /\ fn = "sif" => m \in If(text, Trees(text), at, j)
         /\ fn = "sfor" => m \in While(text, Trees(text), at, j) \cup For(text, Trees(text), at, j)
<1>1. Top.fn = fn /\ phase = "parsing" /\ m \in Spells(text, "stmt", at, j)
  BY Asked DEF Goal, Sorted
<1>2. /\ Len(text) \in Nat /\ at \in 1 .. Len(text) + 1 /\ j \in 0 .. Len(text) /\ p = at
      /\ Enters(text, Top, p, at) /\ at \in Nat /\ j \in Nat
  BY <1>1, SceneFacts, ChaseFacts, Entered DEF Enters
<1>3. at <= j
  BY <1>1, <1>2, StmtEnds
<1>4. m \in Spells(text, "stmt", at, j) /\ ~(at > j)
  BY <1>1, <1>2, <1>3
<1>5. Follows(text, fn, j)
  BY <1>1, ChaseFacts
<1>6. CASE fn = "sexpr"
  <2>1. At(text, at) \notin Starters
    BY <1>1, <1>2, <1>6 DEF Enters
  <2>2. At(text, j) = "TK_SEMI" /\ m \in {NewStExpr(x) : x \in Spells(text, "expr", at, j - 1)}
    BY <1>2, <1>4, <2>1, StmtIs DEF Starters
  <2> QED
    BY <1>1, <1>3, <1>5, <1>6, <2>2
<1>7. CASE fn = "sreturn"
  <2>1. At(text, at) = "KW_RETURN"
    BY <1>1, <1>2, <1>7 DEF Enters, Heads
  <2>2. At(text, j) = "TK_SEMI" /\ m \in {NewStReturn(x) : x \in Spells(text, "expr", at + 1, j - 1)}
    BY <1>2, <1>4, <2>1, StmtIs
  <2> QED
    BY <1>1, <1>3, <1>5, <1>7, <2>2
<1>8. CASE fn = "sif"
  <2>1. At(text, at) = "KW_IF"
    BY <1>1, <1>2, <1>8 DEF Enters, Heads
  <2>2. m \in If(text, Trees(text), at, j)
    BY <1>2, <1>4, <2>1, StmtIs
  <2> QED
    BY <1>1, <1>5, <1>8, <2>2
<1>9. CASE fn = "sfor"
  <2>1. At(text, at) = "KW_FOR"
    BY <1>1, <1>2, <1>9 DEF Enters, Heads
  <2>2. m \in While(text, Trees(text), at, j) \cup For(text, Trees(text), at, j)
    BY <1>2, <1>4, <2>1, StmtIs
  <2> QED
    BY <1>1, <1>5, <1>9, <2>2
<1> QED
  BY <1>6, <1>7, <1>8, <1>9

-----------------------------------------------------------------------------
LEMMA SExprTracks ==
  ASSUME NEW N, NEW b, NEW p, Scene(N, b, p), NEW n, NEW j, NEW m, Chase(n, j, m), SExpr
  PROVE  Tracks(n)
<1> DEFINE f == To(Top, "semi")
           c == j - 1
<1>1. Running("sexpr", "enter") /\ Call(f, "eass") /\ at' = at /\ phase' = phase
  BY DEF SExpr, To
<1>2. /\ Top.fn = "sexpr" /\ phase = "parsing" /\ At(text, j) = "TK_SEMI" /\ at <= j
      /\ \E x \in Spells(text, "expr", at, j - 1) : m = NewStExpr(x)
  BY <1>1, StmtAsked
<1>3. PICK x \in Spells(text, "expr", at, j - 1) : m = NewStExpr(x)
  BY <1>2
<1>4. /\ Len(text) \in Nat /\ at \in 1 .. Len(text) + 1 /\ j \in 0 .. Len(text) /\ at \in Nat /\ j \in Nat
      /\ Top \in FT(N)
  BY SceneFacts, ChaseFacts
<1>5. c \in 0 .. Len(text) /\ c + 1 = j
  BY <1>2, <1>4
<1>6. "semi" \in PCs /\ "eass" \in Functions
  BY DEF PCs, Functions
<1>7. f \in FT(N) /\ f.fn = "sexpr" /\ f.pc = "semi"
  BY <1>2, <1>6, ToFacts
<1> HIDE DEF f
<1>8. Wants(text, f, c, x, j, m)
  BY <1>2, <1>3, <1>7 DEF Wants, WantsStmt, WantsFor, WantsExpr
<1>9. Follows(text, "eass", c)
  BY <1>2, <1>5 DEF Follows, Ends
<1>10. x \in Goal(text, "eass", at', c)
  BY <1>1, <1>3 DEF Goal, Sorted
<1> HIDE DEF c
<1>11. OnTrack(text, stack', ret', at', n)
  BY <1>1, <1>2, <1>5, <1>6, <1>7, <1>8, <1>9, <1>10, CallTrack
<1> QED
  BY <1>1, <1>2, <1>11 DEF Tracks

LEMMA SReturnTracks ==
  ASSUME NEW N, NEW b, NEW p, Scene(N, b, p), NEW n, NEW j, NEW m, Chase(n, j, m), SReturn
  PROVE  Tracks(n)
<1> DEFINE f == To(Top, "semi")
           c == j - 1
<1>1. Running("sreturn", "enter") /\ Call(f, "eass") /\ Advance
  BY DEF SReturn, To
<1>2. /\ Top.fn = "sreturn" /\ phase = "parsing" /\ At(text, j) = "TK_SEMI" /\ at <= j
      /\ \E x \in Spells(text, "expr", at + 1, j - 1) : m = NewStReturn(x)
  BY <1>1, StmtAsked
<1>3. PICK x \in Spells(text, "expr", at + 1, j - 1) : m = NewStReturn(x)
  BY <1>2
<1>4. /\ Len(text) \in Nat /\ at \in 1 .. Len(text) + 1 /\ j \in 0 .. Len(text) /\ at \in Nat /\ j \in Nat
      /\ Top \in FT(N)
  BY SceneFacts, ChaseFacts
<1>5. c \in 0 .. Len(text) /\ c + 1 = j
  BY <1>2, <1>4
<1>6. "semi" \in PCs /\ "eass" \in Functions
  BY DEF PCs, Functions
<1>7. f \in FT(N) /\ f.fn = "sreturn" /\ f.pc = "semi"
  BY <1>2, <1>6, ToFacts
<1>8. at' = at + 1 /\ phase' = phase
  BY <1>1, Advanced
<1> HIDE DEF f
<1>9. Wants(text, f, c, x, j, m)
  BY <1>2, <1>3, <1>7 DEF Wants, WantsStmt, WantsFor, WantsExpr
<1>10. Follows(text, "eass", c)
  BY <1>2, <1>5 DEF Follows, Ends
<1>11. x \in Goal(text, "eass", at', c)
  BY <1>3, <1>8 DEF Goal, Sorted
<1> HIDE DEF c
<1>12. OnTrack(text, stack', ret', at', n)
  BY <1>1, <1>2, <1>5, <1>6, <1>7, <1>9, <1>10, <1>11, CallTrack
<1> QED
  BY <1>2, <1>8, <1>12 DEF Tracks

(* The semicolon that ends a statement. *)
LEMMA SemiOwed ==
  ASSUME NEW N, NEW b, NEW p, Scene(N, b, p), NEW n, NEW j, NEW m, Chase(n, j, m),
         NEW fn \in {"sexpr", "sreturn"}, Running(fn, "semi")
  PROVE  /\ phase = "parsing" /\ at = j /\ At(text, at) = "TK_SEMI"
         /\ m = IF fn = "sexpr" THEN NewStExpr(ret) ELSE NewStReturn(ret)
<1>1. Top.fn = fn /\ phase = "parsing" /\ Wants(text, Top, at - 1, ret, j, m)
  BY Owed
<1>2. /\ at - 1 = j - 1 /\ At(text, j) = "TK_SEMI"
      /\ m = IF fn = "sexpr" THEN NewStExpr(ret) ELSE NewStReturn(ret)
  BY <1>1 DEF Wants, WantsStmt
<1>3. at = j
  BY <1>2, SceneFacts, ChaseFacts
<1> QED
  BY <1>1, <1>2, <1>3

LEMMA SemiTracks ==
  ASSUME NEW N, NEW b, NEW p, Scene(N, b, p), NEW n, NEW j, NEW m, Chase(n, j, m),
         SExprEnd \/ SReturnEnd
  PROVE  Tracks(n)
<1>1. PICK fn \in {"sexpr", "sreturn"} :
        /\ Running(fn, "semi") /\ Advance
        /\ Leave(IF fn = "sexpr" THEN NewStExpr(ret) ELSE NewStReturn(ret))
  BY DEF SExprEnd, SReturnEnd, Semi
<1>2. at' = at + 1 /\ phase' = phase
  BY <1>1, Advanced
<1>3. at = j /\ phase = "parsing" /\ Leave(m)
  BY <1>1, SemiOwed
<1>4. OnTrack(text, stack', ret', at', n)
  BY <1>2, <1>3, LeaveTrack
<1> QED
  BY <1>2, <1>3, <1>4 DEF Tracks

LEMMA SemiFailureTracks ==
  ASSUME NEW N, NEW b, NEW p, Scene(N, b, p), NEW n, NEW j, NEW m, Chase(n, j, m)
  PROVE  ~SemiExpected
<1> SUFFICES ASSUME SemiExpected PROVE FALSE
  OBVIOUS
<1>1. ~Check("TK_SEMI") /\ CTok.kind = At(text, at)
  BY SceneFacts DEF SemiExpected
<1>2. At(text, at) # "TK_SEMI"
  BY <1>1 DEF Check
<1>3. CASE Running("sexpr", "semi") \/ Running("sreturn", "semi")
  <2>1. PICK fn \in {"sexpr", "sreturn"} : Running(fn, "semi")
    BY <1>3
  <2> QED
    BY <1>2, <2>1, SemiOwed
<1>4. CASE Running("sfor", "cond")
  <2>1. Top.fn = "sfor" /\ Top.pc = "cond" /\ Wants(text, Top, at - 1, ret, j, m)
    BY <1>4, Owed
  <2>2. At(text, (at - 1) + 1) = "TK_SEMI"
    BY <2>1 DEF Wants, WantsFor
  <2>3. (at - 1) + 1 = at
    BY SceneFacts
  <2> QED
    BY <1>2, <2>2, <2>3
<1> QED
  BY <1>3, <1>4 DEF SemiExpected

LEMMA SIfTracks ==
  ASSUME NEW N, NEW b, NEW p, Scene(N, b, p), NEW n, NEW j, NEW m, Chase(n, j, m), SIf
  PROVE  Tracks(n)
<1> DEFINE f == To(Top, "cond")
<1>1. Running("sif", "enter") /\ Call(f, "eass") /\ Advance
  BY DEF SIf, To
<1>2. Top.fn = "sif" /\ phase = "parsing" /\ m \in If(text, Trees(text), at, j)
  BY <1>1, StmtAsked
<1>3. at' = at + 1 /\ phase' = phase
  BY <1>1, Advanced
<1>4. /\ Len(text) \in Nat /\ at \in 1 .. Len(text) + 1 /\ j \in 0 .. Len(text) /\ at \in Nat /\ j \in Nat
      /\ Top \in FT(N)
  BY SceneFacts, ChaseFacts
<1>5. "cond" \in PCs /\ "eass" \in Functions
  BY DEF PCs, Functions
<1>6. f \in FT(N) /\ f.fn = "sif" /\ f.pc = "cond"
  BY <1>2, <1>5, ToFacts
<1> HIDE DEF f
<1>7. PICK k \in at + 1 .. j - 1 :
        /\ At(text, k) = "TK_OCURLY"
        /\ \/ \E c \in Spells(text, "expr", at + 1, k - 1), x \in Spells(text, "block", k, j) :
                m = NewStIf(c, x, NULL)
           \/ \E h \in k + 1 .. j - 1 :
                /\ At(text, h) = "KW_ELSE"
                /\ \E c \in Spells(text, "expr", at + 1, k - 1), x \in Spells(text, "block", k, h - 1),
                      y \in Spells(text, "block", h + 1, j) : m = NewStIf(c, x, y)
  BY <1>2, IfIs
<1> DEFINE d == k - 1
<1>8. d \in 0 .. Len(text) /\ d + 1 = k /\ d \in Nat
  BY <1>4
<1>9. Follows(text, "eass", d)
  BY <1>7, <1>8 DEF Follows, Ends
<1>10. PICK c \in Spells(text, "expr", at + 1, d) :
        \/ \E x \in Spells(text, "block", d + 1, j) : m = NewStIf(c, x, NULL)
        \/ \E h \in d + 1 .. j : /\ At(text, h) = "KW_ELSE"
                                 /\ \E x \in Spells(text, "block", d + 1, h - 1),
                                       y \in Spells(text, "block", h + 1, j) : m = NewStIf(c, x, y)
  <2>1. CASE \E c \in Spells(text, "expr", at + 1, k - 1), x \in Spells(text, "block", k, j) :
               m = NewStIf(c, x, NULL)
    BY <1>8, <2>1
  <2>2. CASE \E h \in k + 1 .. j - 1 :
               /\ At(text, h) = "KW_ELSE"
               /\ \E c \in Spells(text, "expr", at + 1, k - 1), x \in Spells(text, "block", k, h - 1),
                     y \in Spells(text, "block", h + 1, j) : m = NewStIf(c, x, y)
    <3>1. PICK h \in k + 1 .. j - 1 :
               /\ At(text, h) = "KW_ELSE"
               /\ \E c \in Spells(text, "expr", at + 1, k - 1), x \in Spells(text, "block", k, h - 1),
                     y \in Spells(text, "block", h + 1, j) : m = NewStIf(c, x, y)
      BY <2>2
    <3>2. h \in d + 1 .. j
      BY <1>4, <1>8
    <3> QED
      BY <1>8, <3>1, <3>2
  <2> QED
    BY <1>7, <2>1, <2>2
<1> HIDE DEF d
<1>11. Wants(text, f, d, c, j, m)
  BY <1>6, <1>10 DEF Wants, WantsStmt, WantsFor, WantsExpr
<1>12. c \in Goal(text, "eass", at', d)
  BY <1>3 DEF Goal, Sorted
<1>13. OnTrack(text, stack', ret', at', n)
  BY <1>1, <1>2, <1>5, <1>6, <1>8, <1>9, <1>11, <1>12, CallTrack
<1> QED
  BY <1>2, <1>3, <1>13 DEF Tracks

LEMMA IfBlockTracks ==
  ASSUME NEW N, NEW b, NEW p, Scene(N, b, p), NEW n, NEW j, NEW m, Chase(n, j, m), IfBlock
  PROVE  Tracks(n)
<1> DEFINE k == <<ret>>
           f == Keep(Top, "block", k)
<1>1. Running("sif", "cond") /\ Call(f, "sblock") /\ at' = at /\ phase' = phase
  BY DEF IfBlock, Keep
<1>2. Top.fn = "sif" /\ Top.pc = "cond" /\ Top \in FT(N) /\ ret \in Exprs(N)
  BY <1>1, Runs DEF Scene, Wanted, AwaitsBlock
<1>3. phase = "parsing" /\ Wants(text, Top, at - 1, ret, j, m)
  BY <1>1, Owed
<1>4. "block" \in PCs /\ "sblock" \in Functions
  BY DEF PCs, Functions
<1>5. k \in Seq(N) /\ k[1] = ret
  BY <1>2, NodeSets, One
<1> HIDE DEF k
<1>6. f \in FT(N) /\ f.fn = "sif" /\ f.pc = "block" /\ f.kids = k
  BY <1>2, <1>4, <1>5, KeepFacts
<1> HIDE DEF f
<1>7. /\ Len(text) \in Nat /\ at \in 1 .. Len(text) + 1 /\ j \in 0 .. Len(text) /\ at \in Nat /\ j \in Nat
      /\ (at - 1) + 1 = at
  BY SceneFacts, ChaseFacts
<1>8. \/ \E x \in Spells(text, "block", at, j) : m = NewStIf(ret, x, NULL)
      \/ \E h \in at .. j : /\ At(text, h) = "KW_ELSE"
                            /\ \E x \in Spells(text, "block", at, h - 1),
                                  y \in Spells(text, "block", h + 1, j) : m = NewStIf(ret, x, y)
  BY <1>2, <1>3, <1>7 DEF Wants, WantsStmt
<1>9. \E c \in 0 .. Len(text) : \E x \in Spells(text, "block", at, c) : Wants(text, f, c, x, j, m)
  <2>1. CASE \E x \in Spells(text, "block", at, j) : m = NewStIf(ret, x, NULL)
    <3>1. PICK x \in Spells(text, "block", at, j) : m = NewStIf(ret, x, NULL)
      BY <2>1
    <3>2. Wants(text, f, j, x, j, m)
      BY <1>5, <1>6, <3>1 DEF Wants, WantsStmt, WantsFor, WantsExpr
    <3> QED
      BY <1>7, <3>2
  <2>2. CASE \E h \in at .. j : /\ At(text, h) = "KW_ELSE"
                                /\ \E x \in Spells(text, "block", at, h - 1),
                                      y \in Spells(text, "block", h + 1, j) : m = NewStIf(ret, x, y)
    <3>1. PICK h \in at .. j : /\ At(text, h) = "KW_ELSE"
                                /\ \E x \in Spells(text, "block", at, h - 1),
                                      y \in Spells(text, "block", h + 1, j) : m = NewStIf(ret, x, y)
      BY <2>2
    <3>2. PICK x \in Spells(text, "block", at, h - 1), y \in Spells(text, "block", h + 1, j) :
            m = NewStIf(ret, x, y)
      BY <3>1
    <3> DEFINE c == h - 1
    <3>3. c \in 0 .. Len(text) /\ c + 1 = h /\ c + 2 = h + 1
      BY <1>7
    <3>4. x \in Spells(text, "block", at, c) /\ At(text, c + 1) = "KW_ELSE"
          /\ y \in Spells(text, "block", c + 2, j)
      BY <3>1, <3>3
    <3> HIDE DEF c
    <3>5. Wants(text, f, c, x, j, m)
      BY <1>5, <1>6, <3>2, <3>4 DEF Wants, WantsStmt, WantsFor, WantsExpr
    <3> QED
      BY <3>3, <3>4, <3>5
  <2> QED
    BY <1>8, <2>1, <2>2
<1>10. PICK c \in 0 .. Len(text) : \E x \in Spells(text, "block", at, c) : Wants(text, f, c, x, j, m)
  BY <1>9
<1>11. PICK x \in Spells(text, "block", at, c) : Wants(text, f, c, x, j, m)
  BY <1>10
<1>12. x \in Goal(text, "sblock", at', c) /\ Follows(text, "sblock", c)
  BY <1>1, <1>11 DEF Goal, Sorted, Follows
<1>13. OnTrack(text, stack', ret', at', n)
  BY <1>1, <1>2, <1>4, <1>6, <1>11, <1>12, CallTrack
<1> QED
  BY <1>1, <1>3, <1>13 DEF Tracks

(* Whether an else follows the block of an if. *)
LEMMA IfOwed ==
  ASSUME NEW N, NEW b, NEW p, Scene(N, b, p), NEW n, NEW j, NEW m, Chase(n, j, m),
         Running("sif", "block")
  PROVE  /\ Top.fn = "sif" /\ Top.pc = "block" /\ phase = "parsing" /\ CTok.kind = At(text, at)
         /\ \/ at = j + 1 /\ At(text, at) # "KW_ELSE" /\ m = NewStIf(Top.kids[1], ret, NULL)
            \/ /\ At(text, at) = "KW_ELSE"
               /\ \E y \in Spells(text, "block", at + 1, j) : m = NewStIf(Top.kids[1], ret, y)
<1>1. Top.fn = "sif" /\ Top.pc = "block" /\ phase = "parsing" /\ Wants(text, Top, at - 1, ret, j, m)
  BY Owed
<1>2. /\ at \in Nat /\ j \in Nat /\ (at - 1) + 1 = at /\ (at - 1) + 2 = at + 1
      /\ CTok.kind = At(text, at)
  BY SceneFacts, ChaseFacts
<1>3. Follows(text, "sif", j)
  BY <1>1, ChaseFacts
<1>4. \/ at - 1 = j /\ m = NewStIf(Top.kids[1], ret, NULL)
      \/ /\ At(text, at) = "KW_ELSE"
         /\ \E y \in Spells(text, "block", at + 1, j) : m = NewStIf(Top.kids[1], ret, y)
  BY <1>1, <1>2 DEF Wants, WantsStmt
<1>5. at - 1 = j => at = j + 1 /\ At(text, at) # "KW_ELSE"
  <2>1. at - 1 = j => at = j + 1
    BY <1>2
  <2> QED
    BY <1>3, <2>1 DEF Follows
<1> QED
  BY <1>1, <1>2, <1>4, <1>5

LEMMA IfElseTracks ==
  ASSUME NEW N, NEW b, NEW p, Scene(N, b, p), NEW n, NEW j, NEW m, Chase(n, j, m), IfElse
  PROVE  Tracks(n)
<1> DEFINE k == Append(Top.kids, ret)
           f == Keep(Top, "else", k)
<1>1. Running("sif", "block") /\ Call(f, "sblock") /\ Check("KW_ELSE") /\ Advance
  BY DEF IfElse, Keep
<1>2. Top.fn = "sif" /\ Top.pc = "block" /\ Top \in FT(N) /\ KidsOK(Top, N) /\ ret \in Blocks(N)
  BY <1>1, Runs DEF Scene, Wanted, AwaitsBlock
<1>3. "else" \in PCs /\ "sblock" \in Functions
  BY DEF PCs, Functions
<1>4. k \in Seq(N) /\ k[1] = Top.kids[1] /\ k[2] = ret
  <2>1. Top.kids \in Seq(N) /\ Len(Top.kids) = 1
    BY <1>2 DEF FT, KidsOK
  <2>2. ret \in N
    BY <1>2, NodeSets
  <2> QED
    BY <2>1, <2>2, Appended
<1> HIDE DEF k
<1>5. f \in FT(N) /\ f.fn = "sif" /\ f.pc = "else" /\ f.kids = k
  BY <1>2, <1>3, <1>4, KeepFacts
<1> HIDE DEF f
<1>6. at' = at + 1 /\ phase' = phase
  BY <1>1, Advanced
<1>7. CTok.kind = At(text, at) /\ phase = "parsing"
  BY <1>1, IfOwed
<1>8. At(text, at) = "KW_ELSE"
  BY <1>1, <1>7 DEF Check
<1>9. PICK y \in Spells(text, "block", at + 1, j) : m = NewStIf(Top.kids[1], ret, y)
  BY <1>1, <1>8, IfOwed
<1>10. j \in 0 .. Len(text) /\ Follows(text, "sblock", j)
  BY ChaseFacts DEF Follows
<1>11. Wants(text, f, j, y, j, m)
  BY <1>4, <1>5, <1>9 DEF Wants, WantsStmt, WantsFor, WantsExpr
<1>12. y \in Goal(text, "sblock", at', j)
  BY <1>6, <1>9 DEF Goal, Sorted
<1>13. OnTrack(text, stack', ret', at', n)
  BY <1>1, <1>2, <1>3, <1>5, <1>10, <1>11, <1>12, CallTrack
<1> QED
  BY <1>6, <1>7, <1>13 DEF Tracks

LEMMA IfEndTracks ==
  ASSUME NEW N, NEW b, NEW p, Scene(N, b, p), NEW n, NEW j, NEW m, Chase(n, j, m), IfEnd
  PROVE  Tracks(n)
<1>1. /\ Running("sif", "block") /\ ~Check("KW_ELSE") /\ Leave(NewStIf(Top.kids[1], ret, NULL))
      /\ at' = at /\ phase' = phase
  BY DEF IfEnd
<1>2. CTok.kind = At(text, at) /\ phase = "parsing"
  BY <1>1, IfOwed
<1>3. At(text, at) # "KW_ELSE"
  BY <1>1, <1>2 DEF Check
<1>4. at = j + 1 /\ m = NewStIf(Top.kids[1], ret, NULL)
  BY <1>1, <1>3, IfOwed
<1>5. OnTrack(text, stack', ret', at', n)
  BY <1>1, <1>4, LeaveTrack
<1> QED
  BY <1>1, <1>2, <1>5 DEF Tracks

LEMMA IfElseEndTracks ==
  ASSUME NEW N, NEW b, NEW p, Scene(N, b, p), NEW n, NEW j, NEW m, Chase(n, j, m), IfElseEnd
  PROVE  Tracks(n)
<1>1. /\ Running("sif", "else") /\ Leave(NewStIf(Top.kids[1], Top.kids[2], ret))
      /\ at' = at /\ phase' = phase
  BY DEF IfElseEnd
<1>2. Top.fn = "sif" /\ Top.pc = "else" /\ phase = "parsing" /\ Wants(text, Top, at - 1, ret, j, m)
  BY <1>1, Owed
<1>3. at - 1 = j /\ m = NewStIf(Top.kids[1], Top.kids[2], ret)
  BY <1>2 DEF Wants, WantsStmt
<1>4. at' = j + 1
  BY <1>1, <1>3, SceneFacts
<1>5. OnTrack(text, stack', ret', at', n)
  BY <1>1, <1>3, <1>4, LeaveTrack
<1> QED
  BY <1>1, <1>2, <1>5 DEF Tracks

(* The head of a for or a while: its first expression, or what stands for it. *)
Headed(T, d, j, n) ==
  \/ At(T, d + 1) = "TK_SEMI" /\ AfterInit(T, Default(0), d, j, n)
  \/ At(T, d + 1) = "TK_OCURLY" /\ AfterInit(T, Default(1), d, j, n)
  \/ \E g \in d .. j : \E a \in Spells(T, "expr", d + 1, g) : AfterInit(T, a, g, j, n)

LEMMA WhileHeaded ==
  ASSUME NEW T, Len(T) \in Nat, NEW i \in 1 .. Len(T) + 1, NEW j \in 0 .. Len(T),
         NEW n \in While(T, Trees(T), i, j)
  PROVE  Headed(T, i, j, n)
<1>1. PICK k \in i + 1 .. j - 1 :
        /\ At(T, k) = "TK_OCURLY"
        /\ \E a \in Optional(Trees(T), i + 1, k - 1, 1), x \in Spells(T, "block", k, j) :
             n = NewStForWhile(a, x)
  BY WhileIs
<1>2. PICK a \in Optional(Trees(T), i + 1, k - 1, 1), x \in Spells(T, "block", k, j) :
        n = NewStForWhile(a, x)
  BY <1>1
<1> DEFINE d == k - 1
<1>3. d \in i .. j /\ d + 1 = k /\ d \in Nat /\ i \in Nat
  OBVIOUS
<1>4. AfterInit(T, a, d, j, n)
  BY <1>2, <1>3 DEF AfterInit
<1>5. CASE i + 1 > d
  <2>1. d = i /\ k = i + 1
    BY <1>3, <1>5
  <2>2. a = Default(1)
    BY <1>2, <1>5 DEF Optional, Default
  <2> HIDE DEF d
  <2> QED
    BY <1>1, <1>4, <2>1, <2>2 DEF Headed
<1>6. CASE ~(i + 1 > d)
  <2>1. a \in Spells(T, "expr", i + 1, d)
    BY <1>2, <1>6 DEF Optional, Spells
  <2> HIDE DEF d
  <2> QED
    BY <1>3, <1>4, <2>1 DEF Headed
<1> QED
  BY <1>5, <1>6

LEMMA ForHeaded ==
  ASSUME NEW T, Len(T) \in Nat, NEW i \in 1 .. Len(T) + 1, NEW j \in 0 .. Len(T),
         NEW n \in For(T, Trees(T), i, j)
  PROVE  Headed(T, i, j, n)
<1>1. PICK g \in i + 1 .. j - 1 : \E h \in g + 1 .. j - 1 : \E k \in h + 1 .. j - 1 :
        /\ At(T, g) = "TK_SEMI" /\ At(T, h) = "TK_SEMI" /\ At(T, k) = "TK_OCURLY"
        /\ \E a \in Optional(Trees(T), i + 1, g - 1, 0), c \in Spells(T, "expr", g + 1, h - 1),
              q \in Optional(Trees(T), h + 1, k - 1, 0), x \in Spells(T, "block", k, j) :
             n = NewStFor(a, c, q, x)
  BY ForIs
<1>2. PICK h \in g + 1 .. j - 1 : \E k \in h + 1 .. j - 1 :
        /\ At(T, g) = "TK_SEMI" /\ At(T, h) = "TK_SEMI" /\ At(T, k) = "TK_OCURLY"
        /\ \E a \in Optional(Trees(T), i + 1, g - 1, 0), c \in Spells(T, "expr", g + 1, h - 1),
              q \in Optional(Trees(T), h + 1, k - 1, 0), x \in Spells(T, "block", k, j) :
             n = NewStFor(a, c, q, x)
  BY <1>1
<1>3. PICK k \in h + 1 .. j - 1 :
        /\ At(T, g) = "TK_SEMI" /\ At(T, h) = "TK_SEMI" /\ At(T, k) = "TK_OCURLY"
        /\ \E a \in Optional(Trees(T), i + 1, g - 1, 0), c \in Spells(T, "expr", g + 1, h - 1),
              q \in Optional(Trees(T), h + 1, k - 1, 0), x \in Spells(T, "block", k, j) :
             n = NewStFor(a, c, q, x)
  BY <1>2
<1>4. PICK a \in Optional(Trees(T), i + 1, g - 1, 0), c \in Spells(T, "expr", g + 1, h - 1),
           q \in Optional(Trees(T), h + 1, k - 1, 0), x \in Spells(T, "block", k, j) :
        n = NewStFor(a, c, q, x)
  BY <1>3
<1> DEFINE d == g - 1
<1>5. /\ d \in i .. j /\ d + 1 = g /\ d + 2 = g + 1 /\ d \in Nat /\ i \in Nat
      /\ h \in d + 2 .. j /\ k \in h + 1 .. j
  OBVIOUS
<1>6. AfterSemi(T, a, c, h, j, n)
  BY <1>4, <1>5 DEF AfterSemi
<1>7. c \in Spells(T, "expr", d + 2, h - 1) /\ At(T, d + 1) = "TK_SEMI"
  BY <1>3, <1>4, <1>5
<1>8. a \in Optional(Trees(T), i + 1, d, 0)
  BY <1>4
<1> HIDE DEF d
<1>9. AfterInit(T, a, d, j, n)
  BY <1>3, <1>5, <1>6, <1>7 DEF AfterInit
<1>10. CASE i + 1 > d
  <2>1. d = i
    BY <1>5, <1>10
  <2>2. a = Default(0)
    BY <1>8, <1>10 DEF Optional, Default
  <2> QED
    BY <1>7, <1>9, <2>1, <2>2 DEF Headed
<1>11. CASE ~(i + 1 > d)
  <2>1. a \in Spells(T, "expr", i + 1, d)
    BY <1>8, <1>11 DEF Optional, Spells
  <2> QED
    BY <1>5, <1>9, <2>1 DEF Headed
<1> QED
  BY <1>10, <1>11

(* The token that shows whether it is a for or a while. *)
LEMMA AfterInitShows ==
  ASSUME NEW T, Len(T) \in Nat, NEW d \in 0 .. Len(T), NEW j \in 0 .. Len(T), NEW a, NEW n,
         AfterInit(T, a, d, j, n)
  PROVE  /\ At(T, d + 1) \in {"TK_SEMI", "TK_OCURLY"}
         /\ At(T, d + 1) = "TK_SEMI" =>
              \E h \in d + 2 .. j : /\ At(T, h) = "TK_SEMI"
                                    /\ \E c \in Spells(T, "expr", d + 2, h - 1) : AfterSemi(T, a, c, h, j, n)
         /\ At(T, d + 1) # "TK_SEMI" =>
              \E x \in Spells(T, "block", d + 1, j) : n = NewStForWhile(a, x)
<1>1. d + 1 \in 1 .. Len(T) + 1
  OBVIOUS
<1>2. (\E x : x \in Spells(T, "block", d + 1, j)) => At(T, d + 1) = "TK_OCURLY"
  BY <1>1, NotEmpty
<1> QED
  BY <1>2 DEF AfterInit

-----------------------------------------------------------------------------
LEMMA SForTracks ==
  ASSUME NEW N, NEW b, NEW p, Scene(N, b, p), NEW n, NEW j, NEW m, Chase(n, j, m), SFor
  PROVE  Tracks(n)
<1> DEFINE f == To(Top, "head")
<1>1. Running("sfor", "enter") /\ Goes(f) /\ Advance
  BY DEF SFor, To
<1>2. /\ Top.fn = "sfor" /\ phase = "parsing"
      /\ m \in While(text, Trees(text), at, j) \cup For(text, Trees(text), at, j)
  BY <1>1, StmtAsked
<1>3. at' = at + 1 /\ phase' = phase
  BY <1>1, Advanced
<1>4. /\ Len(text) \in Nat /\ at \in 1 .. Len(text) + 1 /\ j \in 0 .. Len(text) /\ at' - 1 = at
      /\ Follows(text, "sfor", j)
  BY <1>2, <1>3, SceneFacts, ChaseFacts
<1>5. Headed(text, at, j, m)
  BY <1>2, <1>4, WhileHeaded, ForHeaded
<1>6. "head" \in PCs
  BY DEF PCs
<1>7. f \in FT(N) /\ f.fn = "sfor" /\ f.pc = "head"
  BY <1>2, <1>6, ToFacts
<1> HIDE DEF f
<1>8. Wants(text, f, at, ret', j, m)
  BY <1>5, <1>7 DEF Headed, Wants, WantsStmt, WantsFor, WantsExpr
<1>9. Owes(text, f, at', ret', j, m)
  BY <1>4, <1>7, <1>8 DEF Owes
<1>10. OnTrack(text, stack', ret', at', n)
  BY <1>1, <1>4, <1>7, <1>9, GoTrack
<1> QED
  BY <1>2, <1>3, <1>10 DEF Tracks

(* What the token after for shows of the first expression. *)
LEMMA HeadOwed ==
  ASSUME NEW N, NEW b, NEW p, Scene(N, b, p), NEW n, NEW j, NEW m, Chase(n, j, m),
         Running("sfor", "head")
  PROVE  /\ Top.fn = "sfor" /\ phase = "parsing" /\ CTok.kind = At(text, at) /\ Follows(text, "sfor", j)
         /\ At(text, at) = "TK_SEMI" => AfterInit(text, Default(0), at - 1, j, m)
         /\ At(text, at) = "TK_OCURLY" => AfterInit(text, Default(1), at - 1, j, m)
         /\ At(text, at) \notin {"TK_SEMI", "TK_OCURLY"} =>
              \E g \in 0 .. Len(text) : \E a \in Spells(text, "expr", at, g) : AfterInit(text, a, g, j, m)
<1>1. Top.fn = "sfor" /\ Top.pc = "head" /\ phase = "parsing" /\ Wants(text, Top, at - 1, ret, j, m)
  BY Owed
<1>2. /\ Len(text) \in Nat /\ at \in 1 .. Len(text) + 1 /\ j \in 0 .. Len(text) /\ at \in Nat /\ j \in Nat
      /\ (at - 1) + 1 = at /\ CTok.kind = At(text, at) /\ Follows(text, "sfor", j)
  BY <1>1, SceneFacts, ChaseFacts
<1>3. \/ At(text, at) = "TK_SEMI" /\ AfterInit(text, Default(0), at - 1, j, m)
      \/ At(text, at) = "TK_OCURLY" /\ AfterInit(text, Default(1), at - 1, j, m)
      \/ \E g \in at - 1 .. j : \E a \in Spells(text, "expr", at, g) : AfterInit(text, a, g, j, m)
  BY <1>1, <1>2 DEF Wants, WantsFor
<1>4. CASE \E g \in at - 1 .. j : \E a \in Spells(text, "expr", at, g) : AfterInit(text, a, g, j, m)
  <2>1. PICK g \in at - 1 .. j : \E a \in Spells(text, "expr", at, g) : AfterInit(text, a, g, j, m)
    BY <1>4
  <2>2. g \in 0 .. Len(text)
    BY <1>2
  <2>3. StartsExpr(At(text, at))
    BY <1>2, <2>1, <2>2, ExprStarts
  <2>4. At(text, at) \notin {"TK_SEMI", "TK_OCURLY"}
    BY <2>3 DEF StartsExpr
  <2> QED
    BY <1>1, <1>2, <2>1, <2>2, <2>4
<1> QED
  BY <1>1, <1>2, <1>3, <1>4

LEMMA ForDefaultTracks ==
  ASSUME NEW N, NEW b, NEW p, Scene(N, b, p), NEW n, NEW j, NEW m, Chase(n, j, m), ForDefault
  PROVE  Tracks(n)
<1> DEFINE f == To(Top, "init")
<1>1. /\ Running("sfor", "head") /\ Goes(f) /\ at' = at /\ phase' = phase
      /\ Check("TK_SEMI") \/ Check("TK_OCURLY")
      /\ ret' = Default(IF Check("TK_SEMI") THEN 0 ELSE 1)
  BY DEF ForDefault, To
<1>2. /\ Top.fn = "sfor" /\ phase = "parsing" /\ CTok.kind = At(text, at) /\ Follows(text, "sfor", j)
      /\ At(text, at) = "TK_SEMI" => AfterInit(text, Default(0), at - 1, j, m)
      /\ At(text, at) = "TK_OCURLY" => AfterInit(text, Default(1), at - 1, j, m)
  BY <1>1, HeadOwed
<1>3. AfterInit(text, ret', at - 1, j, m)
  BY <1>1, <1>2 DEF Check
<1>4. "init" \in PCs
  BY DEF PCs
<1>5. f \in FT(N) /\ f.fn = "sfor" /\ f.pc = "init"
  BY <1>2, <1>4, ToFacts
<1> HIDE DEF f
<1>6. Wants(text, f, at - 1, ret', j, m)
  BY <1>3, <1>5 DEF Wants, WantsStmt, WantsFor, WantsExpr
<1>7. Owes(text, f, at', ret', j, m)
  BY <1>1, <1>5, <1>6 DEF Owes
<1>8. OnTrack(text, stack', ret', at', n)
  BY <1>1, <1>2, <1>5, <1>7, GoTrack
<1> QED
  BY <1>1, <1>2, <1>8 DEF Tracks

LEMMA ForInitTracks ==
  ASSUME NEW N, NEW b, NEW p, Scene(N, b, p), NEW n, NEW j, NEW m, Chase(n, j, m), ForInit
  PROVE  Tracks(n)
<1> DEFINE f == To(Top, "init")
<1>1. /\ Running("sfor", "head") /\ Call(f, "eass") /\ at' = at /\ phase' = phase
      /\ ~Check("TK_SEMI") /\ ~Check("TK_OCURLY")
  BY DEF ForInit, To
<1>2. Top.fn = "sfor" /\ phase = "parsing" /\ CTok.kind = At(text, at)
  BY <1>1, HeadOwed
<1>3. At(text, at) \notin {"TK_SEMI", "TK_OCURLY"}
  BY <1>1, <1>2 DEF Check
<1>4. PICK g \in 0 .. Len(text) : \E a \in Spells(text, "expr", at, g) : AfterInit(text, a, g, j, m)
  BY <1>1, <1>3, HeadOwed
<1>5. PICK a \in Spells(text, "expr", at, g) : AfterInit(text, a, g, j, m)
  BY <1>4
<1>6. Len(text) \in Nat /\ j \in 0 .. Len(text)
  BY SceneFacts, ChaseFacts
<1>7. Follows(text, "eass", g)
  <2>1. At(text, g + 1) \in {"TK_SEMI", "TK_OCURLY"}
    BY <1>5, <1>6, AfterInitShows
  <2> QED
    BY <2>1 DEF Follows, Ends
<1>8. "init" \in PCs /\ "eass" \in Functions
  BY DEF PCs, Functions
<1>9. f \in FT(N) /\ f.fn = "sfor" /\ f.pc = "init"
  BY <1>2, <1>8, ToFacts
<1> HIDE DEF f
<1>10. Wants(text, f, g, a, j, m)
  BY <1>5, <1>9 DEF Wants, WantsStmt, WantsFor, WantsExpr
<1>11. a \in Goal(text, "eass", at', g)
  BY <1>1, <1>5 DEF Goal, Sorted
<1>12. OnTrack(text, stack', ret', at', n)
  BY <1>1, <1>2, <1>7, <1>8, <1>9, <1>10, <1>11, CallTrack
<1> QED
  BY <1>1, <1>2, <1>12 DEF Tracks

(* What follows the first expression. *)
LEMMA InitOwed ==
  ASSUME NEW N, NEW b, NEW p, Scene(N, b, p), NEW n, NEW j, NEW m, Chase(n, j, m),
         Running("sfor", "init")
  PROVE  /\ Top.fn = "sfor" /\ phase = "parsing" /\ CTok.kind = At(text, at)
         /\ At(text, at) = "TK_SEMI" =>
              \E h \in at + 1 .. j :
                /\ At(text, h) = "TK_SEMI"
                /\ \E c \in Spells(text, "expr", at + 1, h - 1) : AfterSemi(text, ret, c, h, j, m)
         /\ At(text, at) # "TK_SEMI" =>
              \E x \in Spells(text, "block", at, j) : m = NewStForWhile(ret, x)
<1>1. Top.fn = "sfor" /\ Top.pc = "init" /\ phase = "parsing" /\ Wants(text, Top, at - 1, ret, j, m)
  BY Owed
<1>2. /\ Len(text) \in Nat /\ j \in 0 .. Len(text) /\ at - 1 \in 0 .. Len(text)
      /\ (at - 1) + 1 = at /\ (at - 1) + 2 = at + 1 /\ CTok.kind = At(text, at)
  BY SceneFacts, ChaseFacts
<1> DEFINE d == at - 1
<1>3. AfterInit(text, ret, d, j, m)
  BY <1>1 DEF Wants, WantsFor
<1>4. d \in 0 .. Len(text) /\ d + 1 = at /\ d + 2 = at + 1
  BY <1>2
<1> HIDE DEF d
<1>5. /\ At(text, d + 1) = "TK_SEMI" =>
           \E h \in d + 2 .. j :
             /\ At(text, h) = "TK_SEMI"
             /\ \E c \in Spells(text, "expr", d + 2, h - 1) : AfterSemi(text, ret, c, h, j, m)
      /\ At(text, d + 1) # "TK_SEMI" =>
           \E x \in Spells(text, "block", d + 1, j) : m = NewStForWhile(ret, x)
  BY <1>2, <1>3, <1>4, AfterInitShows
<1> QED
  BY <1>1, <1>2, <1>4, <1>5

LEMMA ForCondTracks ==
  ASSUME NEW N, NEW b, NEW p, Scene(N, b, p), NEW n, NEW j, NEW m, Chase(n, j, m), ForCond
  PROVE  Tracks(n)
<1> DEFINE k == <<ret>>
           f == Keep(Top, "cond", k)
<1>1. Running("sfor", "init") /\ Check("TK_SEMI") /\ Advance /\ Call(f, "eass")
  BY DEF ForCond, Keep
<1>2. Top.fn = "sfor" /\ Top \in FT(N) /\ ret \in Exprs(N)
  BY <1>1, Runs DEF Scene, Wanted, AwaitsBlock
<1>3. "cond" \in PCs /\ "eass" \in Functions
  BY DEF PCs, Functions
<1>4. k \in Seq(N) /\ k[1] = ret
  BY <1>2, NodeSets, One
<1> HIDE DEF k
<1>5. f \in FT(N) /\ f.fn = "sfor" /\ f.pc = "cond" /\ f.kids = k
  BY <1>2, <1>3, <1>4, KeepFacts
<1> HIDE DEF f
<1>6. at' = at + 1 /\ phase' = phase
  BY <1>1, Advanced
<1>7. CTok.kind = At(text, at) /\ phase = "parsing"
  BY <1>1, InitOwed
<1>8. At(text, at) = "TK_SEMI"
  BY <1>1, <1>7 DEF Check
<1>9. PICK h \in at + 1 .. j :
        /\ At(text, h) = "TK_SEMI"
        /\ \E c \in Spells(text, "expr", at + 1, h - 1) : AfterSemi(text, ret, c, h, j, m)
  BY <1>1, <1>8, InitOwed
<1>10. PICK c \in Spells(text, "expr", at + 1, h - 1) : AfterSemi(text, ret, c, h, j, m)
  BY <1>9
<1>11. Len(text) \in Nat /\ j \in 0 .. Len(text) /\ at \in Nat
  BY SceneFacts, ChaseFacts
<1> DEFINE d == h - 1
<1>12. d \in 0 .. Len(text) /\ d + 1 = h
  BY <1>11
<1>13. c \in Goal(text, "eass", at', d)
  BY <1>6, <1>10 DEF Goal, Sorted
<1> HIDE DEF d
<1>14. Follows(text, "eass", d)
  BY <1>9, <1>12 DEF Follows, Ends
<1>15. Wants(text, f, d, c, j, m)
  BY <1>4, <1>5, <1>9, <1>10, <1>12 DEF Wants, WantsStmt, WantsFor, WantsExpr
<1>16. OnTrack(text, stack', ret', at', n)
  BY <1>1, <1>2, <1>3, <1>5, <1>12, <1>13, <1>14, <1>15, CallTrack
<1> QED
  BY <1>6, <1>7, <1>16 DEF Tracks

LEMMA WhileBlockTracks ==
  ASSUME NEW N, NEW b, NEW p, Scene(N, b, p), NEW n, NEW j, NEW m, Chase(n, j, m), WhileBlock
  PROVE  Tracks(n)
<1> DEFINE k == <<ret>>
           f == Keep(Top, "while", k)
<1>1. /\ Running("sfor", "init") /\ ~Check("TK_SEMI") /\ Call(f, "sblock")
      /\ at' = at /\ phase' = phase
  BY DEF WhileBlock, Keep
<1>2. Top.fn = "sfor" /\ Top \in FT(N) /\ ret \in Exprs(N)
  BY <1>1, Runs DEF Scene, Wanted, AwaitsBlock
<1>3. "while" \in PCs /\ "sblock" \in Functions
  BY DEF PCs, Functions
<1>4. k \in Seq(N) /\ k[1] = ret
  BY <1>2, NodeSets, One
<1> HIDE DEF k
<1>5. f \in FT(N) /\ f.fn = "sfor" /\ f.pc = "while" /\ f.kids = k
  BY <1>2, <1>3, <1>4, KeepFacts
<1> HIDE DEF f
<1>6. CTok.kind = At(text, at) /\ phase = "parsing"
  BY <1>1, InitOwed
<1>7. At(text, at) # "TK_SEMI"
  BY <1>1, <1>6 DEF Check
<1>8. PICK x \in Spells(text, "block", at, j) : m = NewStForWhile(ret, x)
  BY <1>1, <1>7, InitOwed
<1>9. j \in 0 .. Len(text) /\ Follows(text, "sblock", j)
  BY ChaseFacts DEF Follows
<1>10. Wants(text, f, j, x, j, m)
  BY <1>4, <1>5, <1>8 DEF Wants, WantsStmt, WantsFor, WantsExpr
<1>11. x \in Goal(text, "sblock", at', j)
  BY <1>1, <1>8 DEF Goal, Sorted
<1>12. OnTrack(text, stack', ret', at', n)
  BY <1>1, <1>2, <1>3, <1>5, <1>9, <1>10, <1>11, CallTrack
<1> QED
  BY <1>1, <1>6, <1>12 DEF Tracks

LEMMA WhileEndTracks ==
  ASSUME NEW N, NEW b, NEW p, Scene(N, b, p), NEW n, NEW j, NEW m, Chase(n, j, m), WhileEnd
  PROVE  Tracks(n)
<1>1. /\ Running("sfor", "while") /\ Leave(NewStForWhile(Top.kids[1], ret))
      /\ at' = at /\ phase' = phase
  BY DEF WhileEnd
<1>2. Top.fn = "sfor" /\ Top.pc = "while" /\ phase = "parsing" /\ Wants(text, Top, at - 1, ret, j, m)
  BY <1>1, Owed
<1>3. at - 1 = j /\ m = NewStForWhile(Top.kids[1], ret)
  BY <1>2 DEF Wants, WantsFor
<1>4. at' = j + 1
  BY <1>1, <1>3, SceneFacts
<1>5. OnTrack(text, stack', ret', at', n)
  BY <1>1, <1>3, <1>4, LeaveTrack
<1> QED
  BY <1>1, <1>2, <1>5 DEF Tracks

LEMMA ForSemiTracks ==
  ASSUME NEW N, NEW b, NEW p, Scene(N, b, p), NEW n, NEW j, NEW m, Chase(n, j, m), ForSemi
  PROVE  Tracks(n)
<1> DEFINE k == Append(Top.kids, ret)
           f == Keep(Top, "semi", k)
<1>1. Running("sfor", "cond") /\ Check("TK_SEMI") /\ Advance
  BY DEF ForSemi
<1>2. Top.fn = "sfor" /\ Top.pc = "cond" /\ Top \in FT(N) /\ ret \in Exprs(N)
  BY <1>1, Runs DEF Scene, Wanted, AwaitsBlock
<1>3. Goes(f)
  BY <1>2 DEF ForSemi, Keep, FT
<1>4. k \in Seq(N) /\ k[1] = Top.kids[1] /\ k[2] = ret
  BY <1>1, <1>2, NodeSets, KidsMore
<1> HIDE DEF k
<1>5. "semi" \in PCs
  BY DEF PCs
<1>6. f \in FT(N) /\ f.fn = "sfor" /\ f.pc = "semi" /\ f.kids = k
  BY <1>2, <1>4, <1>5, KeepFacts
<1> HIDE DEF f
<1>7. at' = at + 1 /\ phase' = phase
  BY <1>1, Advanced
<1>8. phase = "parsing" /\ Wants(text, Top, at - 1, ret, j, m)
  BY <1>1, Owed
<1>9. (at - 1) + 1 = at /\ at' - 1 = at /\ Follows(text, "sfor", j)
  BY <1>2, <1>7, SceneFacts, ChaseFacts
<1>10. AfterSemi(text, Top.kids[1], ret, at, j, m)
  BY <1>2, <1>8, <1>9 DEF Wants, WantsFor
<1>11. Wants(text, f, at, ret', j, m)
  BY <1>4, <1>6, <1>10 DEF Wants, WantsStmt, WantsFor, WantsExpr
<1>12. Owes(text, f, at', ret', j, m)
  BY <1>6, <1>9, <1>11 DEF Owes
<1>13. OnTrack(text, stack', ret', at', n)
  BY <1>3, <1>6, <1>9, <1>12, GoTrack
<1> QED
  BY <1>7, <1>8, <1>13 DEF Tracks

(* Whether there is a third expression. *)
LEMMA PostOwed ==
  ASSUME NEW N, NEW b, NEW p, Scene(N, b, p), NEW n, NEW j, NEW m, Chase(n, j, m),
         Running("sfor", "semi")
  PROVE  /\ Top.fn = "sfor" /\ phase = "parsing" /\ CTok.kind = At(text, at)
         /\ At(text, at) = "TK_OCURLY" =>
              \E x \in Spells(text, "block", at, j) : m = NewStFor(Top.kids[1], Top.kids[2], Default(0), x)
         /\ At(text, at) # "TK_OCURLY" =>
              \E d \in 0 .. Len(text) : \E a \in Spells(text, "expr", at, d) :
                /\ At(text, d + 1) = "TK_OCURLY"
                /\ \E x \in Spells(text, "block", d + 1, j) : m = NewStFor(Top.kids[1], Top.kids[2], a, x)
<1>1. Top.fn = "sfor" /\ Top.pc = "semi" /\ phase = "parsing" /\ Wants(text, Top, at - 1, ret, j, m)
  BY Owed
<1>2. /\ Len(text) \in Nat /\ j \in 0 .. Len(text) /\ at \in 1 .. Len(text) + 1 /\ at \in Nat
      /\ (at - 1) + 1 = at /\ CTok.kind = At(text, at) /\ j \in Nat
  BY SceneFacts, ChaseFacts
<1>3. AfterSemi(text, Top.kids[1], Top.kids[2], at - 1, j, m)
  BY <1>1 DEF Wants, WantsFor
<1>4. PICK k \in at .. j : \E a \in Optional(Trees(text), at, k - 1, 0), x \in Spells(text, "block", k, j) :
        m = NewStFor(Top.kids[1], Top.kids[2], a, x)
  BY <1>2, <1>3 DEF AfterSemi
<1>5. PICK a \in Optional(Trees(text), at, k - 1, 0), x \in Spells(text, "block", k, j) :
        m = NewStFor(Top.kids[1], Top.kids[2], a, x)
  BY <1>4
<1> DEFINE d == k - 1
<1>6. d \in 0 .. Len(text) /\ d + 1 = k /\ k \in 1 .. Len(text) + 1 /\ d \in Nat
  BY <1>2
<1>7. At(text, k) = "TK_OCURLY"
  BY <1>2, <1>5, <1>6, NotEmpty
<1>8. a \in Optional(Trees(text), at, d, 0)
  BY <1>5
<1>9. CASE at > d
  <2>1. k = at
    BY <1>2, <1>6, <1>9
  <2>2. a = Default(0)
    BY <1>8, <1>9 DEF Optional, Default
  <2> QED
    BY <1>1, <1>2, <1>5, <1>7, <2>1, <2>2
<1>10. CASE ~(at > d)
  <2>1. a \in Spells(text, "expr", at, d)
    BY <1>8, <1>10 DEF Optional, Spells
  <2> HIDE DEF d
  <2>2. StartsExpr(At(text, at))
    BY <1>2, <1>6, <2>1, ExprStarts
  <2>3. At(text, at) # "TK_OCURLY"
    BY <2>2 DEF StartsExpr
  <2> QED
    BY <1>1, <1>2, <1>5, <1>6, <1>7, <2>1, <2>3
<1> QED
  BY <1>9, <1>10

LEMMA ForPostTracks ==
  ASSUME NEW N, NEW b, NEW p, Scene(N, b, p), NEW n, NEW j, NEW m, Chase(n, j, m), ForPost
  PROVE  Tracks(n)
<1> DEFINE f == To(Top, "post")
<1>1. Running("sfor", "semi") /\ ~Check("TK_OCURLY") /\ Call(f, "eass") /\ at' = at /\ phase' = phase
  BY DEF ForPost, To
<1>2. Top.fn = "sfor" /\ phase = "parsing" /\ CTok.kind = At(text, at)
  BY <1>1, PostOwed
<1>3. At(text, at) # "TK_OCURLY"
  BY <1>1, <1>2 DEF Check
<1>4. PICK d \in 0 .. Len(text) : \E a \in Spells(text, "expr", at, d) :
        /\ At(text, d + 1) = "TK_OCURLY"
        /\ \E x \in Spells(text, "block", d + 1, j) : m = NewStFor(Top.kids[1], Top.kids[2], a, x)
  BY <1>1, <1>3, PostOwed
<1>5. PICK a \in Spells(text, "expr", at, d) :
        /\ At(text, d + 1) = "TK_OCURLY"
        /\ \E x \in Spells(text, "block", d + 1, j) : m = NewStFor(Top.kids[1], Top.kids[2], a, x)
  BY <1>4
<1>6. "post" \in PCs /\ "eass" \in Functions
  BY DEF PCs, Functions
<1>7. f \in FT(N) /\ f.fn = "sfor" /\ f.pc = "post" /\ f.kids = Top.kids
  BY <1>2, <1>6, ToFacts
<1> HIDE DEF f
<1>8. Wants(text, f, d, a, j, m)
  BY <1>5, <1>7 DEF Wants, WantsStmt, WantsFor, WantsExpr
<1>9. Follows(text, "eass", d)
  BY <1>5 DEF Follows, Ends
<1>10. a \in Goal(text, "eass", at', d)
  BY <1>1, <1>5 DEF Goal, Sorted
<1>11. OnTrack(text, stack', ret', at', n)
  BY <1>1, <1>2, <1>6, <1>7, <1>8, <1>9, <1>10, CallTrack
<1> QED
  BY <1>1, <1>2, <1>11 DEF Tracks

LEMMA ForBlockTracks ==
  ASSUME NEW N, NEW b, NEW p, Scene(N, b, p), NEW n, NEW j, NEW m, Chase(n, j, m), ForBlock
  PROVE  Tracks(n)
<1> DEFINE post == IF Top.pc = "post" THEN ret ELSE Default(0)
           M == N \cup {post}
           k == Append(Top.kids, post)
           f == Keep(Top, "block", k)
<1>1. PICK pc \in {"semi", "post"} : Running("sfor", pc) /\ (pc = "semi" => Check("TK_OCURLY"))
  BY DEF ForBlock
<1>2. /\ Top \in FT(N) /\ Top.fn = "sfor" /\ Top.pc = pc /\ ret \in Exprs(N)
      /\ at' = at /\ phase' = phase /\ phase = "parsing"
  BY <1>1, ForKids DEF ForBlock, Scene, Running
<1>3. WellFormed(post, N) /\ post.kind \in ExprKinds
  <2>1. WellFormed(ret, N) /\ ret.kind \in ExprKinds
    BY <1>2 DEF Exprs, Scene, Well, Good
  <2> QED
    BY <2>1, DefaultOK
<1>4. Call(f, "sblock")
  BY <1>2 DEF ForBlock, Keep, FT
<1>5. \E x \in Spells(text, "block", at, j) : m = NewStFor(Top.kids[1], Top.kids[2], post, x)
  <2>1. CASE pc = "semi"
    <3>1. Running("sfor", "semi") /\ Check("TK_OCURLY")
      BY <1>1, <2>1
    <3>2. CTok.kind = At(text, at)
      BY <3>1, PostOwed
    <3>3. At(text, at) = "TK_OCURLY"
      BY <3>1, <3>2 DEF Check
    <3>4. \E x \in Spells(text, "block", at, j) : m = NewStFor(Top.kids[1], Top.kids[2], Default(0), x)
      BY <3>1, <3>3, PostOwed
    <3> QED
      BY <1>2, <2>1, <3>4
  <2>2. CASE pc = "post"
    <3>1. Wants(text, Top, at - 1, ret, j, m)
      BY <1>1, <2>2, Owed
    <3>2. (at - 1) + 1 = at
      BY SceneFacts
    <3>3. \E x \in Spells(text, "block", at, j) : m = NewStFor(Top.kids[1], Top.kids[2], ret, x)
      BY <1>2, <2>2, <3>1, <3>2 DEF Wants, WantsFor
    <3> QED
      BY <1>2, <2>2, <3>3
  <2> QED
    BY <2>1, <2>2
<1> HIDE DEF post
<1>6. Scene(M, b, p) /\ post \in M
  BY <1>3, SceneGrows
<1> HIDE DEF M
<1>7. k \in Seq(M) /\ k[1] = Top.kids[1] /\ k[2] = Top.kids[2] /\ k[3] = post
  <2>1. pc \in {"cond", "semi", "post"} /\ pc # "cond"
    OBVIOUS
  <2>2. /\ Append(Top.kids, post) \in Seq(M)
        /\ Append(Top.kids, post)[1] = Top.kids[1]
        /\ Append(Top.kids, post)[2] = Top.kids[2] /\ Append(Top.kids, post)[3] = post
    BY <1>1, <1>6, <2>1, KidsMore
  <2> QED
    BY <2>2
<1> HIDE DEF k
<1>8. "block" \in PCs /\ "sblock" \in Functions
  BY DEF PCs, Functions
<1>9. f \in FT(M) /\ f.fn = "sfor" /\ f.pc = "block" /\ f.kids = k
  <2>1. Top \in FT(M)
    BY <1>6, SceneFacts
  <2> QED
    BY <1>2, <1>7, <1>8, <2>1, KeepFacts
<1> HIDE DEF f
<1>10. PICK x \in Spells(text, "block", at, j) : m = NewStFor(Top.kids[1], Top.kids[2], post, x)
  BY <1>5
<1>11. j \in 0 .. Len(text) /\ Follows(text, "sblock", j)
  BY ChaseFacts DEF Follows
<1>12. Wants(text, f, j, x, j, m)
  BY <1>7, <1>9, <1>10 DEF Wants, WantsStmt, WantsFor, WantsExpr
<1>13. x \in Goal(text, "sblock", at', j)
  BY <1>2, <1>10 DEF Goal, Sorted
<1>14. OnTrack(text, stack', ret', at', n)
  BY <1>2, <1>4, <1>6, <1>8, <1>9, <1>11, <1>12, <1>13, CallTrack
<1> QED
  BY <1>2, <1>14 DEF Tracks

LEMMA ForEndTracks ==
  ASSUME NEW N, NEW b, NEW p, Scene(N, b, p), NEW n, NEW j, NEW m, Chase(n, j, m), ForEnd
  PROVE  Tracks(n)
<1>1. /\ Running("sfor", "block") /\ Leave(NewStFor(Top.kids[1], Top.kids[2], Top.kids[3], ret))
      /\ at' = at /\ phase' = phase
  BY DEF ForEnd
<1>2. Top.fn = "sfor" /\ Top.pc = "block" /\ phase = "parsing" /\ Wants(text, Top, at - 1, ret, j, m)
  BY <1>1, Owed
<1>3. at - 1 = j /\ m = NewStFor(Top.kids[1], Top.kids[2], Top.kids[3], ret)
  BY <1>2 DEF Wants, WantsFor
<1>4. at' = j + 1
  BY <1>1, <1>3, SceneFacts
<1>5. OnTrack(text, stack', ret', at', n)
  BY <1>1, <1>3, <1>4, LeaveTrack
<1> QED
  BY <1>1, <1>2, <1>5 DEF Tracks

LEMMA StmtTracks ==
  ASSUME NEW N, NEW b, NEW p, Scene(N, b, p), NEW n, NEW j, NEW m, Chase(n, j, m), StmtStep
  PROVE  Tracks(n)
<1>1. CASE SStmt \/ BlockOpen \/ BlockStmt \/ BlockClose
  BY <1>1, SStmtTracks, BlockOpenTracks, BlockStmtTracks, BlockCloseTracks
<1>2. CASE SExpr \/ SExprEnd \/ SReturn \/ SReturnEnd
  BY <1>2, SExprTracks, SReturnTracks, SemiTracks
<1>3. CASE SIf \/ IfBlock \/ IfElse \/ IfEnd \/ IfElseEnd
  BY <1>3, SIfTracks, IfBlockTracks, IfElseTracks, IfEndTracks, IfElseEndTracks
<1>4. CASE SFor \/ ForDefault \/ ForInit \/ ForCond \/ WhileBlock \/ WhileEnd
  BY <1>4, SForTracks, ForDefaultTracks, ForInitTracks, ForCondTracks, WhileBlockTracks,
     WhileEndTracks
<1>5. CASE ForSemi \/ ForPost \/ ForBlock \/ ForEnd
  BY <1>5, ForSemiTracks, ForPostTracks, ForBlockTracks, ForEndTracks
<1> QED
  BY <1>1, <1>2, <1>3, <1>4, <1>5, BlockFailuresTrack, SemiFailureTracks DEF StmtStep

-----------------------------------------------------------------------------
(* The invariant: every program of the text is the one that parse is about to
   return, so it refuses no text that has one, and there are no two. *)
CompletionInv ==
  \A n \in Programs(text) :
    /\ phase # "error"
    /\ phase = "parsing" => OnTrack(text, stack, ret, at, n)
    /\ phase = "done" => ret = n

(* A program has a first token, and no invalid one. *)
LEMMA StartTracks ==
  ASSUME text \in Texts, ParseStart, NEW n \in Programs(text)
  PROVE  phase' = "parsing" /\ OnTrack(text, stack', ret', at', n)
<1>1. Len(text) \in Nat /\ \A k \in 1 .. Len(text) : text[k].kind # "TK_EOF"
  BY TokenKinds
<1>2. n \in Spells(text, "stmt", 1, Len(text))
  BY DEF Programs, Spells
<1>3. 1 \in 1 .. Len(text) + 1 /\ Len(text) \in 0 .. Len(text)
  BY <1>1
<1>4. 1 <= Len(text)
  BY <1>1, <1>2, <1>3, StmtEnds
<1>5. Clean(text, 1, Len(text))
  BY <1>1, <1>2, <1>3, CleanStretch DEF Sorts
<1>6. \A k \in 1 .. 2 : Tok(k).kind # "TK_INVALID"
  <2> TAKE k \in 1 .. 2
  <2>1. CASE k <= Len(text)
    <3>1. k \in 1 .. Len(text)
      BY <1>1, <2>1
    <3> QED
      BY <1>5, <2>1, <3>1 DEF Clean, At, Tok
  <2>2. CASE ~(k <= Len(text))
    BY <2>2 DEF Tok, Token
  <2> QED
    BY <2>1, <2>2
<1>7. Tok(1).kind # "TK_EOF"
  BY <1>1, <1>4 DEF Tok
<1>8. phase' = "parsing"
  BY <1>6, <1>7 DEF ParseStart
<1> DEFINE s == <<Frame("sstmt")>>
           q == <<Len(text)>>
           u == <<n>>
<1>9. stack' = s /\ at' = 1
  BY DEF ParseStart
<1>10. /\ Frame("sstmt").fn = "sstmt" /\ Frame("sstmt").pc = "enter"
       /\ Len(s) = 1 /\ s[1] = Frame("sstmt") /\ Last(s) = Frame("sstmt") /\ s # << >>
  BY DEF Frame, Last
<1>11. q[1] = Len(text) /\ u[1] = n
  OBVIOUS
<1> HIDE DEF s, q, u
<1>12. Follows(text, "sstmt", Len(text))
  <2>1. Len(text) + 1 \notin 1 .. Len(text)
    BY <1>1
  <2> QED
    BY <2>1 DEF Follows, At
<1>13. Due(text, s, q, u, n)
  <2>1. \A k \in 1 .. Len(s) : k = 1
    BY <1>10
  <2>2. \A k \in 1 .. Len(s) - 1 : FALSE
    BY <1>10
  <2> QED
    BY <1>3, <1>10, <1>11, <1>12, <2>1, <2>2 DEF Due
<1>14. Owes(text, Last(s), 1, ret', q[Len(s)], u[Len(s)])
  BY <1>2, <1>10, <1>11 DEF Owes, Goal, Sorted
<1> QED
  BY <1>8, <1>9, <1>10, <1>13, <1>14 DEF OnTrack

(* Nothing is left behind the program. *)
LEMMA EndTracks ==
  ASSUME text \in Texts, ParseEnd, NEW n, OnTrack(text, stack, ret, at, n)
  PROVE  phase' = "done" /\ ret' = n
<1>1. stack = << >> /\ ret' = ret
  BY DEF ParseEnd
<1>2. ret = n /\ at = Len(text) + 1 /\ Len(text) \in Nat
  BY <1>1, TokenKinds DEF OnTrack
<1>3. ~(at <= Len(text))
  BY <1>2
<1>4. Check("TK_EOF")
  BY <1>3 DEF Check, CTok, Tok, Token
<1> QED
  BY <1>1, <1>2, <1>4 DEF ParseEnd

LEMMA CompletionStep == CompletionInv /\ DerivationInv /\ TInv /\ AInv /\ Next => CompletionInv'
<1> SUFFICES ASSUME CompletionInv, DerivationInv, TInv, AInv, Next, text' = text, NEW n \in Programs(text)
             PROVE  /\ phase' # "error"
                    /\ phase' = "parsing" => OnTrack(text, stack', ret', at', n)
                    /\ phase' = "done" => ret' = n
  <2>1. Next => text' = text
    BY StepRuns DEF Next, ParseStart, ParseEnd
  <2> QED
    BY <2>1 DEF CompletionInv
<1>1. text \in Texts
  BY DEF AInv
<1>2. CASE ParseStart
  BY <1>1, <1>2, StartTracks
<1>3. CASE StmtStep \/ ExprStep
  <2>1. phase = "parsing" /\ phase' # "done"
    BY <1>3, StmtMoves, ExprMoves, PhaseMoves
  <2>2. stack # << >>
    BY <1>3, StepRuns
  <2>3. PICK N : Well(N, stack, ret)
    BY <2>1 DEF TInv
  <2>4. PICK b, p : Scene(N, b, p)
    BY <1>1, <2>1, <2>2, <2>3, TopScene DEF DerivationInv
  <2>5. OnTrack(text, stack, ret, at, n)
    BY <2>1 DEF CompletionInv
  <2>6. PICK q, u : Due(text, stack, q, u, n) /\ Owes(text, Top, at, ret, q[Len(stack)], u[Len(stack)])
    BY <2>2, <2>5 DEF OnTrack, Top
  <2>7. Clean(text, 1, Len(text))
    <3>1. Len(text) \in Nat
      BY <1>1, TokenKinds
    <3>2. 1 \in 1 .. Len(text) + 1 /\ Len(text) \in 0 .. Len(text) /\ "stmt" \in Sorts
      BY <3>1 DEF Sorts
    <3>3. n \in Spells(text, "stmt", 1, Len(text))
      BY DEF Programs, Spells
    <3> QED
      BY <3>1, <3>2, <3>3, CleanStretch
  <2>8. Chase(n, q[Len(stack)], u[Len(stack)])
    BY <2>6, <2>7 DEF Chase
  <2>9. Tracks(n)
    BY <1>3, <2>4, <2>8, StmtTracks, ExprTracks
  <2> QED
    BY <2>1, <2>9 DEF Tracks
<1>4. CASE ParseEnd
  <2>1. phase = "parsing"
    BY <1>4 DEF ParseEnd
  <2>2. OnTrack(text, stack, ret, at, n)
    BY <2>1 DEF CompletionInv
  <2>3. phase' = "done" /\ ret' = n
    BY <1>1, <1>4, <2>2, EndTracks
  <2> QED
    BY <2>3
<1> QED
  BY <1>2, <1>3, <1>4 DEF Next

(* All the invariants of the parser, as a whole: they hold at first, and every
   step keeps them. *)
PInv == TInv /\ AInv /\ HeadInv /\ DerivationInv /\ CompletionInv

LEMMA InitParser == Init => PInv
BY AInit DEF PInv, Init, TInv, HeadInv, DerivationInv, CompletionInv

LEMMA NextParser == PInv /\ [Next]_vars => PInv'
<1>1. ASSUME PInv, UNCHANGED vars PROVE PInv'
  <2>1. TInv /\ HeadInv /\ UNCHANGED vars => TInv' /\ HeadInv'
    BY DEF TInv, HeadInv, HeadOK, HeadsFit, Top, CTok, Tok, vars
  <2>2. AInv /\ UNCHANGED vars => AInv'
    BY DEF AInv, vars, NoneInvalidUpTo, InvalidReportedFirst, Tok
  <2>3. DerivationInv /\ CompletionInv /\ UNCHANGED vars => DerivationInv' /\ CompletionInv'
    BY DEF DerivationInv, CompletionInv, vars
  <2> QED
    BY <1>1, <2>1, <2>2, <2>3 DEF PInv
<1>2. AInv /\ Next => AInv'
  BY StmtMoves, ExprMoves, MovesKeep, ParseStartKeeps, ParseEndKeeps DEF Next
<1>3. ASSUME PInv, Next PROVE PInv'
  <2>1. TInv /\ AInv /\ HeadInv /\ DerivationInv /\ CompletionInv
    BY <1>3 DEF PInv
  <2>2. TInv' /\ AInv' /\ HeadInv'
    BY <1>2, <1>3, <2>1, TStep, HStep
  <2>3. DerivationInv' /\ CompletionInv'
    BY <1>3, <2>1, DerivationStep, CompletionStep
  <2> QED
    BY <2>2, <2>3 DEF PInv
<1> QED
  BY <1>1, <1>3

LEMMA InGrammar == Spec => []PInv
BY InitParser, NextParser, PTL DEF Spec

(* A text with a program has no invalid token. *)
LEMMA ProgramIsClean ==
  ASSUME text \in Texts, Programs(text) # {}
  PROVE  \A k \in 1 .. Len(text) : text[k].kind # "TK_INVALID"
<1>1. Len(text) \in Nat
  BY TokenKinds
<1>2. 1 \in 1 .. Len(text) + 1 /\ Len(text) \in 0 .. Len(text) /\ "stmt" \in Sorts
  BY <1>1 DEF Sorts
<1>3. PICK n : n \in Spells(text, "stmt", 1, Len(text))
  BY DEF Programs, Spells
<1>4. Clean(text, 1, Len(text))
  BY <1>1, <1>2, <1>3, CleanStretch
<1> QED
  BY <1>1, <1>4 DEF Clean, At

(* ParsesGrammar: whatever the text, however long it is and however deep its
   blocks and parentheses are, the tree that parse returns is the one program
   the grammar gives it. *)
THEOREM TreesAreDerived == Spec => []ParsesGrammar
<1>1. PInv => ParsesGrammar
  BY DEF PInv, DerivationInv, CompletionInv, ParsesGrammar
<1> QED
  BY <1>1, InGrammar, PTL

(* RefusesOnlyUngrammatical: a text that parse refuses has no program in the
   grammar; no text that has one is turned away at any token. *)
THEOREM RefusedIsUngrammatical == Spec => []RefusesOnlyUngrammatical
<1>1. PInv => RefusesOnlyUngrammatical
  BY DEF PInv, CompletionInv, RefusesOnlyUngrammatical
<1> QED
  BY <1>1, InGrammar, PTL
=============================================================================
