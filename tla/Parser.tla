------------------------------- MODULE Parser -------------------------------
(***************************************************************************)
(* The parser, src/parser.c: recursive descent over the tokens that        *)
(* next_token delivers, which are read two ahead.                          *)
(*                                                                         *)
(* The recursion is the variable stack; a frame has the function, the      *)
(* point (pc) where it goes on when its callee returns, and its locals:    *)
(* the nodes it keeps, the operator, the place of an opening bracket.  An  *)
(* action is the part of a function between two calls of functions of the  *)
(* grammar, and advances at most once.  expr is eass.                      *)
(***************************************************************************)
EXTENDS FiniteSets, SequencesExt, Syntax, Tokens

CONSTANT Texts   \* the sequences of tokens parse may be called on

ASSUME TextsAssumption ==
  \A t \in Texts : t \in Seq(ToSet(t)) /\ \A k \in 1 .. Len(t) : InText(t[k])

VARIABLES
  text,    \* the tokens of the argument of parse, the end of file apart
  phase,   \* "called", "parsing", "done", or "error" after exit(1)
  at,      \* the token that is ctok: ptok is the one before, ntok the next
  stack,   \* the frames of the recursion
  ret,     \* the node the last function returned
  error    \* the message error_at or error printed, and where it points

vars == <<text, phase, at, stack, ret, error>>

-----------------------------------------------------------------------------
(* next_token never gets past the end of the source. *)
Tok(k) == IF k <= Len(text) THEN text[k] ELSE Token("TK_EOF")

CTok == Tok(at)
NTok == Tok(at + 1)
Check(kind) == CTok.kind = kind

NoError == [what |-> "", at |-> 0]
Fail(what, k) == phase' = "error" /\ error' = [what |-> what, at |-> k]

AdvanceBlind == at' = at + 1 /\ UNCHANGED <<phase, error>>   \* faulty: no check

(* advance: the scanner is one token further than ntok, and reports what it
   finds there before the parser goes on. *)
Advance ==
  /\ at' = at + 1
  /\ IF Tok(at + 2).kind = "TK_INVALID" THEN Fail("invalid token", at + 2)
     ELSE UNCHANGED <<phase, error>>

Frame(fn) == [fn |-> fn, pc |-> "enter", kids |-> << >>, op |-> "", start |-> 0]

Top == Last(stack)

Running(fn, pc) ==
  /\ phase = "parsing"
  /\ stack # << >>
  /\ Top.fn = fn
  /\ Top.pc = pc

Goes(top) == stack' = Append(Front(stack), top)
Call(top, fn) == stack' = Append(Append(Front(stack), top), Frame(fn))
Leave(node) == stack' = Front(stack) /\ ret' = node

(* expect and unclosed, when the token is another one. *)
Expected(what) == Fail(what, at) /\ UNCHANGED <<text, at, stack, ret>>
Unclosed == Fail("unclosed", Top.start) /\ UNCHANGED <<text, at, stack, ret>>

-----------------------------------------------------------------------------
(***************************************************************************)
(* Faulty variants of definitions of this module.  None is part of the     *)
(* model: the properties are tested by putting one in the place of its     *)
(* original.                                                               *)
(***************************************************************************)

(* ForDefault without the literal. *)
ForDefaultMissing ==
  /\ Running("sfor", "head")
  /\ Check("TK_SEMI") \/ Check("TK_OCURLY")
  /\ Goes([Top EXCEPT !.pc = "init"])
  /\ UNCHANGED <<text, phase, at, ret, error>>

(* UnaryPlus that checks for the plus and does not consume it. *)
UnaryPlusChecked ==
  /\ Running("eunary", "enter")
  /\ Check("TK_ADD")
  /\ UNCHANGED vars

(* ParenOpen with start taken from ctok. *)
ParenOpenNext ==
  /\ Running("eprimary", "enter")
  /\ Check("TK_OPAREN")
  /\ Advance
  /\ Call([Top EXCEPT !.pc = "paren", !.start = at + 1], "eass")
  /\ UNCHANGED <<text, ret>>

(* Assign without the test of what stands on the left. *)
AssignUnchecked ==
  /\ Running("eass", "left")
  /\ Check("TK_ASS")
  /\ Advance
  /\ Call([Top EXCEPT !.pc = "right", !.kids = <<ret>>], "eass")
  /\ UNCHANGED <<text, ret>>

-----------------------------------------------------------------------------
(***************************************************************************)
(* parse                                                                   *)
(***************************************************************************)
Init ==
  /\ text \in Texts
  /\ phase = "called"
  /\ at = 0
  /\ stack = << >>
  /\ ret = NULL
  /\ error = NoError

ParseStart ==
  /\ phase = "called"
  /\ at' = 1
  /\ IF \E k \in 1 .. 2 : Tok(k).kind = "TK_INVALID"
     THEN Fail("invalid token", IF Tok(1).kind = "TK_INVALID" THEN 1 ELSE 2)
     ELSE IF Tok(1).kind = "TK_EOF" THEN Fail("empty file", 1)
     ELSE phase' = "parsing" /\ UNCHANGED error
  /\ stack' = <<Frame("sstmt")>>
  /\ UNCHANGED <<text, ret>>

ParseEnd ==
  /\ phase = "parsing"
  /\ stack = << >>
  /\ IF Check("TK_EOF") THEN phase' = "done" /\ at' = at + 1 /\ UNCHANGED error
                        ELSE Fail("eof", at) /\ UNCHANGED at
  /\ UNCHANGED <<text, stack, ret>>

-----------------------------------------------------------------------------
(***************************************************************************)
(* Statements.                                                             *)
(***************************************************************************)
SStmt ==
  /\ Running("sstmt", "enter")
  /\ stack' = Append(Front(stack),
                     Frame(CASE Check("KW_IF") -> "sif"
                             [] Check("KW_RETURN") -> "sreturn"
                             [] Check("KW_FOR") -> "sfor"
                             [] Check("TK_OCURLY") -> "sblock"
                             [] OTHER -> "sexpr"))
  /\ UNCHANGED <<text, phase, at, ret, error>>

BlockOpen ==
  /\ Running("sblock", "enter")
  /\ Check("TK_OCURLY")
  /\ Advance
  /\ Goes([Top EXCEPT !.pc = "list", !.start = at])
  /\ UNCHANGED <<text, ret>>

BlockExpected ==
  Running("sblock", "enter") /\ ~Check("TK_OCURLY") /\ Expected("{")

InBlock == Running("sblock", "list") \/ Running("sblock", "stmt")
List == IF Top.pc = "stmt" THEN Append(Top.kids, ret) ELSE Top.kids

BlockStmt ==
  /\ InBlock
  /\ ~Check("TK_CCURLY") /\ ~Check("TK_EOF")
  /\ Call([Top EXCEPT !.pc = "stmt", !.kids = List], "sstmt")
  /\ UNCHANGED <<text, phase, at, ret, error>>

BlockClose ==
  /\ InBlock
  /\ Check("TK_CCURLY")
  /\ Advance
  /\ Leave(NewStBlock(List))
  /\ UNCHANGED text

BlockUnclosed == InBlock /\ Check("TK_EOF") /\ Unclosed

SExpr ==
  /\ Running("sexpr", "enter")
  /\ Call([Top EXCEPT !.pc = "semi"], "eass")
  /\ UNCHANGED <<text, phase, at, ret, error>>

SReturn ==
  /\ Running("sreturn", "enter")
  /\ Advance
  /\ Call([Top EXCEPT !.pc = "semi"], "eass")
  /\ UNCHANGED <<text, ret>>

Semi(fn, node) ==
  /\ Running(fn, "semi")
  /\ Check("TK_SEMI")
  /\ Advance
  /\ Leave(node)
  /\ UNCHANGED text

SExprEnd == Semi("sexpr", NewStExpr(ret))
SReturnEnd == Semi("sreturn", NewStReturn(ret))

SemiExpected ==
  /\ Running("sexpr", "semi") \/ Running("sreturn", "semi") \/ Running("sfor", "cond")
  /\ ~Check("TK_SEMI")
  /\ Expected(";")

SIf ==
  /\ Running("sif", "enter")
  /\ Advance
  /\ Call([Top EXCEPT !.pc = "cond"], "eass")
  /\ UNCHANGED <<text, ret>>

IfBlock ==
  /\ Running("sif", "cond")
  /\ Call([Top EXCEPT !.pc = "block", !.kids = <<ret>>], "sblock")
  /\ UNCHANGED <<text, phase, at, ret, error>>

IfElse ==
  /\ Running("sif", "block")
  /\ Check("KW_ELSE")
  /\ Advance
  /\ Call([Top EXCEPT !.pc = "else", !.kids = Append(@, ret)], "sblock")
  /\ UNCHANGED <<text, ret>>

IfEnd ==
  /\ Running("sif", "block")
  /\ ~Check("KW_ELSE")
  /\ Leave(NewStIf(Top.kids[1], ret, NULL))
  /\ UNCHANGED <<text, phase, at, error>>

IfElseEnd ==
  /\ Running("sif", "else")
  /\ Leave(NewStIf(Top.kids[1], Top.kids[2], ret))
  /\ UNCHANGED <<text, phase, at, error>>

-----------------------------------------------------------------------------
(***************************************************************************)
(* sfor: whether it is a for or a while shows after the first expression,  *)
(* which may be missing in both.                                           *)
(***************************************************************************)
Default(v) == NewLit("LK_INT", v)

SFor ==
  /\ Running("sfor", "enter")
  /\ Advance
  /\ Goes([Top EXCEPT !.pc = "head"])
  /\ UNCHANGED <<text, ret>>

ForDefault ==
  /\ Running("sfor", "head")
  /\ Check("TK_SEMI") \/ Check("TK_OCURLY")
  /\ ret' = Default(IF Check("TK_SEMI") THEN 0 ELSE 1)
  /\ Goes([Top EXCEPT !.pc = "init"])
  /\ UNCHANGED <<text, phase, at, error>>

ForInit ==
  /\ Running("sfor", "head")
  /\ ~Check("TK_SEMI") /\ ~Check("TK_OCURLY")
  /\ Call([Top EXCEPT !.pc = "init"], "eass")
  /\ UNCHANGED <<text, phase, at, ret, error>>

ForCond ==
  /\ Running("sfor", "init")
  /\ Check("TK_SEMI")
  /\ Advance
  /\ Call([Top EXCEPT !.pc = "cond", !.kids = <<ret>>], "eass")
  /\ UNCHANGED <<text, ret>>

WhileBlock ==
  /\ Running("sfor", "init")
  /\ ~Check("TK_SEMI")
  /\ Call([Top EXCEPT !.pc = "while", !.kids = <<ret>>], "sblock")
  /\ UNCHANGED <<text, phase, at, ret, error>>

WhileEnd ==
  /\ Running("sfor", "while")
  /\ Leave(NewStForWhile(Top.kids[1], ret))
  /\ UNCHANGED <<text, phase, at, error>>

ForSemi ==
  /\ Running("sfor", "cond")
  /\ Check("TK_SEMI")
  /\ Advance
  /\ Goes([Top EXCEPT !.pc = "semi", !.kids = Append(@, ret)])
  /\ UNCHANGED <<text, ret>>

ForPost ==
  /\ Running("sfor", "semi")
  /\ ~Check("TK_OCURLY")
  /\ Call([Top EXCEPT !.pc = "post"], "eass")
  /\ UNCHANGED <<text, phase, at, ret, error>>

ForBlock ==
  /\ \/ Running("sfor", "semi") /\ Check("TK_OCURLY")
     \/ Running("sfor", "post")
  /\ LET post == IF Top.pc = "post" THEN ret ELSE Default(0)
     IN  Call([Top EXCEPT !.pc = "block", !.kids = Append(@, post)], "sblock")
  /\ UNCHANGED <<text, phase, at, ret, error>>

ForEnd ==
  /\ Running("sfor", "block")
  /\ Leave(NewStFor(Top.kids[1], Top.kids[2], Top.kids[3], ret))
  /\ UNCHANGED <<text, phase, at, error>>

-----------------------------------------------------------------------------
(***************************************************************************)
(* Expressions: eass, eadd and emul first call the next function.          *)
(***************************************************************************)
Operand == [eass |-> "eadd", eadd |-> "emul", emul |-> "eunary"]

Descend ==
  /\ \E fn \in DOMAIN Operand : Running(fn, "enter")
  /\ Call([Top EXCEPT !.pc = "left"], Operand[Top.fn])
  /\ UNCHANGED <<text, phase, at, ret, error>>

IsVariable(node) == node.kind = "NKEx_LIT" /\ node.lit = "LK_ID"

Assign ==
  /\ Running("eass", "left")
  /\ Check("TK_ASS")
  /\ IF Tok(at + 2).kind # "TK_INVALID" /\ ~IsVariable(ret)
     THEN Fail("variable name", at - 1) /\ at' = at + 1
     ELSE Advance
  /\ Call([Top EXCEPT !.pc = "right", !.kids = <<ret>>], "eass")
  /\ UNCHANGED <<text, ret>>

NoAssign ==
  /\ Running("eass", "left")
  /\ ~Check("TK_ASS")
  /\ Leave(ret)
  /\ UNCHANGED <<text, phase, at, error>>

AssignEnd ==
  /\ Running("eass", "right")
  /\ Leave(NewBinop("BINOP_ASS", Top.kids[1], ret))
  /\ UNCHANGED <<text, phase, at, error>>

Operators == [eadd |-> [TK_ADD |-> "BINOP_ADD", TK_SUB |-> "BINOP_SUB"],
              emul |-> [TK_MUL |-> "BINOP_MUL", TK_DIV |-> "BINOP_DIV"]]

(* In the loop of eadd or of emul; the local "left" is what the operand
   returned, joined to what was there before. *)
InLoop == \E fn \in DOMAIN Operators : Running(fn, "left") \/ Running(fn, "right")
Left == IF Top.pc = "right" THEN NewBinop(Top.op, Top.kids[1], ret) ELSE ret

(* Operator with a right operand of the same level. *)
OperatorRight ==
  /\ InLoop
  /\ CTok.kind \in DOMAIN Operators[Top.fn]
  /\ Advance
  /\ Call([Top EXCEPT !.pc = "right", !.kids = <<Left>>,
                      !.op = Operators[Top.fn][CTok.kind]],
          Top.fn)
  /\ UNCHANGED <<text, ret>>

Operator ==
  /\ InLoop
  /\ CTok.kind \in DOMAIN Operators[Top.fn]
  /\ Advance
  /\ Call([Top EXCEPT !.pc = "right", !.kids = <<Left>>,
                      !.op = Operators[Top.fn][CTok.kind]],
          Operand[Top.fn])
  /\ UNCHANGED <<text, ret>>

NoOperator ==
  /\ InLoop
  /\ CTok.kind \notin DOMAIN Operators[Top.fn]
  /\ Leave(Left)
  /\ UNCHANGED <<text, phase, at, error>>

UnaryPlus ==
  /\ Running("eunary", "enter")
  /\ Check("TK_ADD")
  /\ Advance
  /\ UNCHANGED <<text, stack, ret>>

UnaryMinus ==
  /\ Running("eunary", "enter")
  /\ Check("TK_SUB")
  /\ Advance
  /\ Call([Top EXCEPT !.pc = "minus"], "eunary")
  /\ UNCHANGED <<text, ret>>

UnaryMinusEnd ==
  /\ Running("eunary", "minus")
  /\ Leave(NewUnary("UNAOP_NEG", ret))
  /\ UNCHANGED <<text, phase, at, error>>

UnaryPrimary ==
  /\ Running("eunary", "enter")
  /\ ~Check("TK_ADD") /\ ~Check("TK_SUB")
  /\ Call([Top EXCEPT !.pc = "postfix"], "eprimary")
  /\ UNCHANGED <<text, phase, at, ret, error>>

PostfixOps == [TK_MUL |-> "UNAOP_STAR", TK_AMP |-> "UNAOP_ADDR"]

IsPostfixEager == CTok.kind \in DOMAIN PostfixOps   \* faulty: no look ahead

(* The operator is a postfix one unless an operand may follow it. *)
IsPostfix == ~StartsExpr(NTok.kind) /\ CTok.kind \in DOMAIN PostfixOps

Postfix ==
  /\ Running("eunary", "postfix")
  /\ IsPostfix
  /\ Advance
  /\ ret' = NewUnary(PostfixOps[CTok.kind], ret)
  /\ UNCHANGED <<text, stack>>

NoPostfix ==
  /\ Running("eunary", "postfix")
  /\ ~IsPostfix
  /\ Leave(ret)
  /\ UNCHANGED <<text, phase, at, error>>

ParenOpen ==
  /\ Running("eprimary", "enter")
  /\ Check("TK_OPAREN")
  /\ Advance
  /\ Call([Top EXCEPT !.pc = "paren", !.start = at], "eass")
  /\ UNCHANGED <<text, ret>>

ParenClose ==
  /\ Running("eprimary", "paren")
  /\ Check("TK_CPAREN")
  /\ Advance
  /\ Leave(ret)
  /\ UNCHANGED text

ParenUnclosed == Running("eprimary", "paren") /\ ~Check("TK_CPAREN") /\ Unclosed

Literals == [TK_ID |-> "LK_ID", TK_INT |-> "LK_INT"]

Literal ==
  /\ Running("eprimary", "enter")
  /\ CTok.kind \in DOMAIN Literals
  /\ Advance
  /\ Leave(NewLit(Literals[CTok.kind], CTok.str))
  /\ UNCHANGED text

ExprExpected ==
  /\ Running("eprimary", "enter")
  /\ CTok.kind \notin {"TK_OPAREN"} \cup DOMAIN Literals
  /\ Expected("expression")

-----------------------------------------------------------------------------
StmtStep ==
  \/ SStmt \/ BlockOpen \/ BlockExpected \/ BlockStmt \/ BlockClose \/ BlockUnclosed
  \/ SExpr \/ SExprEnd \/ SReturn \/ SReturnEnd \/ SemiExpected
  \/ SIf \/ IfBlock \/ IfElse \/ IfEnd \/ IfElseEnd
  \/ SFor \/ ForDefault \/ ForInit \/ ForCond \/ WhileBlock \/ WhileEnd
  \/ ForSemi \/ ForPost \/ ForBlock \/ ForEnd

ExprStep ==
  \/ Descend \/ Assign \/ NoAssign \/ AssignEnd \/ Operator \/ NoOperator
  \/ UnaryPlus \/ UnaryMinus \/ UnaryMinusEnd \/ UnaryPrimary \/ Postfix \/ NoPostfix
  \/ ParenOpen \/ ParenClose \/ ParenUnclosed \/ Literal \/ ExprExpected

Next == ParseStart \/ StmtStep \/ ExprStep \/ ParseEnd

(* A single thread runs until parse returns or exits. *)
Spec == Init /\ [][Next]_vars /\ WF_vars(Next)

-----------------------------------------------------------------------------
Functions == {"sstmt", "sblock", "sexpr", "sfor", "sif", "sreturn",
              "eass", "eadd", "emul", "eunary", "eprimary"}

PCs == {"enter", "list", "stmt", "semi", "cond", "block", "else", "head", "init",
        "while", "post", "left", "right", "minus", "postfix", "paren"}

Messages == {"", "invalid token", "empty file", "eof", "{", ";", "unclosed",
             "variable name", "expression"}

IsNode(n) == n.kind \in ExprKinds \cup StmtKinds

(* The type of every variable of the parser. *)
TypeOK ==
  /\ phase \in {"called", "parsing", "done", "error"}
  /\ at \in Nat
  /\ \A k \in 1 .. Len(stack) :
       LET f == stack[k]
       IN  /\ f.fn \in Functions /\ f.pc \in PCs
           /\ \A j \in 1 .. Len(f.kids) : IsNode(f.kids[j])
           /\ f.start \in 0 .. at
  /\ ret = NULL \/ IsNode(ret)
  /\ error \in [what : Messages, at : Nat]

-----------------------------------------------------------------------------
(***************************************************************************)
(* Where the messages point.                                               *)
(***************************************************************************)
Opens == {"TK_OPAREN", "TK_OCURLY"}
Closes == {"TK_CPAREN", "TK_CCURLY"}

(* One more opening than closing brackets from token k up to token j - 1. *)
OpenAt(k, j) ==
  /\ Tok(k).kind \in Opens
  /\ \A i \in k + 1 .. j - 1 :
       Cardinality({h \in k .. i : Tok(h).kind \in Closes})
         < Cardinality({h \in k .. i : Tok(h).kind \in Opens})

(* "unclosed" points at the innermost bracket that is open where the parser
   stands, although blocks and parentheses are closed by different functions
   at any depth of the recursion. *)
UnclosedIsInnermost ==
  error.what = "unclosed" =>
    /\ OpenAt(error.at, at)
    /\ \A k \in error.at + 1 .. at - 1 : ~OpenAt(k, at)

(* However far the scanner is ahead, an invalid token is reported before the
   parser has looked past the token before it, and no other error is reported
   once it has been scanned. *)
InvalidReportedFirst ==
  \A k \in 1 .. Len(text) :
    Tok(k).kind = "TK_INVALID" =>
      \/ phase = "called"
      \/ at + 1 < k
      \/ error.what = "invalid token" /\ error.at <= k

(* parse returns or exits, on every text: no loop goes on at the end of the
   file, where the scanner delivers the same token for ever. *)
Terminates == <>(phase \in {"done", "error"})
=============================================================================
