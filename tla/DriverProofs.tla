---------------------------- MODULE DriverProofs ----------------------------
(***************************************************************************)
(* Theorems about the whole program, for all sources and command lines:    *)
(* the stages of main agree about a source, and with the grammar.          *)
(*                                                                         *)
(* They follow from the invariants of the parser and of the code           *)
(* generator, which the steps of main that run these keep: PD and CD are   *)
(* their proofs, for the variables of main.  The rest of the invariant     *)
(* says what is known where main is.                                       *)
(***************************************************************************)
EXTENDS Stages, TLAPS

PD == INSTANCE ParserProofs WITH phase <- parsing, stack <- pstack, error <- perror
CD == INSTANCE CodegenProofs WITH Programs <- Stmts(Node), ast <- ret,
                                   phase <- generating, stack <- gstack

-----------------------------------------------------------------------------
(***************************************************************************)
(* The proofs are about the parser, the code generator and the grammar     *)
(* that the driver is composed of.                                         *)
(***************************************************************************)
LEMMA SameParser ==
  /\ P!Init => PD!Init
  /\ P!Next => PD!Next
BY DEF P!Token, PD!Token, P!StartsExpr, PD!StartsExpr, P!NewLit, PD!NewLit, P!NewUnary,
       PD!NewUnary, P!NewBinop, PD!NewBinop, P!NewStReturn, PD!NewStReturn, P!NewStExpr,
       PD!NewStExpr, P!NewStBlock, PD!NewStBlock, P!NewStIf, PD!NewStIf, P!NewStFor,
       PD!NewStFor, P!NewStForWhile, PD!NewStForWhile, P!NULL, PD!NULL, P!Tok, PD!Tok,
       P!CTok, PD!CTok, P!NTok, PD!NTok, P!Check, PD!Check, P!NoError, PD!NoError,
       P!Fail, PD!Fail, P!Advance, PD!Advance, P!Frame, PD!Frame, P!Top, PD!Top,
       P!Running, PD!Running, P!Goes, PD!Goes, P!Call, PD!Call, P!Leave, PD!Leave,
       P!Expected, PD!Expected, P!Unclosed, PD!Unclosed, P!Init, PD!Init, P!ParseStart,
       PD!ParseStart, P!ParseEnd, PD!ParseEnd, P!SStmt, PD!SStmt, P!BlockOpen,
       PD!BlockOpen, P!BlockExpected, PD!BlockExpected, P!InBlock, PD!InBlock, P!List,
       PD!List, P!BlockStmt, PD!BlockStmt, P!BlockClose, PD!BlockClose, P!BlockUnclosed,
       PD!BlockUnclosed, P!SExpr, PD!SExpr, P!SReturn, PD!SReturn, P!Semi, PD!Semi,
       P!SExprEnd, PD!SExprEnd, P!SReturnEnd, PD!SReturnEnd, P!SemiExpected,
       PD!SemiExpected, P!SIf, PD!SIf, P!IfBlock, PD!IfBlock, P!IfElse, PD!IfElse,
       P!IfEnd, PD!IfEnd, P!IfElseEnd, PD!IfElseEnd, P!Default, PD!Default, P!SFor,
       PD!SFor, P!ForDefault, PD!ForDefault, P!ForInit, PD!ForInit, P!ForCond,
       PD!ForCond, P!WhileBlock, PD!WhileBlock, P!WhileEnd, PD!WhileEnd, P!ForSemi,
       PD!ForSemi, P!ForPost, PD!ForPost, P!ForBlock, PD!ForBlock, P!ForEnd, PD!ForEnd,
       P!Operand, PD!Operand, P!Descend, PD!Descend, P!IsVariable, PD!IsVariable,
       P!Assign, PD!Assign, P!NoAssign, PD!NoAssign, P!AssignEnd, PD!AssignEnd,
       P!Operators, PD!Operators, P!InLoop, PD!InLoop, P!Left, PD!Left, P!Operator,
       PD!Operator, P!NoOperator, PD!NoOperator, P!UnaryPlus, PD!UnaryPlus,
       P!UnaryMinus, PD!UnaryMinus, P!UnaryMinusEnd, PD!UnaryMinusEnd, P!UnaryPrimary,
       PD!UnaryPrimary, P!PostfixOps, PD!PostfixOps, P!IsPostfix, PD!IsPostfix,
       P!Postfix, PD!Postfix, P!NoPostfix, PD!NoPostfix, P!ParenOpen, PD!ParenOpen,
       P!ParenClose, PD!ParenClose, P!ParenUnclosed, PD!ParenUnclosed, P!Literals,
       PD!Literals, P!Literal, PD!Literal, P!ExprExpected, PD!ExprExpected, P!StmtStep,
       PD!StmtStep, P!ExprStep, PD!ExprStep, P!Next, PD!Next, P!Last, PD!Last, P!Front,
       PD!Front

LEMMA SameGenerator == C!Next => CD!Next
BY DEF C!NULL, CD!NULL, C!Name, CD!Name, C!Reg, CD!Reg, C!Var, CD!Var, C!Imm, CD!Imm,
       C!None, CD!None, C!Ins, CD!Ins, C!Label, CD!Label, C!Store, CD!Store, C!Jmp,
       CD!Jmp, C!Jnz, CD!Jnz, C!Ret, CD!Ret, C!RetLabel, CD!RetLabel, C!BinopkToStr,
       CD!BinopkToStr, C!Frame, CD!Frame, C!Top, CD!Top, C!At, CD!At, C!Call, CD!Call,
       C!LeaveExpr, CD!LeaveExpr, C!LeaveStmt, CD!LeaveStmt, C!BuilderAdd,
       CD!BuilderAdd, C!Draw, CD!Draw, C!JmpUnlessTerminated, CD!JmpUnlessTerminated,
       C!CodegenStart, CD!CodegenStart, C!CodegenEnd, CD!CodegenEnd, C!BlockGoesOn,
       CD!BlockGoesOn, C!BlockNext, CD!BlockNext, C!BlockEnd, CD!BlockEnd,
       C!BlockTerminated, CD!BlockTerminated, C!ReturnValue, CD!ReturnValue,
       C!ReturnJump, CD!ReturnJump, C!StmtExprValue, CD!StmtExprValue, C!StmtExprEnd,
       CD!StmtExprEnd, C!IfCond, CD!IfCond, C!IfThen, CD!IfThen, C!IfElse, CD!IfElse,
       C!IfNoElse, CD!IfNoElse, C!IfEnd, CD!IfEnd, C!ForInit, CD!ForInit, C!ForCheck,
       CD!ForCheck, C!LoopBody, CD!LoopBody, C!ForBody, CD!ForBody, C!ForPost,
       CD!ForPost, C!ForRepeat, CD!ForRepeat, C!ForTerminated, CD!ForTerminated,
       C!WhileCheck, CD!WhileCheck, C!WhileBody, CD!WhileBody, C!WhileEnd, CD!WhileEnd,
       C!ExprLit, CD!ExprLit, C!UnaopOperand, CD!UnaopOperand, C!UnaopResult,
       CD!UnaopResult, C!UnaopAddr, CD!UnaopAddr, C!AssRight, CD!AssRight, C!AssStore,
       CD!AssStore, C!BinopLeft, CD!BinopLeft, C!BinopRight, CD!BinopRight,
       C!BinopResult, CD!BinopResult, C!GenStmt, CD!GenStmt, C!GenExpr, CD!GenExpr,
       C!Next, CD!Next, C!Last, CD!Last, C!Front, CD!Front

LEMMA SameGrammar == \A t : Gr!Programs(t) = PD!Programs(t)
BY DEF Gr!StartsExpr, PD!StartsExpr, Gr!NewLit, PD!NewLit, Gr!NewUnary, PD!NewUnary,
       Gr!NewBinop, PD!NewBinop, Gr!NewStReturn, PD!NewStReturn, Gr!NewStExpr,
       PD!NewStExpr, Gr!NewStBlock, PD!NewStBlock, Gr!NewStIf, PD!NewStIf, Gr!NewStFor,
       PD!NewStFor, Gr!NewStForWhile, PD!NewStForWhile, Gr!NULL, PD!NULL, Gr!At, PD!At,
       Gr!IsId, PD!IsId, Gr!Splits, PD!Splits, Gr!BinopOf, PD!BinopOf, Gr!UnaopOf,
       PD!UnaopOf, Gr!Joined, PD!Joined, Gr!Sum, PD!Sum, Gr!Product, PD!Product,
       Gr!Expr, PD!Expr, Gr!Unary, PD!Unary, Gr!LiteralOf, PD!LiteralOf, Gr!Postfixed,
       PD!Postfixed, Gr!Optional, PD!Optional, Gr!StmtList, PD!StmtList, Gr!Block,
       PD!Block, Gr!BlockStarts, PD!BlockStarts, Gr!If, PD!If, Gr!While, PD!While,
       Gr!For, PD!For, Gr!Ended, PD!Ended, Gr!Stmt, PD!Stmt, Gr!Sorts, PD!Sorts,
       Gr!Stretches, PD!Stretches, Gr!Rule, PD!Rule, Gr!Trees, PD!Trees, Gr!Programs,
       PD!Programs

LEMMA SameRefusal == Refused = CD!Refused
BY DEF Refused, CD!Refused, Returns, CD!Returns, Looked, CD!Looked, IsAddress,
       CD!IsAddress, NULL, CD!NULL

LEMMA SameShape == \A n, N : WellFormed(n, N) <=> CD!WellFormed(n, N)
BY DEF WellFormed, CD!WellFormed, Exprs, CD!Exprs, Stmts, CD!Stmts, Blocks, CD!Blocks,
       ExprKinds, CD!ExprKinds, StmtKinds, CD!StmtKinds, UnaopKind, CD!UnaopKind,
       BinopKind, CD!BinopKind, ArithKind, CD!ArithKind, NULL, CD!NULL

LEMMA SameStmts ==
  /\ CD!Stmts(Node) = Stmts(Node)
  /\ \A N : PD!Stmts(N) = Stmts(N)
BY DEF Stmts, StmtKinds, PD!Stmts, PD!StmtKinds, CD!Stmts, CD!StmtKinds

(* What the proofs assume of the texts and of the trees. *)
LEMMA Assumed == PD!TextsAssumption /\ CD!NodeAssumption /\ CD!ProgramsAssumption
<1>1. PD!TextsAssumption
  BY SourcesAssumption DEF PD!TextsAssumption, ToSet, PD!ToSet, InText, PD!InText, TokenKind, PD!TokenKind
<1>2. CD!NodeAssumption
  BY NodeAssumption, SameShape DEF CD!NodeAssumption
<1>3. CD!ProgramsAssumption
  BY SameStmts DEF CD!ProgramsAssumption
<1> QED
  BY <1>1, <1>2, <1>3

-----------------------------------------------------------------------------
(***************************************************************************)
(* The invariant.                                                          *)
(***************************************************************************)
Accepted == ~Usage /\ ~UnknownStage

(* The lines that -e=lex has printed, and what it will exit with. *)
Lexing ==
  /\ stdout \in Seq({Line("token", text[k]) : k \in 1 .. Len(text)})
  /\ Len(stdout) <= Len(text)
  /\ exit_code \in {0, 1}
  /\ exit_code = 0 <=> \A k \in 1 .. Len(stdout) : text[k].kind # "TK_INVALID"

Silent == stdout = << >> /\ exit_code = 0

(* codegen was not called yet. *)
Idle == generating = "called" /\ gstack = << >> /\ sb = << >> /\ next_reg = 0 /\ terminated = FALSE

Where ==
  /\ main \in {"start", "lex", "parse", "codegen", "exited"}
  /\ main \in {"lex", "parse", "codegen"} => Accepted
  /\ main = "start" => Silent /\ Idle /\ parsing # "error"
  /\ main = "lex" => Stage = "lex" /\ Lexing
  /\ main = "parse" => Stage \in {"ast", "ir"} /\ Silent /\ Idle /\ parsing # "error"
  /\ main = "codegen" => /\ Stage = "ir" /\ Silent
                         /\ parsing = "done" /\ generating # "error"
                         /\ CD!IInv /\ CD!RInv

DInv == PD!PInv /\ Where /\ StagesAgree

-----------------------------------------------------------------------------
(* What main knows of a source where it is. *)
LEMMA TextIs ==
  ASSUME PD!PInv
  PROVE  /\ text \in Texts
         /\ Len(text) \in Nat
         /\ \A k \in 1 .. Len(text) : P!Tok(k) = text[k] /\ text[k].kind # "TK_EOF"
         /\ \A k \in Nat : k > Len(text) => P!Tok(k).kind = "TK_EOF"
<1>1. text \in Texts
  BY DEF PD!PInv, PD!AInv
<1>2. /\ Len(text) \in Nat
      /\ \A k \in 1 .. Len(text) : PD!Tok(k) = text[k] /\ PD!Tok(k).kind # "TK_EOF"
      /\ \A k \in Nat : k > Len(text) => PD!Tok(k).kind = "TK_EOF"
  BY <1>1, Assumed, PD!TokenKinds
<1>3. \A k : P!Tok(k) = PD!Tok(k)
  BY DEF P!Tok, PD!Tok, P!Token, PD!Token
<1> QED
  BY <1>1, <1>2, <1>3

LEMMA ParsedIs ==
  ASSUME PD!PInv, parsing = "done"
  PROVE  Trees = {ret} /\ Tree = ret /\ Valid /\ ret \in Stmts(Node)
<1>1. Trees = {ret}
  BY SameGrammar DEF PD!PInv, PD!DerivationInv, PD!CompletionInv, Trees
<1>2. Tree = ret
  BY <1>1 DEF Tree
<1>3. text \in Texts
  BY TextIs
<1>4. Valid
  BY <1>1, <1>3, Assumed, SameGrammar, PD!ProgramIsClean DEF Trees, Valid
<1>5. ret \in Node
  BY <1>1, <1>3, SourcesAssumption DEF Trees
<1>6. \E N : ret \in PD!Stmts(N)
  BY DEF PD!PInv, PD!TInv
<1> QED
  BY <1>1, <1>2, <1>4, <1>5, <1>6, SameStmts DEF Stmts

LEMMA StageIs ==
  ASSUME Accepted
  PROVE  Stage \in {"ast", "lex", "ir"}
BY DEF Accepted, UnknownStage, HasFlag, Stage, Flags

-----------------------------------------------------------------------------
(***************************************************************************)
(* The steps of main.                                                      *)
(***************************************************************************)
LEMMA InitDriver == Init => DInv
<1> SUFFICES ASSUME Init PROVE DInv
  OBVIOUS
<1>1. PD!PInv
  BY SameParser, Assumed, PD!InitParser DEF Init
<1>2. parsing # "error"
  BY DEF Init, P!Init
<1>3. Where
  BY <1>2 DEF Init, Where, Silent, Idle
<1> QED
  BY <1>1, <1>3 DEF DInv, Init, StagesAgree, Exited

(* The parser is left alone by the others, and the stages have agreed when main
   has exited. *)
LEMMA ParserStays == PD!PInv /\ UNCHANGED parser => PD!PInv'
BY Assumed, PD!NextParser DEF parser, PD!vars

LEMMA GeneratorStays ==
  CD!IInv /\ CD!RInv /\ UNCHANGED <<parser, generator>> => CD!IInv' /\ CD!RInv'
BY Assumed, CD!NextInv, CD!NextRefusal DEF parser, generator, CD!vars

LEMMA FailedAfter == PD!PInv' /\ parsing' = "error" => Trees' = {}
BY SameGrammar DEF PD!PInv, PD!CompletionInv, Trees

LEMMA ExitedStays ==
  ASSUME StagesAgree, main = "exited", UNCHANGED <<cmd, parser, main, stdout, exit_code>>
  PROVE  StagesAgree'
<1>1. cmd' = cmd /\ text' = text /\ main' = main /\ stdout' = stdout /\ exit_code' = exit_code
  BY DEF parser
<1>2. Exited' = Exited /\ Stage' = Stage
  BY <1>1 DEF Exited, Usage, UnknownStage, HasFlag, Stage
<1>3. Trees' = Trees /\ Tree' = Tree /\ Valid' = Valid
  BY <1>1 DEF Trees, Tree, Valid
<1> QED
  BY <1>1, <1>2, <1>3 DEF StagesAgree

LEMMA RefuseStep == DInv /\ Refuse => DInv'
<1> SUFFICES ASSUME DInv, Refuse PROVE DInv'
  OBVIOUS
<1>1. PD!PInv'
  BY ParserStays DEF DInv, Refuse
<1>2. main' = "exited" /\ (Usage' \/ UnknownStage')
  BY DEF Refuse, Exit, Usage, UnknownStage, HasFlag
<1> QED
  BY <1>1, <1>2 DEF DInv, Where, StagesAgree, Exited

LEMMA BeginStep == DInv /\ Begin => DInv'
<1> SUFFICES ASSUME DInv, Begin PROVE DInv'
  OBVIOUS
<1>1. PD!PInv'
  BY ParserStays DEF DInv, Begin
<1>2. Accepted /\ Accepted' /\ Stage' = Stage
  BY DEF Begin, Accepted, Usage, UnknownStage, HasFlag, Stage
<1>3. Silent' /\ Idle' /\ parsing' # "error"
  BY DEF DInv, Where, Begin, Silent, Idle, generator, parser
<1>4. main' = IF Stage = "lex" THEN "lex" ELSE "parse"
  BY DEF Begin
<1>5. Stage \in {"ast", "lex", "ir"}
  BY <1>2, StageIs
<1>6. Lexing'
  BY <1>3 DEF Lexing, Silent
<1>7. Where'
  BY <1>2, <1>3, <1>4, <1>5, <1>6 DEF Where
<1> QED
  BY <1>1, <1>4, <1>7 DEF DInv, StagesAgree, Exited

LEMMA LexTokenStep == DInv /\ LexToken => DInv'
<1> SUFFICES ASSUME DInv, LexToken PROVE DInv'
  OBVIOUS
<1>1. PD!PInv /\ PD!PInv'
  BY ParserStays DEF DInv, LexToken
<1>2. main = "lex" /\ main' = "lex" /\ text' = text
  BY DEF LexToken, parser
<1>3. Accepted /\ Stage = "lex" /\ Lexing
  BY <1>2 DEF DInv, Where
<1>4. Accepted' /\ Stage' = Stage
  BY <1>3 DEF LexToken, Accepted, Usage, UnknownStage, HasFlag, Stage
<1> DEFINE k == Len(stdout) + 1
           S == {Line("token", text[h]) : h \in 1 .. Len(text)}
<1>5. Len(text) \in Nat /\ stdout \in Seq(S) /\ Len(stdout) \in Nat
  BY <1>1, <1>3, TextIs DEF Lexing
<1>6. k \in 1 .. Len(text) /\ Scanned = text[k]
  BY <1>1, <1>5, TextIs DEF LexToken, Scanned
<1>7. /\ stdout' = Append(stdout, Line("token", text[k]))
      /\ exit_code' = IF text[k].kind = "TK_INVALID" THEN 1 ELSE exit_code
  BY <1>6 DEF LexToken
<1>8. stdout' \in Seq(S) /\ Len(stdout') = k
  BY <1>5, <1>6, <1>7
<1>9. 1 .. k = 1 .. Len(stdout) \cup {k}
  BY <1>5
<1>10. Lexing'
  BY <1>2, <1>3, <1>6, <1>7, <1>8, <1>9 DEF Lexing
<1> QED
  BY <1>1, <1>2, <1>3, <1>4, <1>10 DEF DInv, Where, StagesAgree, Exited

LEMMA LexEndStep == DInv /\ LexEnd => DInv'
<1> SUFFICES ASSUME DInv, LexEnd PROVE DInv'
  OBVIOUS
<1>1. PD!PInv /\ PD!PInv'
  BY ParserStays DEF DInv, LexEnd
<1>2. /\ main = "lex" /\ main' = "exited" /\ text' = text
      /\ stdout' = stdout /\ exit_code' = exit_code
  BY DEF LexEnd, Exit, parser
<1>3. Accepted /\ Stage = "lex" /\ Lexing
  BY <1>2 DEF DInv, Where
<1>4. Stage' = Stage
  BY DEF LexEnd, HasFlag, Stage
<1>5. Len(text) \in Nat /\ Len(stdout) \in Nat /\ Len(stdout) <= Len(text)
  BY <1>1, <1>3, TextIs DEF Lexing
<1>6. Len(stdout) = Len(text)
  <2> SUFFICES ASSUME Len(stdout) + 1 \in 1 .. Len(text) PROVE FALSE
    BY <1>5
  <2> QED
    BY <1>1, TextIs DEF LexEnd, Scanned
<1>7. exit_code = 0 <=> Valid
  BY <1>3, <1>6 DEF Lexing, Valid
<1>8. Valid' <=> Valid
  BY <1>2 DEF Valid
<1>9. StagesAgree'
  BY <1>2, <1>3, <1>4, <1>6, <1>7, <1>8 DEF StagesAgree
<1> QED
  BY <1>1, <1>2, <1>9 DEF DInv, Where

LEMMA ParseStep == DInv /\ Parse => DInv'
<1> SUFFICES ASSUME DInv, Parse PROVE DInv'
  OBVIOUS
<1>1. PD!PInv'
  BY SameParser, Assumed, PD!NextParser DEF DInv, Parse
<1>2. main = "parse" /\ cmd' = cmd /\ stdout' = stdout /\ UNCHANGED generator
  BY DEF Parse
<1>3. Accepted /\ Stage \in {"ast", "ir"} /\ Silent /\ Idle
  BY <1>2 DEF DInv, Where
<1>4. Accepted' /\ Stage' = Stage /\ Idle'
  BY <1>2, <1>3 DEF Accepted, Usage, UnknownStage, HasFlag, Stage, Idle, generator
<1>5. CASE parsing' = "error"
  <2>1. main' = "exited" /\ exit_code' = 1 /\ stdout' = << >>
    BY <1>2, <1>3, <1>5 DEF Parse, Exit, Silent
  <2>2. Trees' = {}
    BY <1>1, <1>5, FailedAfter
  <2>3. Stage' = "ast" \/ Stage' = "ir"
    BY <1>3, <1>4
  <2>4. StagesAgree'
    <3>1. CASE Stage' = "ast"
      BY <2>1, <2>2, <3>1 DEF StagesAgree
    <3>2. CASE Stage' = "ir"
      BY <2>1, <2>2, <3>2 DEF StagesAgree
    <3> QED
      BY <2>3, <3>1, <3>2
  <2> QED
    BY <1>1, <2>1, <2>4 DEF DInv, Where
<1>6. CASE parsing' # "error"
  <2>1. main' = "parse" /\ Silent'
    BY <1>2, <1>3, <1>6 DEF Parse, Silent
  <2> QED
    BY <1>1, <1>3, <1>4, <1>6, <2>1 DEF DInv, Where, StagesAgree, Exited
<1> QED
  BY <1>5, <1>6

LEMMA DumpStep == DInv /\ Dump => DInv'
<1> SUFFICES ASSUME DInv, Dump PROVE DInv'
  OBVIOUS
<1>1. PD!PInv /\ PD!PInv'
  BY ParserStays DEF DInv, Dump
<1>2. /\ parsing = "done" /\ Stage = "ast" /\ main' = "exited" /\ exit_code' = 0
      /\ stdout' = <<Line("tree", ret)>> /\ text' = text /\ cmd' = cmd
  BY DEF Dump, Exit, parser
<1>3. Trees = {ret} /\ Valid
  BY <1>1, <1>2, ParsedIs
<1>4. Trees' = Trees /\ Valid' = Valid /\ Stage' = Stage
  BY <1>2 DEF Trees, Valid, Stage, HasFlag
<1>5. StagesAgree'
  BY <1>2, <1>3, <1>4 DEF StagesAgree
<1> QED
  BY <1>1, <1>2, <1>5 DEF DInv, Where

(* codegen is called on a tree that its proofs are about. *)
LEMMA CodegenStep == DInv /\ Codegen => DInv'
<1> SUFFICES ASSUME DInv, Codegen PROVE DInv'
  OBVIOUS
<1>1. PD!PInv /\ PD!PInv'
  BY ParserStays DEF DInv, Codegen
<1>2. /\ main = "parse" /\ main' = "codegen" /\ parsing = "done" /\ Stage = "ir"
      /\ UNCHANGED <<cmd, parser, generator, stdout, exit_code>>
  BY DEF Codegen
<1>3. Accepted /\ Silent /\ Idle
  BY <1>2 DEF DInv, Where
<1>4. ret \in Stmts(Node)
  BY <1>1, <1>2, ParsedIs
<1>5. CD!Init
  BY <1>3, <1>4 DEF CD!Init, Idle
<1>6. CD!IInv /\ CD!RInv
  BY <1>5, Assumed, CD!InitInv, CD!InitRefusal
<1>7. CD!IInv' /\ CD!RInv'
  BY <1>2, <1>6, GeneratorStays
<1>8. Accepted' /\ Stage' = Stage /\ Silent' /\ parsing' = "done" /\ generating' # "error"
  BY <1>2, <1>3 DEF Accepted, Usage, UnknownStage, HasFlag, Stage, Silent, Idle, parser, generator
<1> QED
  BY <1>1, <1>2, <1>7, <1>8 DEF DInv, Where, StagesAgree, Exited

LEMMA GenerateStep == DInv /\ Generate => DInv'
<1> SUFFICES ASSUME DInv, Generate PROVE DInv'
  OBVIOUS
<1>1. PD!PInv /\ PD!PInv'
  BY ParserStays DEF DInv, Generate
<1>2. main = "codegen" /\ UNCHANGED <<cmd, parser, stdout>>
  BY DEF Generate
<1>3. Accepted /\ Stage = "ir" /\ Silent /\ parsing = "done" /\ CD!IInv /\ CD!RInv
  BY <1>2 DEF DInv, Where
<1>4. CD!IInv' /\ CD!RInv'
  BY <1>3, SameGenerator, Assumed, CD!NextInv, CD!NextRefusal DEF Generate
<1>5. Accepted' /\ Stage' = Stage /\ parsing' = "done" /\ ret' = ret /\ text' = text
  BY <1>2, <1>3 DEF Accepted, Usage, UnknownStage, HasFlag, Stage, parser
<1>6. CASE generating' = "error"
  <2>1. main' = "exited" /\ exit_code' = 1 /\ stdout' = << >>
    BY <1>2, <1>3, <1>6 DEF Generate, Exit, Silent
  <2>2. Trees = {ret} /\ Tree = ret /\ Valid
    BY <1>1, <1>3, ParsedIs
  <2>3. Refused[ret]
    BY <1>4, <1>5, <1>6, SameRefusal DEF CD!RInv
  <2>4. Trees' = Trees /\ Tree' = Tree /\ Valid' = Valid
    BY <1>5 DEF Trees, Tree, Valid
  <2>5. StagesAgree'
    BY <1>3, <1>5, <2>1, <2>2, <2>3, <2>4 DEF StagesAgree
  <2> QED
    BY <1>1, <2>1, <2>5 DEF DInv, Where
<1>7. CASE generating' # "error"
  <2>1. main' = "codegen" /\ Silent'
    BY <1>2, <1>3, <1>7 DEF Generate, Silent
  <2> QED
    BY <1>1, <1>3, <1>4, <1>5, <1>7, <2>1 DEF DInv, Where, StagesAgree, Exited
<1> QED
  BY <1>6, <1>7

LEMMA PutsStep == DInv /\ Puts => DInv'
<1> SUFFICES ASSUME DInv, Puts PROVE DInv'
  OBVIOUS
<1>1. PD!PInv /\ PD!PInv'
  BY ParserStays DEF DInv, Puts
<1>2. /\ main = "codegen" /\ generating = "done" /\ main' = "exited" /\ exit_code' = 0
      /\ stdout' = <<Line("code", sb)>> /\ text' = text /\ cmd' = cmd
  BY DEF Puts, Exit, parser
<1>3. Stage = "ir" /\ parsing = "done" /\ CD!RInv
  BY <1>2 DEF DInv, Where
<1>4. Trees = {ret} /\ Tree = ret /\ Valid
  BY <1>1, <1>3, ParsedIs
<1>5. ~Refused[ret]
  BY <1>2, <1>3, SameRefusal DEF CD!RInv
<1>6. Trees' = Trees /\ Tree' = Tree /\ Valid' = Valid /\ Stage' = Stage
  BY <1>2 DEF Trees, Tree, Valid, Stage, HasFlag
<1>7. StagesAgree'
  BY <1>2, <1>3, <1>4, <1>5, <1>6 DEF StagesAgree
<1> QED
  BY <1>1, <1>2, <1>7 DEF DInv, Where

LEMMA ExecuteStep == DInv /\ Execute => DInv'
<1>1. DInv /\ Execute => PD!PInv'
  BY ParserStays DEF DInv, Execute
<1>2. DInv /\ Execute => StagesAgree' /\ main' = "exited"
  BY ExitedStays DEF DInv, Execute
<1> QED
  BY <1>1, <1>2 DEF DInv, Where

LEMMA StutterDriver == DInv /\ UNCHANGED vars => DInv'
<1> SUFFICES ASSUME DInv, UNCHANGED vars PROVE DInv'
  OBVIOUS
<1>1. PD!PInv'
  BY ParserStays DEF DInv, vars
<1>2. StagesAgree'
  <2>1. CASE main = "exited"
    BY <2>1, ExitedStays DEF DInv, vars
  <2>2. CASE main # "exited"
    BY <2>2 DEF vars, StagesAgree, Exited
  <2> QED
    BY <2>1, <2>2
<1>3. Where'
  <2>1. UNCHANGED <<cmd, parser, generator, main, stdout, exit_code>>
    BY DEF vars
  <2>2. CD!IInv /\ CD!RInv => CD!IInv' /\ CD!RInv'
    BY <2>1, GeneratorStays
  <2>3. Lexing => Lexing'
    BY <2>1 DEF Lexing, parser
  <2> QED
    BY <2>1, <2>2, <2>3 DEF DInv, Where, Accepted, Usage, UnknownStage, HasFlag, Stage, Silent,
                            Idle, parser, generator
<1> QED
  BY <1>1, <1>2, <1>3 DEF DInv

-----------------------------------------------------------------------------
LEMMA NextDriver == DInv /\ [Next]_vars => DInv'
BY RefuseStep, BeginStep, LexTokenStep, LexEndStep, ParseStep, DumpStep, CodegenStep,
   GenerateStep, PutsStep, ExecuteStep, StutterDriver DEF Next

LEMMA InductiveDriver == Spec => []DInv
BY InitDriver, NextDriver, PTL DEF Spec

(* On every source and every command line: -e=lex exits with 0 if no token is
   invalid and prints all of them, -e=ast if moreover the grammar gives the
   source a tree, -e=ir if moreover its tree is not refused; what fails exits
   with 1 and prints nothing. *)
THEOREM StagesDoAgree == Spec => []StagesAgree
<1>1. DInv => StagesAgree
  BY DEF DInv
<1> QED
  BY <1>1, InductiveDriver, PTL

(* On every source: what the parser hands to the code generator is a statement
   of Node, the trees that the theorems about the code generator are about. *)
THEOREM GeneratorIsFed == Spec => []ParserFeedsGenerator
<1>1. DInv => ParserFeedsGenerator
  BY ParsedIs DEF DInv, ParserFeedsGenerator
<1> QED
  BY <1>1, InductiveDriver, PTL
=============================================================================
