------------------------------- MODULE Codegen ------------------------------
(***************************************************************************)
(* The code generator, src/codegen.c: a recursive walk over the tree that  *)
(* appends lines of QBE intermediate code to the global buffer sb and      *)
(* draws the numbers of its temporaries and labels from the global counter *)
(* next_reg.                                                               *)
(*                                                                         *)
(* The recursion is the variable stack, whose last element is the frame of *)
(* the function that runs: the node it was given, the temporary its value  *)
(* must be left in, the point (pc) where it goes on when its callee        *)
(* returns, and its local variables.  An action is the part of a function  *)
(* between two calls; "terminated" is what the last codegen_stmt returned. *)
(***************************************************************************)
EXTENDS SequencesExt, Nodes, IR

CONSTANT Programs   \* the roots codegen may be called on

ASSUME ProgramsAssumption == Programs \subseteq Stmts(Node)

VARIABLES
  ast,         \* the argument of codegen
  phase,       \* "called", "generating", "done", or "error" after exit(1)
  stack,       \* the frames of the recursion
  sb,          \* the lines added to the string builder
  next_reg,    \* the number the next temporary or label gets
  terminated   \* the result of the last codegen_stmt

vars == <<ast, phase, stack, sb, next_reg, terminated>>

-----------------------------------------------------------------------------
BinopkToStr(op) ==
  CASE op = "BINOP_ADD" -> "add"
    [] op = "BINOP_SUB" -> "sub"
    [] op = "BINOP_MUL" -> "mul"
    [] op = "BINOP_DIV" -> "div"

-----------------------------------------------------------------------------
(***************************************************************************)
(* Frames, calls and returns.                                              *)
(***************************************************************************)
Frame(node, var) ==
  [node |-> node, var |-> var, pc |-> "enter", i |-> 0, n |-> 0, m |-> 0]

Top == Last(stack)

At(kind, pc) ==
  /\ phase = "generating"
  /\ stack # << >>
  /\ Top.node.kind = kind
  /\ Top.pc = pc

(* The running function becomes top, and calls codegen_stmt or
   codegen_expr on node. *)
Call(top, node, var) == stack' = Append(Append(Front(stack), top), Frame(node, var))

(* codegen_expr returns; codegen_stmt returns b. *)
LeaveExpr == stack' = Front(stack) /\ UNCHANGED terminated
LeaveStmt(b) == stack' = Front(stack) /\ terminated' = b

BuilderAdd(lines) == sb' = sb \o lines

DrawNothing(k) == next_reg' = next_reg * k   \* faulty: the counter stays at 0
Draw(k) == next_reg' = next_reg + k

JmpAlways(l) == <<Jmp(l)>>   \* faulty: terminated is not looked at
JmpUnlessTerminated(l) == IF terminated THEN << >> ELSE <<Jmp(l)>>

-----------------------------------------------------------------------------
(***************************************************************************)
(* Faulty variants of the actions below.  None is part of the model: the   *)
(* properties are tested by putting one of them in the place of its        *)
(* original.                                                               *)
(***************************************************************************)

(* BlockNext in a loop that does not count: the same statement again. *)
BlockNextStays ==
  /\ \E pc \in {"enter", "list"} : At("NKSt_BLOCK", pc)
  /\ Top.pc = "enter" \/ ~terminated
  /\ Top.i < Len(Top.node.list)
  /\ Call([Top EXCEPT !.pc = "list"], Top.node.list[Top.i + 1], None)
  /\ UNCHANGED <<ast, phase, sb, next_reg, terminated>>

(* IfElse without the test of the pointer. *)
IfElseUntested ==
  /\ At("NKSt_IF", "then")
  /\ BuilderAdd(JmpUnlessTerminated(Reg("@.endif", Top.n))
                  \o <<Label(Reg("@.else", Top.n))>>)
  /\ Call([Top EXCEPT !.pc = "else"], Top.node.ifnot, None)
  /\ UNCHANGED <<ast, phase, next_reg, terminated>>

(* IfThen with the label of the branch before the test. *)
IfThenSwapped ==
  /\ At("NKSt_IF", "cond")
  /\ Draw(1)
  /\ BuilderAdd(<<Label(Reg("@.if", next_reg)),
                  Jnz(Reg(".cond", Top.m), Reg("@.if", next_reg),
                                           Reg("@.else", next_reg))>>)
  /\ Call([Top EXCEPT !.pc = "then", !.n = next_reg], Top.node.block, None)
  /\ UNCHANGED <<ast, phase, terminated>>

(* ForTerminated with the end label inside the conditional. *)
ForTerminatedBare ==
  /\ At("NKSt_FOR", "body")
  /\ terminated
  /\ LeaveStmt(FALSE)
  /\ UNCHANGED <<ast, phase, sb, next_reg>>

(* LoopBody with the labels of the test in the wrong order. *)
LoopBodySwapped(kind) ==
  /\ At(kind, "cond")
  /\ BuilderAdd(<<Jnz(Reg(".cond", Top.m), Reg("@.endloop", Top.n),
                                            Reg("@.loop", Top.n)),
                  Label(Reg("@.loop", Top.n))>>)
  /\ Call([Top EXCEPT !.pc = "body"], Top.node.block, None)
  /\ UNCHANGED <<ast, phase, next_reg, terminated>>

(* ForRepeat that goes back behind the test. *)
ForRepeatUntested ==
  /\ At("NKSt_FOR", "post")
  /\ BuilderAdd(<<Jmp(Reg("@.loop", Top.n)), Label(Reg("@.endloop", Top.n))>>)
  /\ LeaveStmt(FALSE)
  /\ UNCHANGED <<ast, phase, next_reg>>

(* UnaopOperand reading next_reg without incrementing it. *)
UnaopOperandPeek ==
  /\ At("NKEx_UNAOP", "enter")
  /\ Top.node.op \in {"UNAOP_NEG", "UNAOP_STAR"}
  /\ Call([Top EXCEPT !.pc = "operand", !.n = next_reg],
          Top.node.expr, Reg(".tmp.una", next_reg))
  /\ UNCHANGED <<ast, phase, sb, next_reg, terminated>>

-----------------------------------------------------------------------------
(***************************************************************************)
(* codegen                                                                 *)
(***************************************************************************)
Init ==
  /\ ast \in Programs
  /\ phase = "called"
  /\ stack = << >>
  /\ sb = << >>
  /\ next_reg = 0
  /\ terminated = FALSE

CodegenStart ==
  /\ phase = "called"
  /\ phase' = "generating"
  /\ sb' = <<Label(Name("@start")), Ins("copy", Name(".ret"), <<Imm(0)>>)>>
  /\ stack' = <<Frame(ast, None)>>
  /\ UNCHANGED <<ast, next_reg, terminated>>

CodegenEnd ==
  /\ phase = "generating"
  /\ stack = << >>
  /\ phase' = "done"
  /\ BuilderAdd(<<Label(RetLabel), Ret(Name(".ret"))>>)
  /\ UNCHANGED <<ast, stack, next_reg, terminated>>

-----------------------------------------------------------------------------
(***************************************************************************)
(* codegen_stmt_block: statements are generated until one of them returns  *)
(* true; what follows it in the block is never looked at.                  *)
(***************************************************************************)
BlockGoesOn == Top.pc = "enter" \/ ~terminated

BlockNext ==
  /\ \E pc \in {"enter", "list"} : At("NKSt_BLOCK", pc)
  /\ BlockGoesOn
  /\ Top.i < Len(Top.node.list)
  /\ Call([Top EXCEPT !.pc = "list", !.i = @ + 1],
          Top.node.list[Top.i + 1], None)
  /\ UNCHANGED <<ast, phase, sb, next_reg, terminated>>

BlockEnd ==
  /\ \E pc \in {"enter", "list"} : At("NKSt_BLOCK", pc)
  /\ BlockGoesOn
  /\ Top.i = Len(Top.node.list)
  /\ LeaveStmt(FALSE)
  /\ UNCHANGED <<ast, phase, sb, next_reg>>

BlockTerminated ==
  /\ At("NKSt_BLOCK", "list")
  /\ terminated
  /\ LeaveStmt(TRUE)
  /\ UNCHANGED <<ast, phase, sb, next_reg>>

-----------------------------------------------------------------------------
(***************************************************************************)
(* codegen_stmt_return and codegen_stmt_expr                               *)
(***************************************************************************)
ReturnValue ==
  /\ At("NKSt_RETURN", "enter")
  /\ Draw(1)
  /\ Call([Top EXCEPT !.pc = "value", !.n = next_reg],
          Top.node.expr, Reg(".tmp", next_reg))
  /\ UNCHANGED <<ast, phase, sb, terminated>>

ReturnJump ==
  /\ At("NKSt_RETURN", "value")
  /\ BuilderAdd(<<Ins("copy", Name(".ret"), <<Reg(".tmp", Top.n)>>),
                  Jmp(RetLabel)>>)
  /\ LeaveStmt(TRUE)
  /\ UNCHANGED <<ast, phase, next_reg>>

StmtExprValue ==
  /\ At("NKSt_EXPR", "enter")
  /\ Call([Top EXCEPT !.pc = "value"], Top.node.expr, Name(".sexpr"))
  /\ UNCHANGED <<ast, phase, sb, next_reg, terminated>>

StmtExprEnd ==
  /\ At("NKSt_EXPR", "value")
  /\ LeaveStmt(FALSE)
  /\ UNCHANGED <<ast, phase, sb, next_reg>>

-----------------------------------------------------------------------------
(***************************************************************************)
(* codegen_stmt_if.  The local "terminated" of the C function is only      *)
(* assigned by the else branch when there is one, so without one the test  *)
(* before the end label still sees the result of the then branch.          *)
(***************************************************************************)
IfCond ==
  /\ At("NKSt_IF", "enter")
  /\ Draw(1)
  /\ Call([Top EXCEPT !.pc = "cond", !.m = next_reg],
          Top.node.cond, Reg(".cond", next_reg))
  /\ UNCHANGED <<ast, phase, sb, terminated>>

IfThen ==
  /\ At("NKSt_IF", "cond")
  /\ Draw(1)
  /\ BuilderAdd(<<Jnz(Reg(".cond", Top.m), Reg("@.if", next_reg),
                                            Reg("@.else", next_reg)),
                  Label(Reg("@.if", next_reg))>>)
  /\ Call([Top EXCEPT !.pc = "then", !.n = next_reg], Top.node.block, None)
  /\ UNCHANGED <<ast, phase, terminated>>

IfElse ==
  /\ At("NKSt_IF", "then")
  /\ Top.node.ifnot # NULL
  /\ BuilderAdd(JmpUnlessTerminated(Reg("@.endif", Top.n))
                  \o <<Label(Reg("@.else", Top.n))>>)
  /\ Call([Top EXCEPT !.pc = "else"], Top.node.ifnot, None)
  /\ UNCHANGED <<ast, phase, next_reg, terminated>>

IfNoElse ==
  /\ At("NKSt_IF", "then")
  /\ Top.node.ifnot = NULL
  /\ BuilderAdd(JmpUnlessTerminated(Reg("@.endif", Top.n))
                  \o <<Label(Reg("@.else", Top.n))>>
                  \o JmpUnlessTerminated(Reg("@.endif", Top.n))
                  \o <<Label(Reg("@.endif", Top.n))>>)
  /\ LeaveStmt(FALSE)
  /\ UNCHANGED <<ast, phase, next_reg>>

IfEnd ==
  /\ At("NKSt_IF", "else")
  /\ BuilderAdd(JmpUnlessTerminated(Reg("@.endif", Top.n))
                  \o <<Label(Reg("@.endif", Top.n))>>)
  /\ LeaveStmt(FALSE)
  /\ UNCHANGED <<ast, phase, next_reg>>

-----------------------------------------------------------------------------
(***************************************************************************)
(* codegen_stmt_for: the post expression and the jump back are left out    *)
(* when the body always returns.                                           *)
(***************************************************************************)
ForInit ==
  /\ At("NKSt_FOR", "enter")
  /\ Draw(1)
  /\ BuilderAdd(<<Label(Reg("@.init", next_reg))>>)
  /\ Call([Top EXCEPT !.pc = "init", !.n = next_reg],
          Top.node.init, Name(".init"))
  /\ UNCHANGED <<ast, phase, terminated>>

ForCheck ==
  /\ At("NKSt_FOR", "init")
  /\ Draw(1)
  /\ BuilderAdd(<<Label(Reg("@.check", Top.n))>>)
  /\ Call([Top EXCEPT !.pc = "cond", !.m = next_reg],
          Top.node.cond, Reg(".cond", next_reg))
  /\ UNCHANGED <<ast, phase, terminated>>

(* The head of either loop ends in the test; then comes the body. *)
LoopBody(kind) ==
  /\ At(kind, "cond")
  /\ BuilderAdd(<<Jnz(Reg(".cond", Top.m), Reg("@.loop", Top.n),
                                            Reg("@.endloop", Top.n)),
                  Label(Reg("@.loop", Top.n))>>)
  /\ Call([Top EXCEPT !.pc = "body"], Top.node.block, None)
  /\ UNCHANGED <<ast, phase, next_reg, terminated>>

ForBody == LoopBody("NKSt_FOR")

ForPost ==
  /\ At("NKSt_FOR", "body")
  /\ ~terminated
  /\ Call([Top EXCEPT !.pc = "post"], Top.node.post, Name(".post"))
  /\ UNCHANGED <<ast, phase, sb, next_reg, terminated>>

ForRepeat ==
  /\ At("NKSt_FOR", "post")
  /\ BuilderAdd(<<Jmp(Reg("@.check", Top.n)), Label(Reg("@.endloop", Top.n))>>)
  /\ LeaveStmt(FALSE)
  /\ UNCHANGED <<ast, phase, next_reg>>

ForTerminated ==
  /\ At("NKSt_FOR", "body")
  /\ terminated
  /\ BuilderAdd(<<Label(Reg("@.endloop", Top.n))>>)
  /\ LeaveStmt(FALSE)
  /\ UNCHANGED <<ast, phase, next_reg>>

-----------------------------------------------------------------------------
(***************************************************************************)
(* codegen_stmt_fwhile                                                     *)
(***************************************************************************)
WhileCheck ==
  /\ At("NKSt_FOR_WHILE", "enter")
  /\ Draw(2)
  /\ BuilderAdd(<<Label(Reg("@.check", next_reg))>>)
  /\ Call([Top EXCEPT !.pc = "cond", !.n = next_reg, !.m = next_reg + 1],
          Top.node.cond, Reg(".cond", next_reg + 1))
  /\ UNCHANGED <<ast, phase, terminated>>

WhileBody == LoopBody("NKSt_FOR_WHILE")

WhileEnd ==
  /\ At("NKSt_FOR_WHILE", "body")
  /\ BuilderAdd(JmpUnlessTerminated(Reg("@.check", Top.n))
                  \o <<Label(Reg("@.endloop", Top.n))>>)
  /\ LeaveStmt(FALSE)
  /\ UNCHANGED <<ast, phase, next_reg>>

-----------------------------------------------------------------------------
(***************************************************************************)
(* codegen_expr_lit and codegen_expr_unaop                                 *)
(***************************************************************************)
ExprLit ==
  /\ At("NKEx_LIT", "enter")
  /\ BuilderAdd(IF Top.node.lit = "LK_ID"
                THEN <<Ins("loadw", Top.var, <<Var(Top.node.str)>>)>>
                ELSE <<Ins("copy", Top.var, <<Imm(Top.node.str)>>)>>)
  /\ LeaveExpr
  /\ UNCHANGED <<ast, phase, next_reg>>

UnaopOperand ==
  /\ At("NKEx_UNAOP", "enter")
  /\ Top.node.op \in {"UNAOP_NEG", "UNAOP_STAR"}
  /\ Draw(1)
  /\ Call([Top EXCEPT !.pc = "operand", !.n = next_reg],
          Top.node.expr, Reg(".tmp.una", next_reg))
  /\ UNCHANGED <<ast, phase, sb, terminated>>

UnaopResult ==
  /\ At("NKEx_UNAOP", "operand")
  /\ LET name == Reg(".tmp.una", Top.n)
     IN  BuilderAdd(IF Top.node.op = "UNAOP_NEG"
                    THEN <<Ins("mul", Top.var, <<name, Imm(-1)>>)>>
                    ELSE <<Ins("loadw", Top.var, <<name>>)>>)
  /\ LeaveExpr
  /\ UNCHANGED <<ast, phase, next_reg>>

(* error("todo: unaop_addr and codegen_addr"): the process exits. *)
UnaopAddr ==
  /\ At("NKEx_UNAOP", "enter")
  /\ Top.node.op = "UNAOP_ADDR"
  /\ phase' = "error"
  /\ UNCHANGED <<ast, stack, sb, next_reg, terminated>>

-----------------------------------------------------------------------------
(***************************************************************************)
(* codegen_expr_binop: an assignment takes a new stack slot for the        *)
(* variable each time it is executed.                                      *)
(***************************************************************************)
AssRight ==
  /\ At("NKEx_BINOP", "enter")
  /\ Top.node.op = "BINOP_ASS"
  /\ Draw(1)
  /\ Call([Top EXCEPT !.pc = "assigned", !.n = next_reg],
          Top.node.right, Reg(".tmp.ass", next_reg))
  /\ UNCHANGED <<ast, phase, sb, terminated>>

AssStore ==
  /\ At("NKEx_BINOP", "assigned")
  /\ LET var == Var(Top.node.left.str)
         right_name == Reg(".tmp.ass", Top.n)
     IN  BuilderAdd(<<Ins("alloc4", var, <<Imm(1)>>),
                      Store(right_name, var),
                      Ins("copy", Top.var, <<right_name>>)>>)
  /\ LeaveExpr
  /\ UNCHANGED <<ast, phase, next_reg>>

BinopLeft ==
  /\ At("NKEx_BINOP", "enter")
  /\ Top.node.op # "BINOP_ASS"
  /\ Draw(1)
  /\ Call([Top EXCEPT !.pc = "left", !.n = next_reg],
          Top.node.left, Reg(".tmp.l", next_reg))
  /\ UNCHANGED <<ast, phase, sb, terminated>>

BinopRight ==
  /\ At("NKEx_BINOP", "left")
  /\ Draw(1)
  /\ Call([Top EXCEPT !.pc = "right", !.m = next_reg],
          Top.node.right, Reg(".tmp.r", next_reg))
  /\ UNCHANGED <<ast, phase, sb, terminated>>

BinopResult ==
  /\ At("NKEx_BINOP", "right")
  /\ BuilderAdd(<<Ins(BinopkToStr(Top.node.op), Top.var,
                      <<Reg(".tmp.l", Top.n), Reg(".tmp.r", Top.m)>>)>>)
  /\ LeaveExpr
  /\ UNCHANGED <<ast, phase, next_reg>>

-----------------------------------------------------------------------------
GenStmt ==
  \/ BlockNext \/ BlockEnd \/ BlockTerminated
  \/ ReturnValue \/ ReturnJump
  \/ StmtExprValue \/ StmtExprEnd
  \/ IfCond \/ IfThen \/ IfElse \/ IfNoElse \/ IfEnd
  \/ ForInit \/ ForCheck \/ ForBody \/ ForPost \/ ForRepeat \/ ForTerminated
  \/ WhileCheck \/ WhileBody \/ WhileEnd

GenExpr ==
  \/ ExprLit
  \/ UnaopOperand \/ UnaopResult \/ UnaopAddr
  \/ AssRight \/ AssStore
  \/ BinopLeft \/ BinopRight \/ BinopResult

Next == CodegenStart \/ GenStmt \/ GenExpr \/ CodegenEnd

(* A single thread runs until codegen returns or exits. *)
Spec == Init /\ [][Next]_vars /\ WF_vars(Next)

-----------------------------------------------------------------------------
(***************************************************************************)
(* Type invariant.                                                         *)
(***************************************************************************)
PCs == {"enter", "list", "value", "cond", "then", "else", "init", "body",
        "post", "operand", "assigned", "left", "right"}

NumberedPrefixes ==
  {".tmp", ".tmp.una", ".tmp.ass", ".tmp.l", ".tmp.r", ".cond"}

Temps == (NumberedPrefixes \cup {".ret", ".sexpr", ".init", ".post"}) \X Nat

LabelPrefixes == {"@start", "@.ret", "@.if", "@.else", "@.endif", "@.init",
                  "@.check", "@.loop", "@.endloop"}

Vars == {Var(n.str) : n \in {l \in Node : l.kind = "NKEx_LIT" /\ l.lit = "LK_ID"}}

Line == [op : Opcodes,
         def : Temps \cup Vars \cup {None},
         args : Seq(Temps \cup Vars \cup ({"imm"} \X Int)),
         to : Seq(LabelPrefixes \X Nat)]

FrameType == [node : Node, var : Temps \cup {None}, pc : PCs,
              i : Nat, n : Nat, m : Nat]

(* The type of every variable of the code generator. *)
TypeOK ==
  /\ ast \in Programs
  /\ phase \in {"called", "generating", "done", "error"}
  /\ stack \in Seq(FrameType)
  /\ sb \in Seq(Line)
  /\ next_reg \in Nat
  /\ terminated \in BOOLEAN

-----------------------------------------------------------------------------
(***************************************************************************)
(* What QBE requires of the text it is given.  Every property is about the *)
(* order in which the functions of codegen.c, called on an arbitrary tree, *)
(* interleave their additions to the shared buffer.                        *)
(***************************************************************************)

(* "qbe doesnt allow code after a jmp" (codegen.c:55): a jump is the last
   line of the text so far, or the next line is a label. *)
JumpEndsBlock ==
  \A k \in 1 .. Len(sb) - 1 : IsJump(sb[k]) => IsLabel(sb[k + 1])

(* No label is added twice: the numbers the if, for and while functions draw
   from next_reg keep the labels of nested and successive statements apart. *)
LabelsUnique ==
  \A j, k \in 1 .. Len(sb) :
    IsLabel(sb[j]) /\ IsLabel(sb[k]) /\ sb[j].to = sb[k].to => j = k

Defined(l) == \E k \in 1 .. Len(sb) : IsLabel(sb[k]) /\ sb[k].to = <<l>>

(* When codegen returns, every jump goes to a label of the text. *)
JumpTargetsDefined ==
  phase = "done" =>
    \A k \in 1 .. Len(sb) : IsJump(sb[k]) =>
      \A t \in 1 .. Len(sb[k].to) : Defined(sb[k].to[t])

Numbered(name) == name[1] \in NumberedPrefixes

(* A numbered temporary is computed by exactly one line, so nothing that is
   generated between its definition and its use can overwrite it. *)
TempsAssignedOnce ==
  \A j, k \in 1 .. Len(sb) :
    Numbered(sb[j].def) /\ sb[j].def = sb[k].def => j = k

(* The line that computes a numbered temporary comes before every use of it
   and in the same block: no label lies between the two, whatever statements
   and operands are generated in between. *)
TempsBlockLocal ==
  \A k \in 1 .. Len(sb) : \A a \in 1 .. Len(sb[k].args) :
    Numbered(sb[k].args[a]) =>
      \E j \in 1 .. k - 1 :
        /\ sb[j].def = sb[k].args[a]
        /\ \A h \in j + 1 .. k : ~IsLabel(sb[h])

(* codegen returns or exits on every tree: the walk never visits a node
   twice. *)
Terminates == <>(phase \in {"done", "error"})
=============================================================================
