---------------------------- MODULE CodegenProofs ---------------------------
(***************************************************************************)
(* Theorems about the code generator, for every set of trees, in four      *)
(* parts with an inductive invariant each.                                 *)
(*                                                                         *)
(* The types and the blocks.  Every action of Codegen but the first, the   *)
(* last and the exit does one of two things: it adds lines and calls       *)
(* (Call), or it adds lines and returns (LeaveStmt, LeaveExpr).  CallStep  *)
(* and LeaveStep say once what such a step owes to the invariant; an action*)
(* is then checked by giving its lines, its frame and its callee.          *)
(*                                                                         *)
(* The labels: each is added once, and every jump has its label when       *)
(* codegen returns.  The functions for if, for and while draw a number,    *)
(* and jump to labels of that number before they add them.  What a frame   *)
(* has still to add is Pending; LabelStep says once what the lines of a    *)
(* step owe to it.                                                         *)
(*                                                                         *)
(* The temporaries: each is computed once, and in the block of the lines   *)
(* that use it.  A frame owes the one it was called with (OwedFree) and    *)
(* uses those its callees have computed (UsesReady); CallTemps and         *)
(* LeaveTemps say once what a call and a return owe to the invariant.      *)
(*                                                                         *)
(* The refused trees: a frame has seen that what it has done with is not   *)
(* refused (Settled), and what its callee returned is what Returns says.   *)
(***************************************************************************)
EXTENDS Codegen, Refusal, SeqLemmas

-----------------------------------------------------------------------------
(***************************************************************************)
(* The types and the blocks: the inductive invariant.                      *)
(***************************************************************************)

(* The points at which a frame waits for codegen_stmt; at the others but
   "enter" it waits for codegen_expr. *)
StmtPCs == {"list", "then", "else", "body"}

Awaited(f) == IF f.pc \in StmtPCs THEN Stmts(Node) ELSE Exprs(Node)

(* codegen_expr_binop takes one of two ways, for good. *)
FrameOK(f) ==
  /\ f.pc \in {"left", "right"} => f.node.op # "BINOP_ASS"
  /\ f.pc = "assigned" => f.node.op = "BINOP_ASS"

(* Each frame but the last one waits for the one above it. *)
Chain(frames) ==
  /\ \A k \in 1 .. Len(frames) : FrameOK(frames[k])
  /\ \A k \in 1 .. Len(frames) - 1 :
       frames[k].pc # "enter" /\ frames[k + 1].node \in Awaited(frames[k])
  /\ frames # << >> => frames[1].node \in Stmts(Node)

JumpsEnd(text) ==
  \A k \in 1 .. Len(text) - 1 : IsJump(text[k]) => IsLabel(text[k + 1])

EndsInJump(text) == text # << >> /\ IsJump(text[Len(text)])

(* The last line is a jump only while the news of it travels up: the result
   of codegen_stmt is true and whoever runs is about to look at it. *)
JumpIsKnown ==
  phase = "generating" /\ EndsInJump(sb) =>
    terminated /\ (stack # << >> => Top.pc \in StmtPCs)

IInv ==
  /\ TypeOK
  /\ Chain(stack)
  /\ JumpsEnd(sb)
  /\ JumpIsKnown
  /\ phase = "called" => stack = << >> /\ sb = << >>

-----------------------------------------------------------------------------
(***************************************************************************)
(* The children of a node, from NodeAssumption.                            *)
(***************************************************************************)
LEMMA Children ==
  ASSUME NEW n \in Node
  PROVE  /\ n.kind = "NKEx_LIT" /\ n.lit # "LK_ID" => n.str \in Nat
         /\ n.kind = "NKEx_UNAOP" => n.expr \in Exprs(Node)
         /\ n.kind = "NKEx_BINOP" =>
              /\ n.op \in BinopKind
              /\ n.left \in Exprs(Node)
              /\ n.right \in Exprs(Node)
              /\ n.op = "BINOP_ASS" => Var(n.left.str) \in Vars
         /\ n.kind \in {"NKSt_RETURN", "NKSt_EXPR"} => n.expr \in Exprs(Node)
         /\ n.kind = "NKSt_BLOCK" => n.list \in Seq(Stmts(Node))
         /\ n.kind = "NKSt_IF" =>
              /\ n.cond \in Exprs(Node)
              /\ n.block \in Stmts(Node)
              /\ n.ifnot # NULL => n.ifnot \in Stmts(Node)
         /\ n.kind = "NKSt_FOR" =>
              /\ n.init \in Exprs(Node)
              /\ n.cond \in Exprs(Node)
              /\ n.post \in Exprs(Node)
              /\ n.block \in Stmts(Node)
         /\ n.kind = "NKSt_FOR_WHILE" =>
              n.cond \in Exprs(Node) /\ n.block \in Stmts(Node)
<1>1. WellFormed(n, Node)
  BY NodeAssumption
<1>2. Blocks(Node) \subseteq Stmts(Node)
  BY DEF Blocks, Stmts, StmtKinds
<1>3. \A l \in Node : l.kind = "NKEx_LIT" /\ l.lit = "LK_ID" => Var(l.str) \in Vars
  BY DEF Vars
<1>4. n.kind = "NKEx_LIT" /\ n.lit # "LK_ID" => n.str \in Nat
  BY <1>1 DEF WellFormed
<1>5. n.kind = "NKEx_UNAOP" => n.expr \in Exprs(Node)
  BY <1>1 DEF WellFormed
<1>6. n.kind = "NKEx_BINOP" =>
        /\ n.op \in BinopKind
        /\ n.left \in Exprs(Node)
        /\ n.right \in Exprs(Node)
        /\ n.op = "BINOP_ASS" => Var(n.left.str) \in Vars
  BY <1>1, <1>3 DEF WellFormed, Exprs
<1>7. n.kind \in {"NKSt_RETURN", "NKSt_EXPR"} => n.expr \in Exprs(Node)
  BY <1>1 DEF WellFormed
<1>8. n.kind = "NKSt_BLOCK" => n.list \in Seq(Stmts(Node))
  BY <1>1 DEF WellFormed
<1>9. n.kind = "NKSt_IF" =>
        /\ n.cond \in Exprs(Node)
        /\ n.block \in Stmts(Node)
        /\ n.ifnot # NULL => n.ifnot \in Stmts(Node)
  BY <1>1, <1>2 DEF WellFormed
<1>10. n.kind = "NKSt_FOR" =>
        /\ n.init \in Exprs(Node)
        /\ n.cond \in Exprs(Node)
        /\ n.post \in Exprs(Node)
        /\ n.block \in Stmts(Node)
  BY <1>1, <1>2 DEF WellFormed
<1>11. n.kind = "NKSt_FOR_WHILE" =>
        n.cond \in Exprs(Node) /\ n.block \in Stmts(Node)
  BY <1>1, <1>2 DEF WellFormed
<1> QED
  BY <1>4, <1>5, <1>6, <1>7, <1>8, <1>9, <1>10, <1>11

-----------------------------------------------------------------------------
(***************************************************************************)
(* The types of the lines.                                                 *)
(***************************************************************************)
Arg == Temps \cup Vars \cup ({"imm"} \X Int)

LEMMA InsType ==
  ASSUME NEW op \in Opcodes, NEW def \in Temps \cup Vars \cup {None}
  PROVE  /\ \A a \in Arg : Ins(op, def, <<a>>) \in Line
         /\ \A a, b \in Arg : Ins(op, def, <<a, b>>) \in Line
BY DEF Ins, Line, Arg

LEMMA LabelType ==
  ASSUME NEW l \in LabelPrefixes \X Nat
  PROVE  /\ Label(l) \in Line
         /\ Jmp(l) \in Line
         /\ \A k \in LabelPrefixes \X Nat, a \in Arg : Jnz(a, l, k) \in Line
BY DEF Label, Jmp, Jnz, Line, Arg, Opcodes, None

LEMMA NameType ==
  ASSUME NEW n \in Nat
  PROVE  /\ \A p \in NumberedPrefixes : Reg(p, n) \in Temps
         /\ \A p \in {".ret", ".sexpr", ".init", ".post"} : Name(p) \in Temps
         /\ \A p \in LabelPrefixes : Reg(p, n) \in LabelPrefixes \X Nat
         /\ \A p \in LabelPrefixes : Name(p) \in LabelPrefixes \X Nat
BY DEF Reg, Name, Temps

(* A text that grows. *)
LEMMA JumpsEndConcat ==
  ASSUME NEW s \in Seq(Line), NEW t \in Seq(Line),
         JumpsEnd(s), JumpsEnd(t),
         EndsInJump(s) /\ t # << >> => IsLabel(t[1])
  PROVE  /\ JumpsEnd(s \o t)
         /\ EndsInJump(s \o t) <=> IF t = << >> THEN EndsInJump(s) ELSE EndsInJump(t)
<1> DEFINE u == s \o t
<1>1. /\ u \in Seq(Line)
      /\ Len(u) = Len(s) + Len(t)
      /\ \A k \in 1 .. Len(s) : u[k] = s[k]
      /\ \A k \in 1 .. Len(t) : u[Len(s) + k] = t[k]
      /\ Len(s) \in Nat /\ Len(t) \in Nat
      /\ s = << >> <=> Len(s) = 0
      /\ t = << >> <=> Len(t) = 0
      /\ u = << >> <=> Len(u) = 0
  BY ConcatType, EmptySeq, LenProperties
<1> HIDE DEF u
<1>2. JumpsEnd(u)
  <2> SUFFICES ASSUME NEW k \in 1 .. Len(u) - 1, IsJump(u[k])
               PROVE  IsLabel(u[k + 1])
    BY DEF JumpsEnd
  <2>1. CASE k < Len(s)
    <3>1. k \in 1 .. Len(s) - 1 /\ u[k] = s[k] /\ u[k + 1] = s[k + 1]
      BY <1>1, <2>1
    <3> QED
      BY <3>1 DEF JumpsEnd
  <2>2. CASE k = Len(s)
    BY <1>1, <2>2 DEF EndsInJump
  <2>3. CASE k > Len(s)
    <3> DEFINE j == k - Len(s)
    <3>1. /\ j \in 1 .. Len(t) - 1 /\ j + 1 \in 1 .. Len(t)
          /\ k = Len(s) + j /\ k + 1 = Len(s) + (j + 1)
      BY <1>1, <2>3
    <3> HIDE DEF j
    <3>2. u[k] = t[j] /\ u[k + 1] = t[j + 1]
      BY <1>1, <3>1
    <3> QED
      BY <3>1, <3>2 DEF JumpsEnd
  <2> QED
    BY <1>1, <2>1, <2>2, <2>3
<1>3. EndsInJump(u) <=> IF t = << >> THEN EndsInJump(s) ELSE EndsInJump(t)
  <2>1. CASE t = << >>
    BY <1>1, <2>1 DEF EndsInJump
  <2>2. CASE t # << >>
    <3>1. u[Len(u)] = t[Len(t)]
      BY <1>1, <2>2
    <3> QED
      BY <1>1, <2>2, <3>1 DEF EndsInJump
  <2> QED
    BY <2>1, <2>2
<1> QED
  BY <1>2, <1>3 DEF u

-----------------------------------------------------------------------------
(***************************************************************************)
(* What a step owes to the invariant.                                      *)
(***************************************************************************)

(* lines may be added to the text, and the last line is then no jump. *)
Extends(lines) ==
  /\ lines \in Seq(Line)
  /\ JumpsEnd(lines)
  /\ ~EndsInJump(lines)
  /\ EndsInJump(sb) => lines # << >> /\ IsLabel(lines[1])

(* A step that goes on as top and calls codegen_stmt or codegen_expr. *)
LEMMA CallStep ==
  ASSUME IInv, phase = "generating", stack # << >>,
         NEW top \in FrameType, FrameOK(top), top.pc # "enter",
         top.node = Top.node,
         NEW node \in Awaited(top), NEW var \in Temps \cup {None},
         NEW lines, Extends(lines),
         Call(top, node, var), BuilderAdd(lines), next_reg' \in Nat,
         UNCHANGED <<ast, phase, terminated>>
  PROVE  IInv'
<1> DEFINE new == Frame(node, var)
           N == Len(stack)
<1>1. node \in Node /\ new \in FrameType /\ FrameOK(new) /\ new.node = node
      /\ new.pc = "enter"
  BY DEF Awaited, Stmts, Exprs, Frame, FrameType, PCs, FrameOK
<1>2. /\ stack' \in Seq(FrameType)
      /\ N \in Nat \ {0}
      /\ Len(stack') = N + 1
      /\ stack'[N] = top
      /\ stack'[N + 1] = new
      /\ \A k \in 1 .. N - 1 : stack'[k] = stack[k]
  BY <1>1, CallStack, FrontType DEF IInv, TypeOK, Call
<1> HIDE DEF new, N
<1>3. sb' \in Seq(Line) /\ JumpsEnd(sb') /\ ~EndsInJump(sb')
  BY JumpsEndConcat, ConcatEmptySeq DEF IInv, TypeOK, Extends, BuilderAdd
<1>4. TypeOK'
  BY <1>2, <1>3 DEF IInv, TypeOK
<1>5. Chain(stack')
  <2>1. \A k \in 1 .. N + 1 : FrameOK(stack'[k])
    <3>1. \A k \in 1 .. N - 1 : FrameOK(stack[k])
      BY <1>2 DEF IInv, Chain, N
    <3> QED
      BY <1>1, <1>2, <3>1
  <2>2. Top = stack[N]
    BY DEF Top, Last, N
  <2>3. \A k \in 1 .. N :
          stack'[k].pc # "enter" /\ stack'[k + 1].node \in Awaited(stack'[k])
    <3> SUFFICES ASSUME NEW k \in 1 .. N
                 PROVE  /\ stack'[k].pc # "enter"
                        /\ stack'[k + 1].node \in Awaited(stack'[k])
      OBVIOUS
    <3>1. CASE k = N
      BY <1>1, <1>2, <3>1
    <3>2. CASE k < N
      <4>1. /\ stack[k].pc # "enter"
            /\ stack[k + 1].node \in Awaited(stack[k])
        BY <1>2, <3>2 DEF IInv, Chain, N
      <4>2. stack'[k] = stack[k] /\ stack'[k + 1].node = stack[k + 1].node
        BY <1>2, <2>2, <3>2
      <4> QED
        BY <4>1, <4>2
    <3> QED
      BY <1>2, <3>1, <3>2
  <2>4. stack'[1].node \in Stmts(Node)
    <3>1. stack[1].node \in Stmts(Node)
      BY DEF IInv, Chain
    <3> QED
      BY <1>2, <2>2, <3>1
  <2>5. Len(stack') = N + 1 /\ Len(stack') - 1 = N
    BY <1>2
  <2> QED
    BY <2>1, <2>3, <2>4, <2>5 DEF Chain
<1>6. JumpIsKnown'
  BY <1>3 DEF JumpIsKnown
<1> QED
  BY <1>3, <1>4, <1>5, <1>6 DEF IInv

(* A step in which the running function returns. *)
LEMMA LeaveStep ==
  ASSUME IInv, phase = "generating", stack # << >>,
         NEW lines \in Seq(Line), JumpsEnd(lines),
         EndsInJump(sb) /\ lines # << >> => IsLabel(lines[1]),
         EndsInJump(sb \o lines) => terminated' /\ Top.node \in Stmts(Node),
         stack' = Front(stack), BuilderAdd(lines),
         next_reg' \in Nat, terminated' \in BOOLEAN,
         UNCHANGED <<ast, phase>>
  PROVE  IInv'
<1> DEFINE N == Len(stack)
<1>1. /\ stack' \in Seq(FrameType)
      /\ N \in Nat \ {0}
      /\ Len(stack') = N - 1
      /\ \A k \in 1 .. N - 1 : stack'[k] = stack[k]
      /\ stack' # << >> => N > 1
  <2>1. stack \in Seq(FrameType)
    BY DEF IInv, TypeOK
  <2>2. /\ stack' \in Seq(FrameType)
        /\ N \in Nat \ {0}
        /\ Len(stack') = N - 1
        /\ \A k \in 1 .. N - 1 : stack'[k] = stack[k]
    BY <2>1, FrontType
  <2>3. stack' # << >> => Len(stack') \in Nat \ {0}
    BY <2>2, EmptySeq
  <2> QED
    BY <2>2, <2>3
<1> HIDE DEF N
<1>2. sb' \in Seq(Line) /\ JumpsEnd(sb') /\ sb' = sb \o lines
  BY JumpsEndConcat, ConcatType DEF IInv, TypeOK, BuilderAdd
<1>3. TypeOK'
  BY <1>1, <1>2 DEF IInv, TypeOK
<1>4. /\ \A k \in 1 .. N : FrameOK(stack[k])
      /\ \A k \in 1 .. N - 1 :
           stack[k].pc # "enter" /\ stack[k + 1].node \in Awaited(stack[k])
      /\ stack[1].node \in Stmts(Node)
  BY DEF IInv, Chain, N
<1>5. Chain(stack')
  <2>1. \A k \in 1 .. N - 1 : FrameOK(stack'[k])
    BY <1>1, <1>4
  <2>2. \A k \in 1 .. N - 1 - 1 :
          stack'[k].pc # "enter" /\ stack'[k + 1].node \in Awaited(stack'[k])
    <3> SUFFICES ASSUME NEW k \in 1 .. N - 1 - 1
                 PROVE  /\ stack'[k].pc # "enter"
                        /\ stack'[k + 1].node \in Awaited(stack'[k])
      OBVIOUS
    <3>1. stack'[k] = stack[k] /\ stack'[k + 1] = stack[k + 1]
      BY <1>1
    <3>2. k \in 1 .. N - 1
      BY <1>1
    <3> QED
      BY <1>4, <3>1, <3>2
  <2>3. stack' # << >> => stack'[1].node \in Stmts(Node)
    BY <1>1, <1>4
  <2> QED
    BY <1>1, <2>1, <2>2, <2>3 DEF Chain
<1>6. JumpIsKnown'
  <2> SUFFICES ASSUME EndsInJump(sb')
               PROVE  terminated' /\ (stack' # << >> => Last(stack').pc \in StmtPCs)
    BY DEF JumpIsKnown, Top
  <2>1. terminated' /\ Top.node \in Stmts(Node)
    BY <1>2
  <2>2. ASSUME stack' # << >>
        PROVE  Last(stack').pc \in StmtPCs
    <3>1. Last(stack') = stack[N - 1] /\ Top = stack[N] /\ N - 1 \in 1 .. N - 1
      BY <1>1, <2>2 DEF Last, Top, N
    <3>2. stack[N].node \in Awaited(stack[N - 1])
      BY <1>1, <1>4, <3>1
    <3> QED
      BY <2>1, <3>1, <3>2 DEF Awaited, Stmts, Exprs, StmtKinds, ExprKinds
  <2> QED
    BY <2>1, <2>2
<1> QED
  BY <1>2, <1>3, <1>5, <1>6 DEF IInv

-----------------------------------------------------------------------------
(***************************************************************************)
(* Short texts.                                                            *)
(***************************************************************************)
LEMMA LineKinds ==
  /\ \A l : /\ IsJump(Jmp(l)) /\ ~IsLabel(Jmp(l))
           /\ IsLabel(Label(l)) /\ ~IsJump(Label(l))
  /\ \A a, l, k : IsJump(Jnz(a, l, k)) /\ ~IsLabel(Jnz(a, l, k))
  /\ \A op, d, a : op \notin {"label", "jmp", "jnz", "ret"} =>
       ~IsJump(Ins(op, d, a)) /\ ~IsLabel(Ins(op, d, a))
  /\ \A a : IsJump(Ret(a)) /\ ~IsLabel(Ret(a))
BY DEF Jmp, Jnz, Label, Ins, Ret, IsJump, IsLabel

LEMMA NoLines == JumpsEnd(<< >>) /\ ~EndsInJump(<< >>) /\ << >> \in Seq(Line)
BY DEF JumpsEnd, EndsInJump

LEMMA OneLine ==
  ASSUME NEW a \in Line
  PROVE  /\ <<a>> \in Seq(Line)
         /\ JumpsEnd(<<a>>)
         /\ EndsInJump(<<a>>) <=> IsJump(a)
         /\ <<a>> # << >> /\ <<a>>[1] = a
BY DEF JumpsEnd, EndsInJump

LEMMA TwoLines ==
  ASSUME NEW a \in Line, NEW b \in Line, IsJump(a) => IsLabel(b)
  PROVE  /\ <<a, b>> \in Seq(Line)
         /\ JumpsEnd(<<a, b>>)
         /\ EndsInJump(<<a, b>>) <=> IsJump(b)
         /\ <<a, b>> # << >> /\ <<a, b>>[1] = a
BY DEF JumpsEnd, EndsInJump

LEMMA ThreeLines ==
  ASSUME NEW a \in Line, NEW b \in Line, NEW c \in Line,
         ~IsJump(a), ~IsJump(b), ~IsJump(c)
  PROVE  /\ <<a, b, c>> \in Seq(Line)
         /\ JumpsEnd(<<a, b, c>>)
         /\ ~EndsInJump(<<a, b, c>>)
         /\ <<a, b, c>> # << >>
BY DEF JumpsEnd, EndsInJump

(* The end of a branch: a jump unless the last statement was a return, then
   a label. *)
LEMMA BranchEnd ==
  ASSUME NEW l \in LabelPrefixes \X Nat, NEW k \in LabelPrefixes \X Nat,
         terminated \in BOOLEAN
  PROVE  LET lines == JmpUnlessTerminated(l) \o <<Label(k)>>
         IN  /\ lines = IF terminated THEN <<Label(k)>> ELSE <<Jmp(l), Label(k)>>
             /\ lines \in Seq(Line)
             /\ JumpsEnd(lines)
             /\ ~EndsInJump(lines)
             /\ lines # << >>
             /\ terminated => IsLabel(lines[1])
<1> DEFINE lines == JmpUnlessTerminated(l) \o <<Label(k)>>
<1>1. Label(k) \in Line /\ Jmp(l) \in Line
  BY LabelType
<1>2. CASE terminated
  <2>1. lines = <<Label(k)>>
    BY <1>1, <1>2 DEF JmpUnlessTerminated
  <2> QED
    BY <1>1, <1>2, <2>1, OneLine, LineKinds
<1>3. CASE ~terminated
  <2>1. lines = <<Jmp(l), Label(k)>>
    BY <1>1, <1>3, ConcatTuples DEF JmpUnlessTerminated
  <2> QED
    BY <1>1, <1>3, <2>1, TwoLines, LineKinds, ZenonT(40)
<1> QED
  BY <1>2, <1>3

-----------------------------------------------------------------------------
(***************************************************************************)
(* The frame that runs.                                                    *)
(***************************************************************************)
LEMMA TopType ==
  ASSUME IInv, stack # << >>
  PROVE  /\ Top \in FrameType
         /\ Top.node \in Node /\ Top.var \in Temps \cup {None}
         /\ Top.i \in Nat /\ Top.n \in Nat /\ Top.m \in Nat
         /\ FrameOK(Top)
<1>1. Top = stack[Len(stack)] /\ Top \in FrameType /\ Len(stack) \in 1 .. Len(stack)
  BY FrontType DEF IInv, TypeOK, Top
<1>2. FrameOK(Top)
  BY <1>1 DEF IInv, Chain
<1> QED
  BY <1>1, <1>2 DEF FrameType

LEMMA NoJumpBefore ==
  ASSUME IInv, phase = "generating", stack # << >>,
         Top.pc \notin StmtPCs \/ ~terminated
  PROVE  ~EndsInJump(sb)
BY DEF IInv, JumpIsKnown

-----------------------------------------------------------------------------
(***************************************************************************)
(* Every action preserves the invariant.  First the actions that call.     *)
(***************************************************************************)

LEMMA BlockNextStep == IInv /\ BlockNext => IInv'
<1> SUFFICES ASSUME IInv, BlockNext PROVE IInv'
  OBVIOUS
<1> DEFINE top == [Top EXCEPT !.pc = "list", !.i = @ + 1]
           lines == << >>
<1>1. phase = "generating" /\ stack # << >>
  BY DEF BlockNext, At
<1>2. next_reg \in Nat /\ terminated \in BOOLEAN
  BY DEF IInv, TypeOK
<1>3. top \in FrameType /\ FrameOK(top) /\ top.pc # "enter" /\ top.node = Top.node
  <2> DEFINE f == [Top EXCEPT !.pc = "list"]
  <2>1. f \in FrameType /\ f.pc = "list" /\ f.node = Top.node /\ f.i \in Nat
    BY <1>1, TopType DEF FrameType, PCs
  <2> HIDE DEF f
  <2>2. LET g == [f EXCEPT !.i = @ + 1]
        IN  g \in FrameType /\ g.pc = "list" /\ g.node = f.node
    BY <2>1 DEF FrameType
  <2> QED
    BY <2>1, <2>2 DEF f, FrameOK
<1>4. Top.node.list[Top.i + 1] \in Awaited(top)
  BY <1>1, <1>3, TopType, Children DEF BlockNext, At, Awaited, StmtPCs
<1>5. None \in Temps \cup {None}
  BY <1>2, NameType DEF NumberedPrefixes
<1>6. Extends(lines)
  BY <1>1, NoLines, NoJumpBefore DEF BlockNext, BlockGoesOn, At, Extends, StmtPCs
<1> HIDE DEF top, lines
<1>7. Call(top, Top.node.list[Top.i + 1], None)
  BY DEF BlockNext, top
<1>8. BuilderAdd(lines) /\ next_reg' \in Nat /\ UNCHANGED <<ast, phase, terminated>>
  BY <1>2, ConcatEmptySeq DEF BlockNext, BuilderAdd, lines, Draw, IInv, TypeOK
<1> QED
  BY <1>1, <1>3, <1>4, <1>5, <1>6, <1>7, <1>8, CallStep

LEMMA ReturnValueStep == IInv /\ ReturnValue => IInv'
<1> SUFFICES ASSUME IInv, ReturnValue PROVE IInv'
  OBVIOUS
<1> DEFINE top == [Top EXCEPT !.pc = "value", !.n = next_reg]
           lines == << >>
<1>1. phase = "generating" /\ stack # << >>
  BY DEF ReturnValue, At
<1>2. next_reg \in Nat /\ terminated \in BOOLEAN
  BY DEF IInv, TypeOK
<1>3. top \in FrameType /\ FrameOK(top) /\ top.pc # "enter" /\ top.node = Top.node
  BY <1>1, <1>2, TopType DEF ReturnValue, At, FrameType, PCs, FrameOK
<1>4. Top.node.expr \in Awaited(top)
  BY <1>1, <1>3, TopType, Children DEF ReturnValue, At, Awaited, StmtPCs
<1>5. Reg(".tmp", next_reg) \in Temps \cup {None}
  BY <1>2, NameType DEF NumberedPrefixes
<1>6. Extends(lines)
  BY <1>1, NoLines, NoJumpBefore DEF ReturnValue, At, Extends, StmtPCs
<1> HIDE DEF top, lines
<1>7. Call(top, Top.node.expr, Reg(".tmp", next_reg))
  BY DEF ReturnValue, top
<1>8. BuilderAdd(lines) /\ next_reg' \in Nat /\ UNCHANGED <<ast, phase, terminated>>
  BY <1>2, ConcatEmptySeq DEF ReturnValue, BuilderAdd, lines, Draw, IInv, TypeOK
<1> QED
  BY <1>1, <1>3, <1>4, <1>5, <1>6, <1>7, <1>8, CallStep

LEMMA StmtExprValueStep == IInv /\ StmtExprValue => IInv'
<1> SUFFICES ASSUME IInv, StmtExprValue PROVE IInv'
  OBVIOUS
<1> DEFINE top == [Top EXCEPT !.pc = "value"]
           lines == << >>
<1>1. phase = "generating" /\ stack # << >>
  BY DEF StmtExprValue, At
<1>2. next_reg \in Nat /\ terminated \in BOOLEAN
  BY DEF IInv, TypeOK
<1>3. top \in FrameType /\ FrameOK(top) /\ top.pc # "enter" /\ top.node = Top.node
  BY <1>1, <1>2, TopType DEF StmtExprValue, At, FrameType, PCs, FrameOK
<1>4. Top.node.expr \in Awaited(top)
  BY <1>1, <1>3, TopType, Children DEF StmtExprValue, At, Awaited, StmtPCs
<1>5. Name(".sexpr") \in Temps \cup {None}
  BY <1>2, NameType DEF NumberedPrefixes
<1>6. Extends(lines)
  BY <1>1, NoLines, NoJumpBefore DEF StmtExprValue, At, Extends, StmtPCs
<1> HIDE DEF top, lines
<1>7. Call(top, Top.node.expr, Name(".sexpr"))
  BY DEF StmtExprValue, top
<1>8. BuilderAdd(lines) /\ next_reg' \in Nat /\ UNCHANGED <<ast, phase, terminated>>
  BY <1>2, ConcatEmptySeq DEF StmtExprValue, BuilderAdd, lines, Draw, IInv, TypeOK
<1> QED
  BY <1>1, <1>3, <1>4, <1>5, <1>6, <1>7, <1>8, CallStep

LEMMA IfCondStep == IInv /\ IfCond => IInv'
<1> SUFFICES ASSUME IInv, IfCond PROVE IInv'
  OBVIOUS
<1> DEFINE top == [Top EXCEPT !.pc = "cond", !.m = next_reg]
           lines == << >>
<1>1. phase = "generating" /\ stack # << >>
  BY DEF IfCond, At
<1>2. next_reg \in Nat /\ terminated \in BOOLEAN
  BY DEF IInv, TypeOK
<1>3. top \in FrameType /\ FrameOK(top) /\ top.pc # "enter" /\ top.node = Top.node
  BY <1>1, <1>2, TopType DEF IfCond, At, FrameType, PCs, FrameOK
<1>4. Top.node.cond \in Awaited(top)
  BY <1>1, <1>3, TopType, Children DEF IfCond, At, Awaited, StmtPCs
<1>5. Reg(".cond", next_reg) \in Temps \cup {None}
  BY <1>2, NameType DEF NumberedPrefixes
<1>6. Extends(lines)
  BY <1>1, NoLines, NoJumpBefore DEF IfCond, At, Extends, StmtPCs
<1> HIDE DEF top, lines
<1>7. Call(top, Top.node.cond, Reg(".cond", next_reg))
  BY DEF IfCond, top
<1>8. BuilderAdd(lines) /\ next_reg' \in Nat /\ UNCHANGED <<ast, phase, terminated>>
  BY <1>2, ConcatEmptySeq DEF IfCond, BuilderAdd, lines, Draw, IInv, TypeOK
<1> QED
  BY <1>1, <1>3, <1>4, <1>5, <1>6, <1>7, <1>8, CallStep

LEMMA IfThenStep == IInv /\ IfThen => IInv'
<1> SUFFICES ASSUME IInv, IfThen PROVE IInv'
  OBVIOUS
<1> DEFINE top == [Top EXCEPT !.pc = "then", !.n = next_reg]
           lines == <<Jnz(Reg(".cond", Top.m), Reg("@.if", next_reg), Reg("@.else", next_reg)),
                      Label(Reg("@.if", next_reg))>>
<1>1. phase = "generating" /\ stack # << >>
  BY DEF IfThen, At
<1>2. next_reg \in Nat /\ terminated \in BOOLEAN
  BY DEF IInv, TypeOK
<1>3. top \in FrameType /\ FrameOK(top) /\ top.pc # "enter" /\ top.node = Top.node
  BY <1>1, <1>2, TopType DEF IfThen, At, FrameType, PCs, FrameOK
<1>4. Top.node.block \in Awaited(top)
  BY <1>1, <1>3, TopType, Children DEF IfThen, At, Awaited, StmtPCs
<1>5. None \in Temps \cup {None}
  BY <1>2, NameType DEF NumberedPrefixes
<1>6. Extends(lines)
  <2>1. /\ Reg("@.if", next_reg) \in LabelPrefixes \X Nat
        /\ Reg("@.else", next_reg) \in LabelPrefixes \X Nat
        /\ Reg(".cond", Top.m) \in Arg
    BY <1>1, <1>2, TopType, NameType DEF LabelPrefixes, NumberedPrefixes, Arg
  <2>2. /\ Jnz(Reg(".cond", Top.m), Reg("@.if", next_reg), Reg("@.else", next_reg)) \in Line
        /\ Label(Reg("@.if", next_reg)) \in Line
    BY <2>1, LabelType
  <2>3. ~EndsInJump(sb)
    BY <1>1, NoJumpBefore DEF IfThen, At, StmtPCs
  <2> QED
    BY <2>2, <2>3, TwoLines, LineKinds DEF Extends
<1> HIDE DEF top, lines
<1>7. Call(top, Top.node.block, None)
  BY DEF IfThen, top
<1>8. BuilderAdd(lines) /\ next_reg' \in Nat /\ UNCHANGED <<ast, phase, terminated>>
  BY <1>2, ConcatEmptySeq DEF IfThen, BuilderAdd, lines, Draw, IInv, TypeOK
<1> QED
  BY <1>1, <1>3, <1>4, <1>5, <1>6, <1>7, <1>8, CallStep

LEMMA IfElseStep == IInv /\ IfElse => IInv'
<1> SUFFICES ASSUME IInv, IfElse PROVE IInv'
  OBVIOUS
<1> DEFINE top == [Top EXCEPT !.pc = "else"]
           lines == JmpUnlessTerminated(Reg("@.endif", Top.n))
                      \o <<Label(Reg("@.else", Top.n))>>
<1>1. phase = "generating" /\ stack # << >>
  BY DEF IfElse, At
<1>2. next_reg \in Nat /\ terminated \in BOOLEAN
  BY DEF IInv, TypeOK
<1>3. top \in FrameType /\ FrameOK(top) /\ top.pc # "enter" /\ top.node = Top.node
  BY <1>1, <1>2, TopType DEF IfElse, At, FrameType, PCs, FrameOK
<1>4. Top.node.ifnot \in Awaited(top)
  BY <1>1, <1>3, TopType, Children DEF IfElse, At, Awaited, StmtPCs
<1>5. None \in Temps \cup {None}
  BY <1>2, NameType DEF NumberedPrefixes
<1>6. Extends(lines)
  <2>1. /\ Reg("@.endif", Top.n) \in LabelPrefixes \X Nat
        /\ Reg("@.else", Top.n) \in LabelPrefixes \X Nat
    BY <1>1, TopType, NameType DEF LabelPrefixes
  <2>2. EndsInJump(sb) => terminated
    BY <1>1, NoJumpBefore
  <2> QED
    BY <1>2, <2>1, <2>2, BranchEnd DEF Extends
<1> HIDE DEF top, lines
<1>7. Call(top, Top.node.ifnot, None)
  BY DEF IfElse, top
<1>8. BuilderAdd(lines) /\ next_reg' \in Nat /\ UNCHANGED <<ast, phase, terminated>>
  BY <1>2, ConcatEmptySeq DEF IfElse, BuilderAdd, lines, Draw, IInv, TypeOK
<1> QED
  BY <1>1, <1>3, <1>4, <1>5, <1>6, <1>7, <1>8, CallStep

LEMMA ForInitStep == IInv /\ ForInit => IInv'
<1> SUFFICES ASSUME IInv, ForInit PROVE IInv'
  OBVIOUS
<1> DEFINE top == [Top EXCEPT !.pc = "init", !.n = next_reg]
           lines == <<Label(Reg("@.init", next_reg))>>
<1>1. phase = "generating" /\ stack # << >>
  BY DEF ForInit, At
<1>2. next_reg \in Nat /\ terminated \in BOOLEAN
  BY DEF IInv, TypeOK
<1>3. top \in FrameType /\ FrameOK(top) /\ top.pc # "enter" /\ top.node = Top.node
  BY <1>1, <1>2, TopType DEF ForInit, At, FrameType, PCs, FrameOK
<1>4. Top.node.init \in Awaited(top)
  BY <1>1, <1>3, TopType, Children DEF ForInit, At, Awaited, StmtPCs
<1>5. Name(".init") \in Temps \cup {None}
  BY <1>2, NameType DEF NumberedPrefixes
<1>6. Extends(lines)
  <2>1. Reg("@.init", next_reg) \in LabelPrefixes \X Nat
    BY <1>1, <1>2, TopType, NameType DEF LabelPrefixes
  <2>2. Label(Reg("@.init", next_reg)) \in Line
    BY <2>1, LabelType
  <2> QED
    BY <2>2, OneLine, LineKinds DEF Extends
<1> HIDE DEF top, lines
<1>7. Call(top, Top.node.init, Name(".init"))
  BY DEF ForInit, top
<1>8. BuilderAdd(lines) /\ next_reg' \in Nat /\ UNCHANGED <<ast, phase, terminated>>
  BY <1>2, ConcatEmptySeq DEF ForInit, BuilderAdd, lines, Draw, IInv, TypeOK
<1> QED
  BY <1>1, <1>3, <1>4, <1>5, <1>6, <1>7, <1>8, CallStep

LEMMA ForCheckStep == IInv /\ ForCheck => IInv'
<1> SUFFICES ASSUME IInv, ForCheck PROVE IInv'
  OBVIOUS
<1> DEFINE top == [Top EXCEPT !.pc = "cond", !.m = next_reg]
           lines == <<Label(Reg("@.check", Top.n))>>
<1>1. phase = "generating" /\ stack # << >>
  BY DEF ForCheck, At
<1>2. next_reg \in Nat /\ terminated \in BOOLEAN
  BY DEF IInv, TypeOK
<1>3. top \in FrameType /\ FrameOK(top) /\ top.pc # "enter" /\ top.node = Top.node
  BY <1>1, <1>2, TopType DEF ForCheck, At, FrameType, PCs, FrameOK
<1>4. Top.node.cond \in Awaited(top)
  BY <1>1, <1>3, TopType, Children DEF ForCheck, At, Awaited, StmtPCs
<1>5. Reg(".cond", next_reg) \in Temps \cup {None}
  BY <1>2, NameType DEF NumberedPrefixes
<1>6. Extends(lines)
  <2>1. Reg("@.check", Top.n) \in LabelPrefixes \X Nat
    BY <1>1, <1>2, TopType, NameType DEF LabelPrefixes
  <2>2. Label(Reg("@.check", Top.n)) \in Line
    BY <2>1, LabelType
  <2> QED
    BY <2>2, OneLine, LineKinds DEF Extends
<1> HIDE DEF top, lines
<1>7. Call(top, Top.node.cond, Reg(".cond", next_reg))
  BY DEF ForCheck, top
<1>8. BuilderAdd(lines) /\ next_reg' \in Nat /\ UNCHANGED <<ast, phase, terminated>>
  BY <1>2, ConcatEmptySeq DEF ForCheck, BuilderAdd, lines, Draw, IInv, TypeOK
<1> QED
  BY <1>1, <1>3, <1>4, <1>5, <1>6, <1>7, <1>8, CallStep

LEMMA ForBodyStep == IInv /\ ForBody => IInv'
<1> SUFFICES ASSUME IInv, ForBody PROVE IInv'
  OBVIOUS
<1> DEFINE top == [Top EXCEPT !.pc = "body"]
           lines == <<Jnz(Reg(".cond", Top.m), Reg("@.loop", Top.n), Reg("@.endloop", Top.n)),
                      Label(Reg("@.loop", Top.n))>>
<1>1. phase = "generating" /\ stack # << >>
  BY DEF ForBody, At, LoopBody
<1>2. next_reg \in Nat /\ terminated \in BOOLEAN
  BY DEF IInv, TypeOK
<1>3. top \in FrameType /\ FrameOK(top) /\ top.pc # "enter" /\ top.node = Top.node
  BY <1>1, <1>2, TopType DEF ForBody, At, FrameType, PCs, FrameOK, LoopBody
<1>4. Top.node.block \in Awaited(top)
  BY <1>1, <1>3, TopType, Children DEF ForBody, At, Awaited, StmtPCs, LoopBody
<1>5. None \in Temps \cup {None}
  BY <1>2, NameType DEF NumberedPrefixes
<1>6. Extends(lines)
  <2>1. /\ Reg("@.loop", Top.n) \in LabelPrefixes \X Nat
        /\ Reg("@.endloop", Top.n) \in LabelPrefixes \X Nat
        /\ Reg(".cond", Top.m) \in Arg
    BY <1>1, <1>2, TopType, NameType DEF LabelPrefixes, NumberedPrefixes, Arg
  <2>2. /\ Jnz(Reg(".cond", Top.m), Reg("@.loop", Top.n), Reg("@.endloop", Top.n)) \in Line
        /\ Label(Reg("@.loop", Top.n)) \in Line
    BY <2>1, LabelType
  <2>3. ~EndsInJump(sb)
    BY <1>1, NoJumpBefore DEF ForBody, At, StmtPCs, LoopBody
  <2> QED
    BY <2>2, <2>3, TwoLines, LineKinds DEF Extends
<1> HIDE DEF top, lines
<1>7. Call(top, Top.node.block, None)
  BY DEF ForBody, top, LoopBody
<1>8. BuilderAdd(lines) /\ next_reg' \in Nat /\ UNCHANGED <<ast, phase, terminated>>
  BY <1>2, ConcatEmptySeq DEF ForBody, BuilderAdd, lines, Draw, IInv, TypeOK, LoopBody
<1> QED
  BY <1>1, <1>3, <1>4, <1>5, <1>6, <1>7, <1>8, CallStep

LEMMA WhileBodyStep == IInv /\ WhileBody => IInv'
<1> SUFFICES ASSUME IInv, WhileBody PROVE IInv'
  OBVIOUS
<1> DEFINE top == [Top EXCEPT !.pc = "body"]
           lines == <<Jnz(Reg(".cond", Top.m), Reg("@.loop", Top.n), Reg("@.endloop", Top.n)),
                      Label(Reg("@.loop", Top.n))>>
<1>1. phase = "generating" /\ stack # << >>
  BY DEF WhileBody, At, LoopBody
<1>2. next_reg \in Nat /\ terminated \in BOOLEAN
  BY DEF IInv, TypeOK
<1>3. top \in FrameType /\ FrameOK(top) /\ top.pc # "enter" /\ top.node = Top.node
  BY <1>1, <1>2, TopType DEF WhileBody, At, FrameType, PCs, FrameOK, LoopBody
<1>4. Top.node.block \in Awaited(top)
  BY <1>1, <1>3, TopType, Children DEF WhileBody, At, Awaited, StmtPCs, LoopBody
<1>5. None \in Temps \cup {None}
  BY <1>2, NameType DEF NumberedPrefixes
<1>6. Extends(lines)
  <2>1. /\ Reg("@.loop", Top.n) \in LabelPrefixes \X Nat
        /\ Reg("@.endloop", Top.n) \in LabelPrefixes \X Nat
        /\ Reg(".cond", Top.m) \in Arg
    BY <1>1, <1>2, TopType, NameType DEF LabelPrefixes, NumberedPrefixes, Arg
  <2>2. /\ Jnz(Reg(".cond", Top.m), Reg("@.loop", Top.n), Reg("@.endloop", Top.n)) \in Line
        /\ Label(Reg("@.loop", Top.n)) \in Line
    BY <2>1, LabelType
  <2>3. ~EndsInJump(sb)
    BY <1>1, NoJumpBefore DEF WhileBody, At, StmtPCs, LoopBody
  <2> QED
    BY <2>2, <2>3, TwoLines, LineKinds DEF Extends
<1> HIDE DEF top, lines
<1>7. Call(top, Top.node.block, None)
  BY DEF WhileBody, top, LoopBody
<1>8. BuilderAdd(lines) /\ next_reg' \in Nat /\ UNCHANGED <<ast, phase, terminated>>
  BY <1>2, ConcatEmptySeq DEF WhileBody, BuilderAdd, lines, Draw, IInv, TypeOK, LoopBody
<1> QED
  BY <1>1, <1>3, <1>4, <1>5, <1>6, <1>7, <1>8, CallStep

LEMMA ForPostStep == IInv /\ ForPost => IInv'
<1> SUFFICES ASSUME IInv, ForPost PROVE IInv'
  OBVIOUS
<1> DEFINE top == [Top EXCEPT !.pc = "post"]
           lines == << >>
<1>1. phase = "generating" /\ stack # << >>
  BY DEF ForPost, At
<1>2. next_reg \in Nat /\ terminated \in BOOLEAN
  BY DEF IInv, TypeOK
<1>3. top \in FrameType /\ FrameOK(top) /\ top.pc # "enter" /\ top.node = Top.node
  BY <1>1, <1>2, TopType DEF ForPost, At, FrameType, PCs, FrameOK
<1>4. Top.node.post \in Awaited(top)
  BY <1>1, <1>3, TopType, Children DEF ForPost, At, Awaited, StmtPCs
<1>5. Name(".post") \in Temps \cup {None}
  BY <1>2, NameType DEF NumberedPrefixes
<1>6. Extends(lines)
  BY <1>1, NoLines, NoJumpBefore DEF ForPost, At, Extends, StmtPCs
<1> HIDE DEF top, lines
<1>7. Call(top, Top.node.post, Name(".post"))
  BY DEF ForPost, top
<1>8. BuilderAdd(lines) /\ next_reg' \in Nat /\ UNCHANGED <<ast, phase, terminated>>
  BY <1>2, ConcatEmptySeq DEF ForPost, BuilderAdd, lines, Draw, IInv, TypeOK
<1> QED
  BY <1>1, <1>3, <1>4, <1>5, <1>6, <1>7, <1>8, CallStep

LEMMA WhileCheckStep == IInv /\ WhileCheck => IInv'
<1> SUFFICES ASSUME IInv, WhileCheck PROVE IInv'
  OBVIOUS
<1> DEFINE top == [Top EXCEPT !.pc = "cond", !.n = next_reg, !.m = next_reg + 1]
           lines == <<Label(Reg("@.check", next_reg))>>
<1>1. phase = "generating" /\ stack # << >>
  BY DEF WhileCheck, At
<1>2. next_reg \in Nat /\ terminated \in BOOLEAN
  BY DEF IInv, TypeOK
<1>3. top \in FrameType /\ FrameOK(top) /\ top.pc # "enter" /\ top.node = Top.node
  <2> DEFINE f == [Top EXCEPT !.pc = "cond"]
  <2>1. f \in FrameType /\ f.pc = "cond" /\ f.node = Top.node
    BY <1>1, TopType DEF FrameType, PCs
  <2> HIDE DEF f
  <2> DEFINE g == [f EXCEPT !.n = next_reg]
  <2>2. g \in FrameType /\ g.pc = "cond" /\ g.node = f.node
    BY <1>2, <2>1 DEF FrameType
  <2> HIDE DEF g
  <2>3. LET h == [g EXCEPT !.m = next_reg + 1]
        IN  h \in FrameType /\ h.pc = "cond" /\ h.node = g.node
    BY <1>2, <2>2 DEF FrameType
  <2> QED
    BY <2>1, <2>2, <2>3 DEF f, g, FrameOK
<1>4. Top.node.cond \in Awaited(top)
  BY <1>1, <1>3, TopType, Children DEF WhileCheck, At, Awaited, StmtPCs
<1>5. Reg(".cond", next_reg + 1) \in Temps \cup {None}
  BY <1>2, NameType DEF NumberedPrefixes
<1>6. Extends(lines)
  <2>1. Reg("@.check", next_reg) \in LabelPrefixes \X Nat
    BY <1>1, <1>2, TopType, NameType DEF LabelPrefixes
  <2>2. Label(Reg("@.check", next_reg)) \in Line
    BY <2>1, LabelType
  <2> QED
    BY <2>2, OneLine, LineKinds DEF Extends
<1> HIDE DEF top, lines
<1>7. Call(top, Top.node.cond, Reg(".cond", next_reg + 1))
  BY DEF WhileCheck, top
<1>8. BuilderAdd(lines) /\ next_reg' \in Nat /\ UNCHANGED <<ast, phase, terminated>>
  BY <1>2, ConcatEmptySeq DEF WhileCheck, BuilderAdd, lines, Draw, IInv, TypeOK
<1> QED
  BY <1>1, <1>3, <1>4, <1>5, <1>6, <1>7, <1>8, CallStep

LEMMA UnaopOperandStep == IInv /\ UnaopOperand => IInv'
<1> SUFFICES ASSUME IInv, UnaopOperand PROVE IInv'
  OBVIOUS
<1> DEFINE top == [Top EXCEPT !.pc = "operand", !.n = next_reg]
           lines == << >>
<1>1. phase = "generating" /\ stack # << >>
  BY DEF UnaopOperand, At
<1>2. next_reg \in Nat /\ terminated \in BOOLEAN
  BY DEF IInv, TypeOK
<1>3. top \in FrameType /\ FrameOK(top) /\ top.pc # "enter" /\ top.node = Top.node
  BY <1>1, <1>2, TopType DEF UnaopOperand, At, FrameType, PCs, FrameOK
<1>4. Top.node.expr \in Awaited(top)
  BY <1>1, <1>3, TopType, Children DEF UnaopOperand, At, Awaited, StmtPCs
<1>5. Reg(".tmp.una", next_reg) \in Temps \cup {None}
  BY <1>2, NameType DEF NumberedPrefixes
<1>6. Extends(lines)
  BY <1>1, NoLines, NoJumpBefore DEF UnaopOperand, At, Extends, StmtPCs
<1> HIDE DEF top, lines
<1>7. Call(top, Top.node.expr, Reg(".tmp.una", next_reg))
  BY DEF UnaopOperand, top
<1>8. BuilderAdd(lines) /\ next_reg' \in Nat /\ UNCHANGED <<ast, phase, terminated>>
  BY <1>2, ConcatEmptySeq DEF UnaopOperand, BuilderAdd, lines, Draw, IInv, TypeOK
<1> QED
  BY <1>1, <1>3, <1>4, <1>5, <1>6, <1>7, <1>8, CallStep

LEMMA AssRightStep == IInv /\ AssRight => IInv'
<1> SUFFICES ASSUME IInv, AssRight PROVE IInv'
  OBVIOUS
<1> DEFINE top == [Top EXCEPT !.pc = "assigned", !.n = next_reg]
           lines == << >>
<1>1. phase = "generating" /\ stack # << >>
  BY DEF AssRight, At
<1>2. next_reg \in Nat /\ terminated \in BOOLEAN
  BY DEF IInv, TypeOK
<1>3. top \in FrameType /\ FrameOK(top) /\ top.pc # "enter" /\ top.node = Top.node
  BY <1>1, <1>2, TopType DEF AssRight, At, FrameType, PCs, FrameOK
<1>4. Top.node.right \in Awaited(top)
  BY <1>1, <1>3, TopType, Children DEF AssRight, At, Awaited, StmtPCs
<1>5. Reg(".tmp.ass", next_reg) \in Temps \cup {None}
  BY <1>2, NameType DEF NumberedPrefixes
<1>6. Extends(lines)
  BY <1>1, NoLines, NoJumpBefore DEF AssRight, At, Extends, StmtPCs
<1> HIDE DEF top, lines
<1>7. Call(top, Top.node.right, Reg(".tmp.ass", next_reg))
  BY DEF AssRight, top
<1>8. BuilderAdd(lines) /\ next_reg' \in Nat /\ UNCHANGED <<ast, phase, terminated>>
  BY <1>2, ConcatEmptySeq DEF AssRight, BuilderAdd, lines, Draw, IInv, TypeOK
<1> QED
  BY <1>1, <1>3, <1>4, <1>5, <1>6, <1>7, <1>8, CallStep

LEMMA BinopLeftStep == IInv /\ BinopLeft => IInv'
<1> SUFFICES ASSUME IInv, BinopLeft PROVE IInv'
  OBVIOUS
<1> DEFINE top == [Top EXCEPT !.pc = "left", !.n = next_reg]
           lines == << >>
<1>1. phase = "generating" /\ stack # << >>
  BY DEF BinopLeft, At
<1>2. next_reg \in Nat /\ terminated \in BOOLEAN
  BY DEF IInv, TypeOK
<1>3. top \in FrameType /\ FrameOK(top) /\ top.pc # "enter" /\ top.node = Top.node
  BY <1>1, <1>2, TopType DEF BinopLeft, At, FrameType, PCs, FrameOK
<1>4. Top.node.left \in Awaited(top)
  BY <1>1, <1>3, TopType, Children DEF BinopLeft, At, Awaited, StmtPCs
<1>5. Reg(".tmp.l", next_reg) \in Temps \cup {None}
  BY <1>2, NameType DEF NumberedPrefixes
<1>6. Extends(lines)
  BY <1>1, NoLines, NoJumpBefore DEF BinopLeft, At, Extends, StmtPCs
<1> HIDE DEF top, lines
<1>7. Call(top, Top.node.left, Reg(".tmp.l", next_reg))
  BY DEF BinopLeft, top
<1>8. BuilderAdd(lines) /\ next_reg' \in Nat /\ UNCHANGED <<ast, phase, terminated>>
  BY <1>2, ConcatEmptySeq DEF BinopLeft, BuilderAdd, lines, Draw, IInv, TypeOK
<1> QED
  BY <1>1, <1>3, <1>4, <1>5, <1>6, <1>7, <1>8, CallStep

LEMMA BinopRightStep == IInv /\ BinopRight => IInv'
<1> SUFFICES ASSUME IInv, BinopRight PROVE IInv'
  OBVIOUS
<1> DEFINE top == [Top EXCEPT !.pc = "right", !.m = next_reg]
           lines == << >>
<1>1. phase = "generating" /\ stack # << >>
  BY DEF BinopRight, At
<1>2. next_reg \in Nat /\ terminated \in BOOLEAN
  BY DEF IInv, TypeOK
<1>3. top \in FrameType /\ FrameOK(top) /\ top.pc # "enter" /\ top.node = Top.node
  BY <1>1, <1>2, TopType DEF BinopRight, At, FrameType, PCs, FrameOK
<1>4. Top.node.right \in Awaited(top)
  BY <1>1, <1>3, TopType, Children DEF BinopRight, At, Awaited, StmtPCs
<1>5. Reg(".tmp.r", next_reg) \in Temps \cup {None}
  BY <1>2, NameType DEF NumberedPrefixes
<1>6. Extends(lines)
  BY <1>1, NoLines, NoJumpBefore DEF BinopRight, At, Extends, StmtPCs
<1> HIDE DEF top, lines
<1>7. Call(top, Top.node.right, Reg(".tmp.r", next_reg))
  BY DEF BinopRight, top
<1>8. BuilderAdd(lines) /\ next_reg' \in Nat /\ UNCHANGED <<ast, phase, terminated>>
  BY <1>2, ConcatEmptySeq DEF BinopRight, BuilderAdd, lines, Draw, IInv, TypeOK
<1> QED
  BY <1>1, <1>3, <1>4, <1>5, <1>6, <1>7, <1>8, CallStep

(***************************************************************************)
(* The actions that return.                                                *)
(***************************************************************************)

LEMMA BlockEndStep == IInv /\ BlockEnd => IInv'
<1> SUFFICES ASSUME IInv, BlockEnd PROVE IInv'
  OBVIOUS
<1> DEFINE lines == << >>
<1>1. phase = "generating" /\ stack # << >>
  BY DEF BlockEnd, At
<1>2. next_reg \in Nat /\ terminated \in BOOLEAN /\ sb \in Seq(Line)
  BY DEF IInv, TypeOK
<1>3. /\ lines \in Seq(Line) /\ JumpsEnd(lines)
      /\ EndsInJump(sb) /\ lines # << >> => IsLabel(lines[1])
  BY NoLines
<1>4. EndsInJump(sb \o lines) => terminated' /\ Top.node \in Stmts(Node)
  <2>1. ~EndsInJump(sb)
    BY <1>1, NoJumpBefore DEF BlockEnd, At, StmtPCs, BlockGoesOn
  <2> QED
    BY <1>2, <2>1, ConcatEmptySeq
<1>5. /\ stack' = Front(stack) /\ BuilderAdd(lines)
      /\ terminated' \in BOOLEAN /\ next_reg' \in Nat /\ UNCHANGED <<ast, phase>>
  BY <1>2, ConcatEmptySeq DEF BlockEnd, LeaveStmt, LeaveExpr, BuilderAdd
<1> HIDE DEF lines
<1> QED
  BY <1>1, <1>3, <1>4, <1>5, LeaveStep

LEMMA BlockTerminatedStep == IInv /\ BlockTerminated => IInv'
<1> SUFFICES ASSUME IInv, BlockTerminated PROVE IInv'
  OBVIOUS
<1> DEFINE lines == << >>
<1>1. phase = "generating" /\ stack # << >>
  BY DEF BlockTerminated, At
<1>2. next_reg \in Nat /\ terminated \in BOOLEAN /\ sb \in Seq(Line)
  BY DEF IInv, TypeOK
<1>3. /\ lines \in Seq(Line) /\ JumpsEnd(lines)
      /\ EndsInJump(sb) /\ lines # << >> => IsLabel(lines[1])
  BY NoLines
<1>4. EndsInJump(sb \o lines) => terminated' /\ Top.node \in Stmts(Node)
  BY <1>1, TopType DEF BlockTerminated, At, LeaveStmt, Stmts, StmtKinds
<1>5. /\ stack' = Front(stack) /\ BuilderAdd(lines)
      /\ terminated' \in BOOLEAN /\ next_reg' \in Nat /\ UNCHANGED <<ast, phase>>
  BY <1>2, ConcatEmptySeq DEF BlockTerminated, LeaveStmt, LeaveExpr, BuilderAdd
<1> HIDE DEF lines
<1> QED
  BY <1>1, <1>3, <1>4, <1>5, LeaveStep

LEMMA StmtExprEndStep == IInv /\ StmtExprEnd => IInv'
<1> SUFFICES ASSUME IInv, StmtExprEnd PROVE IInv'
  OBVIOUS
<1> DEFINE lines == << >>
<1>1. phase = "generating" /\ stack # << >>
  BY DEF StmtExprEnd, At
<1>2. next_reg \in Nat /\ terminated \in BOOLEAN /\ sb \in Seq(Line)
  BY DEF IInv, TypeOK
<1>3. /\ lines \in Seq(Line) /\ JumpsEnd(lines)
      /\ EndsInJump(sb) /\ lines # << >> => IsLabel(lines[1])
  BY NoLines
<1>4. EndsInJump(sb \o lines) => terminated' /\ Top.node \in Stmts(Node)
  <2>1. ~EndsInJump(sb)
    BY <1>1, NoJumpBefore DEF StmtExprEnd, At, StmtPCs
  <2> QED
    BY <1>2, <2>1, ConcatEmptySeq
<1>5. /\ stack' = Front(stack) /\ BuilderAdd(lines)
      /\ terminated' \in BOOLEAN /\ next_reg' \in Nat /\ UNCHANGED <<ast, phase>>
  BY <1>2, ConcatEmptySeq DEF StmtExprEnd, LeaveStmt, LeaveExpr, BuilderAdd
<1> HIDE DEF lines
<1> QED
  BY <1>1, <1>3, <1>4, <1>5, LeaveStep

LEMMA ReturnJumpStep == IInv /\ ReturnJump => IInv'
<1> SUFFICES ASSUME IInv, ReturnJump PROVE IInv'
  OBVIOUS
<1> DEFINE lines == <<Ins("copy", Name(".ret"), <<Reg(".tmp", Top.n)>>), Jmp(RetLabel)>>
<1>1. phase = "generating" /\ stack # << >>
  BY DEF ReturnJump, At
<1>2. next_reg \in Nat /\ terminated \in BOOLEAN /\ sb \in Seq(Line)
  BY DEF IInv, TypeOK
<1>3. /\ lines \in Seq(Line) /\ JumpsEnd(lines)
      /\ EndsInJump(sb) /\ lines # << >> => IsLabel(lines[1])
  <2>1. Name(".ret") \in Temps /\ Reg(".tmp", Top.n) \in Arg /\ "copy" \in Opcodes
    BY <1>1, TopType, NameType DEF NumberedPrefixes, Arg, Opcodes
  <2>2. Ins("copy", Name(".ret"), <<Reg(".tmp", Top.n)>>) \in Line
    BY <2>1, InsType
  <2>3. Jmp(RetLabel) \in Line
    BY LabelType, NameType DEF RetLabel, LabelPrefixes
  <2>4. ~EndsInJump(sb)
    BY <1>1, NoJumpBefore DEF ReturnJump, At, StmtPCs
  <2> QED
    BY <2>2, <2>3, <2>4, TwoLines, LineKinds
<1>4. EndsInJump(sb \o lines) => terminated' /\ Top.node \in Stmts(Node)
  BY <1>1, TopType DEF ReturnJump, At, LeaveStmt, Stmts, StmtKinds
<1>5. /\ stack' = Front(stack) /\ BuilderAdd(lines)
      /\ terminated' \in BOOLEAN /\ next_reg' \in Nat /\ UNCHANGED <<ast, phase>>
  BY <1>2, ConcatEmptySeq DEF ReturnJump, LeaveStmt, LeaveExpr, BuilderAdd
<1> HIDE DEF lines
<1> QED
  BY <1>1, <1>3, <1>4, <1>5, LeaveStep

LEMMA IfEndStep == IInv /\ IfEnd => IInv'
<1> SUFFICES ASSUME IInv, IfEnd PROVE IInv'
  OBVIOUS
<1> DEFINE lines == JmpUnlessTerminated(Reg("@.endif", Top.n))
                      \o <<Label(Reg("@.endif", Top.n))>>
<1>1. phase = "generating" /\ stack # << >>
  BY DEF IfEnd, At
<1>2. next_reg \in Nat /\ terminated \in BOOLEAN /\ sb \in Seq(Line)
  BY DEF IInv, TypeOK
<1>3. lines # << >> /\ Extends(lines)
  <2>1. /\ Reg("@.endif", Top.n) \in LabelPrefixes \X Nat
        /\ Reg("@.endif", Top.n) \in LabelPrefixes \X Nat
    BY <1>1, TopType, NameType DEF LabelPrefixes
  <2>2. EndsInJump(sb) => terminated
    BY <1>1, NoJumpBefore
  <2> QED
    BY <1>2, <2>1, <2>2, BranchEnd DEF Extends
<1>4. /\ stack' = Front(stack) /\ BuilderAdd(lines)
      /\ terminated' \in BOOLEAN /\ next_reg' \in Nat /\ UNCHANGED <<ast, phase>>
  BY <1>2 DEF IfEnd, LeaveStmt, LeaveExpr, BuilderAdd
<1> HIDE DEF lines
<1>5. ~EndsInJump(sb \o lines)
  BY <1>2, <1>3, JumpsEndConcat DEF Extends, IInv
<1> QED
  BY <1>1, <1>3, <1>4, <1>5, LeaveStep DEF Extends

LEMMA IfNoElseStep == IInv /\ IfNoElse => IInv'
<1> SUFFICES ASSUME IInv, IfNoElse PROVE IInv'
  OBVIOUS
<1> DEFINE lines == JmpUnlessTerminated(Reg("@.endif", Top.n))
                      \o <<Label(Reg("@.else", Top.n))>>
                      \o JmpUnlessTerminated(Reg("@.endif", Top.n))
                      \o <<Label(Reg("@.endif", Top.n))>>
<1>1. phase = "generating" /\ stack # << >>
  BY DEF IfNoElse, At
<1>2. next_reg \in Nat /\ terminated \in BOOLEAN /\ sb \in Seq(Line)
  BY DEF IInv, TypeOK
<1>3. lines # << >> /\ Extends(lines)
  <2> DEFINE one == JmpUnlessTerminated(Reg("@.endif", Top.n)) \o <<Label(Reg("@.else", Top.n))>>
             two == JmpUnlessTerminated(Reg("@.endif", Top.n)) \o <<Label(Reg("@.endif", Top.n))>>
  <2>1. /\ Reg("@.endif", Top.n) \in LabelPrefixes \X Nat
        /\ Reg("@.else", Top.n) \in LabelPrefixes \X Nat
    BY <1>1, TopType, NameType DEF LabelPrefixes
  <2>2. EndsInJump(sb) => terminated
    BY <1>1, NoJumpBefore
  <2>3. /\ one \in Seq(Line) /\ JumpsEnd(one) /\ ~EndsInJump(one)
        /\ one # << >>
        /\ terminated => IsLabel(one[1])
    BY <1>2, <2>1, BranchEnd
  <2>4. two \in Seq(Line) /\ JumpsEnd(two) /\ ~EndsInJump(two) /\ two # << >>
    BY <1>2, <2>1, BranchEnd
  <2>5. lines = one \o two
    <3>1. /\ JmpUnlessTerminated(Reg("@.endif", Top.n)) \in Seq(Line)
          /\ <<Label(Reg("@.endif", Top.n))>> \in Seq(Line)
      BY <2>1, LabelType, OneLine DEF JmpUnlessTerminated
    <3> HIDE DEF one
    <3>2. one \o (JmpUnlessTerminated(Reg("@.endif", Top.n)) \o <<Label(Reg("@.endif", Top.n))>>)
            = (one \o JmpUnlessTerminated(Reg("@.endif", Top.n))) \o <<Label(Reg("@.endif", Top.n))>>
      BY <2>3, <3>1, ConcatAssociative
    <3> QED
      BY <3>2 DEF one
  <2> HIDE DEF one, two, lines
  <2>6. JumpsEnd(one \o two) /\ ~EndsInJump(one \o two) /\ one \o two \in Seq(Line)
    BY <2>3, <2>4, JumpsEndConcat, ConcatType
  <2>7. one \o two # << >> /\ (one \o two)[1] = one[1]
    <3>1. Len(one) \in Nat \ {0}
      <4>1. one \in Seq(Line) /\ one # << >>
        BY <2>3
      <4> QED
        BY <4>1, FrontType
    <3>2. Len(two) \in Nat
      BY <2>4, LenProperties
    <3>3. Len(one \o two) = Len(one) + Len(two) /\ (one \o two)[1] = one[1]
      BY <2>3, <2>4, <3>1, ConcatType
    <3> QED
      BY <3>1, <3>2, <3>3, <2>6, EmptySeq
  <2>8. lines # << >>
    BY <2>5, <2>7
  <2>9. EndsInJump(sb) => IsLabel((one \o two)[1])
    BY <2>2, <2>3, <2>7
  <2>10. Extends(one \o two)
    BY <2>6, <2>7, <2>9 DEF Extends
  <2> QED
    BY <2>5, <2>8, <2>10
<1>4. /\ stack' = Front(stack) /\ BuilderAdd(lines)
      /\ terminated' \in BOOLEAN /\ next_reg' \in Nat /\ UNCHANGED <<ast, phase>>
  BY <1>2 DEF IfNoElse, LeaveStmt, LeaveExpr, BuilderAdd
<1> HIDE DEF lines
<1>5. ~EndsInJump(sb \o lines)
  BY <1>2, <1>3, JumpsEndConcat DEF Extends, IInv
<1> QED
  BY <1>1, <1>3, <1>4, <1>5, LeaveStep DEF Extends

LEMMA ForRepeatStep == IInv /\ ForRepeat => IInv'
<1> SUFFICES ASSUME IInv, ForRepeat PROVE IInv'
  OBVIOUS
<1> DEFINE lines == <<Jmp(Reg("@.check", Top.n)), Label(Reg("@.endloop", Top.n))>>
<1>1. phase = "generating" /\ stack # << >>
  BY DEF ForRepeat, At
<1>2. next_reg \in Nat /\ terminated \in BOOLEAN /\ sb \in Seq(Line)
  BY DEF IInv, TypeOK
<1>3. lines # << >> /\ Extends(lines)
  <2>1. /\ Reg("@.check", Top.n) \in LabelPrefixes \X Nat
        /\ Reg("@.endloop", Top.n) \in LabelPrefixes \X Nat
    BY <1>1, TopType, NameType DEF LabelPrefixes
  <2>2. Jmp(Reg("@.check", Top.n)) \in Line /\ Label(Reg("@.endloop", Top.n)) \in Line
    BY <2>1, LabelType
  <2>3. ~EndsInJump(sb)
    BY <1>1, NoJumpBefore DEF ForRepeat, At, StmtPCs
  <2> QED
    BY <2>2, <2>3, TwoLines, LineKinds DEF Extends
<1>4. /\ stack' = Front(stack) /\ BuilderAdd(lines)
      /\ terminated' \in BOOLEAN /\ next_reg' \in Nat /\ UNCHANGED <<ast, phase>>
  BY <1>2 DEF ForRepeat, LeaveStmt, LeaveExpr, BuilderAdd
<1> HIDE DEF lines
<1>5. ~EndsInJump(sb \o lines)
  BY <1>2, <1>3, JumpsEndConcat DEF Extends, IInv
<1> QED
  BY <1>1, <1>3, <1>4, <1>5, LeaveStep DEF Extends

LEMMA ForTerminatedStep == IInv /\ ForTerminated => IInv'
<1> SUFFICES ASSUME IInv, ForTerminated PROVE IInv'
  OBVIOUS
<1> DEFINE lines == <<Label(Reg("@.endloop", Top.n))>>
<1>1. phase = "generating" /\ stack # << >>
  BY DEF ForTerminated, At
<1>2. next_reg \in Nat /\ terminated \in BOOLEAN /\ sb \in Seq(Line)
  BY DEF IInv, TypeOK
<1>3. lines # << >> /\ Extends(lines)
  <2>1. Reg("@.endloop", Top.n) \in LabelPrefixes \X Nat
    BY <1>1, TopType, NameType DEF LabelPrefixes
  <2>2. Label(Reg("@.endloop", Top.n)) \in Line
    BY <2>1, LabelType
  <2> QED
    BY <2>2, OneLine, LineKinds DEF Extends
<1>4. /\ stack' = Front(stack) /\ BuilderAdd(lines)
      /\ terminated' \in BOOLEAN /\ next_reg' \in Nat /\ UNCHANGED <<ast, phase>>
  BY <1>2 DEF ForTerminated, LeaveStmt, LeaveExpr, BuilderAdd
<1> HIDE DEF lines
<1>5. ~EndsInJump(sb \o lines)
  BY <1>2, <1>3, JumpsEndConcat DEF Extends, IInv
<1> QED
  BY <1>1, <1>3, <1>4, <1>5, LeaveStep DEF Extends

LEMMA WhileEndStep == IInv /\ WhileEnd => IInv'
<1> SUFFICES ASSUME IInv, WhileEnd PROVE IInv'
  OBVIOUS
<1> DEFINE lines == JmpUnlessTerminated(Reg("@.check", Top.n))
                      \o <<Label(Reg("@.endloop", Top.n))>>
<1>1. phase = "generating" /\ stack # << >>
  BY DEF WhileEnd, At
<1>2. next_reg \in Nat /\ terminated \in BOOLEAN /\ sb \in Seq(Line)
  BY DEF IInv, TypeOK
<1>3. lines # << >> /\ Extends(lines)
  <2>1. /\ Reg("@.check", Top.n) \in LabelPrefixes \X Nat
        /\ Reg("@.endloop", Top.n) \in LabelPrefixes \X Nat
    BY <1>1, TopType, NameType DEF LabelPrefixes
  <2>2. EndsInJump(sb) => terminated
    BY <1>1, NoJumpBefore
  <2> QED
    BY <1>2, <2>1, <2>2, BranchEnd DEF Extends
<1>4. /\ stack' = Front(stack) /\ BuilderAdd(lines)
      /\ terminated' \in BOOLEAN /\ next_reg' \in Nat /\ UNCHANGED <<ast, phase>>
  BY <1>2 DEF WhileEnd, LeaveStmt, LeaveExpr, BuilderAdd
<1> HIDE DEF lines
<1>5. ~EndsInJump(sb \o lines)
  BY <1>2, <1>3, JumpsEndConcat DEF Extends, IInv
<1> QED
  BY <1>1, <1>3, <1>4, <1>5, LeaveStep DEF Extends

LEMMA ExprLitStep == IInv /\ ExprLit => IInv'
<1> SUFFICES ASSUME IInv, ExprLit PROVE IInv'
  OBVIOUS
<1> DEFINE lines == IF Top.node.lit = "LK_ID"
                    THEN <<Ins("loadw", Top.var, <<Var(Top.node.str)>>)>>
                    ELSE <<Ins("copy", Top.var, <<Imm(Top.node.str)>>)>>
<1>1. phase = "generating" /\ stack # << >>
  BY DEF ExprLit, At
<1>2. next_reg \in Nat /\ terminated \in BOOLEAN /\ sb \in Seq(Line)
  BY DEF IInv, TypeOK
<1>3. lines # << >> /\ Extends(lines)
  <2>1. ~EndsInJump(sb)
    BY <1>1, NoJumpBefore DEF ExprLit, At, StmtPCs
  <2>2. /\ Top.node \in Node /\ Top.node.kind = "NKEx_LIT"
        /\ Top.var \in Temps \cup Vars \cup {None}
    BY <1>1, TopType DEF ExprLit, At
  <2>3. CASE Top.node.lit = "LK_ID"
    <3>1. Var(Top.node.str) \in Arg
      BY <2>2, <2>3 DEF Arg, Vars
    <3>2. Ins("loadw", Top.var, <<Var(Top.node.str)>>) \in Line
      BY <2>2, <3>1, InsType DEF Opcodes
    <3> QED
      BY <2>1, <2>3, <3>2, OneLine, LineKinds DEF Extends
  <2>4. CASE Top.node.lit # "LK_ID"
    <3>1. Imm(Top.node.str) \in Arg
      BY <2>2, <2>4, Children DEF Arg, Imm
    <3>2. Ins("copy", Top.var, <<Imm(Top.node.str)>>) \in Line
      BY <2>2, <3>1, InsType DEF Opcodes
    <3> QED
      BY <2>1, <2>4, <3>2, OneLine, LineKinds DEF Extends
  <2> QED
    BY <2>3, <2>4
<1>4. /\ stack' = Front(stack) /\ BuilderAdd(lines)
      /\ terminated' \in BOOLEAN /\ next_reg' \in Nat /\ UNCHANGED <<ast, phase>>
  BY <1>2 DEF ExprLit, LeaveStmt, LeaveExpr, BuilderAdd
<1> HIDE DEF lines
<1>5. ~EndsInJump(sb \o lines)
  BY <1>2, <1>3, JumpsEndConcat DEF Extends, IInv
<1> QED
  BY <1>1, <1>3, <1>4, <1>5, LeaveStep DEF Extends

LEMMA UnaopResultStep == IInv /\ UnaopResult => IInv'
<1> SUFFICES ASSUME IInv, UnaopResult PROVE IInv'
  OBVIOUS
<1> DEFINE lines == IF Top.node.op = "UNAOP_NEG"
                    THEN <<Ins("mul", Top.var, <<Reg(".tmp.una", Top.n), Imm(-1)>>)>>
                    ELSE <<Ins("loadw", Top.var, <<Reg(".tmp.una", Top.n)>>)>>
<1>1. phase = "generating" /\ stack # << >>
  BY DEF UnaopResult, At
<1>2. next_reg \in Nat /\ terminated \in BOOLEAN /\ sb \in Seq(Line)
  BY DEF IInv, TypeOK
<1>3. lines # << >> /\ Extends(lines)
  <2>1. ~EndsInJump(sb)
    BY <1>1, NoJumpBefore DEF UnaopResult, At, StmtPCs
  <2>2. /\ Reg(".tmp.una", Top.n) \in Arg
        /\ Imm(-1) \in Arg
        /\ Top.var \in Temps \cup Vars \cup {None}
    BY <1>1, TopType, NameType DEF NumberedPrefixes, Arg, Imm
  <2>3. /\ Ins("mul", Top.var, <<Reg(".tmp.una", Top.n), Imm(-1)>>) \in Line
        /\ Ins("loadw", Top.var, <<Reg(".tmp.una", Top.n)>>) \in Line
    BY <2>2, InsType DEF Opcodes
  <2> QED
    BY <2>1, <2>3, OneLine, LineKinds DEF Extends
<1>4. /\ stack' = Front(stack) /\ BuilderAdd(lines)
      /\ terminated' \in BOOLEAN /\ next_reg' \in Nat /\ UNCHANGED <<ast, phase>>
  BY <1>2 DEF UnaopResult, LeaveStmt, LeaveExpr, BuilderAdd
<1> HIDE DEF lines
<1>5. ~EndsInJump(sb \o lines)
  BY <1>2, <1>3, JumpsEndConcat DEF Extends, IInv
<1> QED
  BY <1>1, <1>3, <1>4, <1>5, LeaveStep DEF Extends

LEMMA AssStoreStep == IInv /\ AssStore => IInv'
<1> SUFFICES ASSUME IInv, AssStore PROVE IInv'
  OBVIOUS
<1> DEFINE lines == <<Ins("alloc4", Var(Top.node.left.str), <<Imm(1)>>),
                      Store(Reg(".tmp.ass", Top.n), Var(Top.node.left.str)),
                      Ins("copy", Top.var, <<Reg(".tmp.ass", Top.n)>>)>>
<1>1. phase = "generating" /\ stack # << >>
  BY DEF AssStore, At
<1>2. next_reg \in Nat /\ terminated \in BOOLEAN /\ sb \in Seq(Line)
  BY DEF IInv, TypeOK
<1>3. lines # << >> /\ Extends(lines)
  <2>1. ~EndsInJump(sb)
    BY <1>1, NoJumpBefore DEF AssStore, At, StmtPCs
  <2>2. Var(Top.node.left.str) \in Vars
    BY <1>1, TopType, Children DEF AssStore, At, FrameOK
  <2>3. /\ Reg(".tmp.ass", Top.n) \in Arg /\ Imm(1) \in Arg
        /\ Var(Top.node.left.str) \in Arg
        /\ Top.var \in Temps \cup Vars \cup {None}
    BY <1>1, <2>2, TopType, NameType DEF NumberedPrefixes, Arg, Imm
  <2>4. /\ Ins("alloc4", Var(Top.node.left.str), <<Imm(1)>>) \in Line
        /\ Store(Reg(".tmp.ass", Top.n), Var(Top.node.left.str)) \in Line
        /\ Ins("copy", Top.var, <<Reg(".tmp.ass", Top.n)>>) \in Line
    BY <2>2, <2>3, InsType DEF Opcodes, Store
  <2>5. /\ ~IsJump(Ins("alloc4", Var(Top.node.left.str), <<Imm(1)>>))
        /\ ~IsJump(Store(Reg(".tmp.ass", Top.n), Var(Top.node.left.str)))
        /\ ~IsJump(Ins("copy", Top.var, <<Reg(".tmp.ass", Top.n)>>))
    BY LineKinds DEF Store
  <2> QED
    BY <2>1, <2>4, <2>5, ThreeLines DEF Extends
<1>4. /\ stack' = Front(stack) /\ BuilderAdd(lines)
      /\ terminated' \in BOOLEAN /\ next_reg' \in Nat /\ UNCHANGED <<ast, phase>>
  BY <1>2 DEF AssStore, LeaveStmt, LeaveExpr, BuilderAdd
<1> HIDE DEF lines
<1>5. ~EndsInJump(sb \o lines)
  BY <1>2, <1>3, JumpsEndConcat DEF Extends, IInv
<1> QED
  BY <1>1, <1>3, <1>4, <1>5, LeaveStep DEF Extends

LEMMA BinopResultStep == IInv /\ BinopResult => IInv'
<1> SUFFICES ASSUME IInv, BinopResult PROVE IInv'
  OBVIOUS
<1> DEFINE lines == <<Ins(BinopkToStr(Top.node.op), Top.var,
                          <<Reg(".tmp.l", Top.n), Reg(".tmp.r", Top.m)>>)>>
<1>1. phase = "generating" /\ stack # << >>
  BY DEF BinopResult, At
<1>2. next_reg \in Nat /\ terminated \in BOOLEAN /\ sb \in Seq(Line)
  BY DEF IInv, TypeOK
<1>3. lines # << >> /\ Extends(lines)
  <2>1. ~EndsInJump(sb)
    BY <1>1, NoJumpBefore DEF BinopResult, At, StmtPCs
  <2>2. /\ Reg(".tmp.l", Top.n) \in Arg /\ Reg(".tmp.r", Top.m) \in Arg
        /\ Top.var \in Temps \cup Vars \cup {None}
    BY <1>1, TopType, NameType DEF NumberedPrefixes, Arg
  <2>3. Top.node.op \in ArithKind
    BY <1>1, TopType, Children DEF BinopResult, At, FrameOK, BinopKind
  <2>4. BinopkToStr(Top.node.op) \in {"add", "sub", "mul", "div"}
    BY <2>3 DEF BinopkToStr, ArithKind
  <2> DEFINE line == Ins(BinopkToStr(Top.node.op), Top.var,
                         <<Reg(".tmp.l", Top.n), Reg(".tmp.r", Top.m)>>)
  <2>5. line \in Line
    BY <2>2, <2>4, InsType DEF Opcodes
  <2>6. ~IsJump(line)
    BY <2>4, LineKinds
  <2> HIDE DEF line
  <2>7. <<line>> # << >> /\ Extends(<<line>>)
    BY <2>1, <2>5, <2>6, OneLine DEF Extends
  <2> QED
    BY <2>7 DEF line
<1>4. /\ stack' = Front(stack) /\ BuilderAdd(lines)
      /\ terminated' \in BOOLEAN /\ next_reg' \in Nat /\ UNCHANGED <<ast, phase>>
  BY <1>2 DEF BinopResult, LeaveStmt, LeaveExpr, BuilderAdd
<1> HIDE DEF lines
<1>5. ~EndsInJump(sb \o lines)
  BY <1>2, <1>3, JumpsEndConcat DEF Extends, IInv
<1> QED
  BY <1>1, <1>3, <1>4, <1>5, LeaveStep DEF Extends

(***************************************************************************)
(* The first step, the last one and the exit.                              *)
(***************************************************************************)
LEMMA InitInv == Init => IInv
<1> SUFFICES ASSUME Init PROVE IInv
  OBVIOUS
<1>1. stack = << >> /\ sb = << >> /\ phase = "called"
  BY DEF Init
<1>2. TypeOK
  BY EmptySeq DEF Init, TypeOK
<1>3. Chain(stack)
  BY <1>1 DEF Chain
<1>4. JumpsEnd(sb) /\ JumpIsKnown
  BY <1>1 DEF JumpsEnd, JumpIsKnown
<1> QED
  BY <1>1, <1>2, <1>3, <1>4 DEF IInv

LEMMA CodegenStartStep == IInv /\ CodegenStart => IInv'
<1> SUFFICES ASSUME IInv, CodegenStart PROVE IInv'
  OBVIOUS
<1> DEFINE a == Label(Name("@start"))
           b == Ins("copy", Name(".ret"), <<Imm(0)>>)
           root == Frame(ast, None)
<1>1. a \in Line /\ b \in Line /\ ~IsJump(a) /\ ~IsJump(b)
  <2>1. Name("@start") \in LabelPrefixes \X Nat /\ Name(".ret") \in Temps
    BY NameType DEF LabelPrefixes
  <2>2. Imm(0) \in Arg
    BY DEF Imm, Arg
  <2> QED
    BY <2>1, <2>2, LabelType, InsType, LineKinds DEF Opcodes
<1>2. ast \in Stmts(Node) /\ ast \in Node
  BY ProgramsAssumption DEF IInv, TypeOK, Stmts
<1>3. root \in FrameType /\ root.node = ast /\ FrameOK(root)
  BY <1>2 DEF Frame, FrameType, PCs, FrameOK
<1>4. sb' = <<a, b>> /\ stack' = <<root>> /\ phase' = "generating"
      /\ UNCHANGED <<ast, next_reg, terminated>>
  BY DEF CodegenStart
<1> HIDE DEF a, b, root
<1>5. sb' \in Seq(Line) /\ JumpsEnd(sb') /\ ~EndsInJump(sb')
  BY <1>1, <1>4, TwoLines
<1>6. /\ stack' \in Seq(FrameType)
      /\ Len(stack') = 1
      /\ stack'[1] = root
  BY <1>3, <1>4
<1>7. TypeOK'
  BY <1>4, <1>5, <1>6 DEF IInv, TypeOK
<1>8. Chain(stack')
  BY <1>2, <1>3, <1>6 DEF Chain
<1> QED
  BY <1>4, <1>5, <1>7, <1>8 DEF IInv, JumpIsKnown

LEMMA CodegenEndStep == IInv /\ CodegenEnd => IInv'
<1> SUFFICES ASSUME IInv, CodegenEnd PROVE IInv'
  OBVIOUS
<1> DEFINE a == Label(RetLabel)
           b == Ret(Name(".ret"))
<1>1. a \in Line /\ b \in Line /\ IsLabel(a) /\ ~IsJump(a)
  <2>1. RetLabel \in LabelPrefixes \X Nat /\ Name(".ret") \in Arg
    BY NameType DEF LabelPrefixes, RetLabel, Arg
  <2> QED
    BY <2>1, LabelType, InsType, LineKinds DEF Opcodes, Ret
<1>2. sb' = sb \o <<a, b>> /\ phase' = "done" /\ stack' = stack
      /\ UNCHANGED <<ast, next_reg, terminated>>
  BY DEF CodegenEnd, BuilderAdd
<1>3. stack = << >>
  BY DEF CodegenEnd
<1> HIDE DEF a, b
<1>4. <<a, b>> \in Seq(Line) /\ JumpsEnd(<<a, b>>) /\ <<a, b>>[1] = a
  BY <1>1, TwoLines
<1>5. sb' \in Seq(Line) /\ JumpsEnd(sb')
  BY <1>1, <1>2, <1>4, JumpsEndConcat, ConcatType DEF IInv, TypeOK
<1>6. TypeOK'
  BY <1>2, <1>5 DEF IInv, TypeOK
<1> QED
  BY <1>2, <1>3, <1>5, <1>6 DEF IInv, JumpIsKnown, Chain

LEMMA UnaopAddrStep == IInv /\ UnaopAddr => IInv'
BY DEF IInv, UnaopAddr, TypeOK, Chain, JumpIsKnown

LEMMA StutterStep == IInv /\ UNCHANGED vars => IInv'
BY DEF IInv, vars, TypeOK, Chain, JumpIsKnown, Top, Last

-----------------------------------------------------------------------------
LEMMA NextInv == IInv /\ [Next]_vars => IInv'
<1>1. IInv /\ GenStmt => IInv'
  BY BlockNextStep, BlockEndStep, BlockTerminatedStep, ReturnValueStep,
     ReturnJumpStep, StmtExprValueStep, StmtExprEndStep, IfCondStep,
     IfThenStep, IfElseStep, IfNoElseStep, IfEndStep, ForInitStep,
     ForCheckStep, ForBodyStep, ForPostStep, ForRepeatStep,
     ForTerminatedStep, WhileCheckStep, WhileBodyStep, WhileEndStep
     DEF GenStmt
<1>2. IInv /\ GenExpr => IInv'
  BY ExprLitStep, UnaopOperandStep, UnaopResultStep, UnaopAddrStep,
     AssRightStep, AssStoreStep, BinopLeftStep, BinopRightStep,
     BinopResultStep DEF GenExpr
<1> QED
  BY <1>1, <1>2, CodegenStartStep, CodegenEndStep, StutterStep DEF Next

LEMMA Inductive == Spec => []IInv
BY InitInv, NextInv, PTL DEF Spec

(* Every frame, line and register number of the generator has its type, and
   no child that a frame is called on is missing, whatever the tree. *)
THEOREM TypeCorrect == Spec => []TypeOK
<1>1. IInv => TypeOK
  BY DEF IInv
<1> QED
  BY <1>1, Inductive, PTL

(* QBE never sees an instruction after a jump: on every tree, and at every
   moment of the walk, a jump is followed by a label or is the last line. *)
THEOREM JumpsEndBlocks == Spec => []JumpEndsBlock
<1>1. IInv => JumpEndsBlock
  BY DEF IInv, JumpsEnd, JumpEndsBlock
<1> QED
  BY <1>1, Inductive, PTL

-----------------------------------------------------------------------------
(***************************************************************************)
(* The labels: the inductive invariant.                                    *)
(***************************************************************************)
Loops == {"NKSt_FOR", "NKSt_FOR_WHILE"}

(* The labels a frame has drawn the number of and not added. *)
PendingPrefixes(kind, pc) ==
  IF kind = "NKSt_IF"
  THEN IF pc = "then" THEN {"@.else", "@.endif"}
       ELSE IF pc = "else" THEN {"@.endif"} ELSE {}
  ELSE IF kind \in Loops
  THEN IF pc = "init" THEN {"@.check", "@.loop", "@.endloop"}
       ELSE IF pc = "cond" THEN {"@.loop", "@.endloop"}
       ELSE IF pc \in {"body", "post"} THEN {"@.endloop"} ELSE {}
  ELSE {}

Pending(f) == {Reg(p, f.n) : p \in PendingPrefixes(f.node.kind, f.pc)}

(* A frame that may jump back to its @.check. *)
Looping(f) == f.node.kind \in Loops /\ f.pc \in {"cond", "body", "post"}

Places(text, l) == \E k \in 1 .. Len(text) : IsLabel(text[k]) /\ text[k].to = <<l>>

Targets(text, l) ==
  \E k \in 1 .. Len(text) : IsJump(text[k]) /\ \E t \in 1 .. Len(text[k].to) : text[k].to[t] = l

(* The line of a label has one label, and no other line has the same. *)
PlacesOnce(text) ==
  /\ \A k \in 1 .. Len(text) : IsLabel(text[k]) => \E l : text[k].to = <<l>>
  /\ \A j, k \in 1 .. Len(text) :
       IsLabel(text[j]) /\ IsLabel(text[k]) /\ text[j].to = text[k].to => j = k

(* The labels of the functions, numbered from m to n - 1. *)
Drawn(m, n) == (LabelPrefixes \ {"@start", "@.ret"}) \X {i \in Nat : m <= i /\ i < n}

PlacedDrawn == \A l : Places(sb, l) => l = Name("@start") \/ l \in Drawn(0, next_reg)

PendingFree ==
  \A k \in 1 .. Len(stack) : \A l \in Pending(stack[k]) :
    /\ l \in Drawn(0, next_reg)
    /\ ~Places(sb, l)
    /\ \A j \in 1 .. k - 1 : l \notin Pending(stack[j])

ChecksPlaced ==
  \A k \in 1 .. Len(stack) :
    Looping(stack[k]) => Places(sb, Reg("@.check", stack[k].n))

TargetsKnown ==
  \A l : Targets(sb, l) =>
    Places(sb, l) \/ l = RetLabel \/ \E k \in 1 .. Len(stack) : l \in Pending(stack[k])

LInv ==
  /\ PlacesOnce(sb)
  /\ phase = "generating" => PlacedDrawn /\ PendingFree /\ ChecksPlaced /\ TargetsKnown
  /\ phase = "done" => \A l : Targets(sb, l) => Places(sb, l)

-----------------------------------------------------------------------------
(***************************************************************************)
(* Texts, whatever their lines are made of.                                *)
(***************************************************************************)
IsSeq(s) == \E S : s \in Seq(S)

LEMMA SeqGrows ==
  ASSUME NEW S, NEW T, S \subseteq T, NEW s \in Seq(S)
  PROVE  s \in Seq(T)
<1>1. Len(s) \in Nat /\ s = [k \in 1 .. Len(s) |-> s[k]]
  BY LenProperties
<1>2. \A k \in 1 .. Len(s) : s[k] \in T
  BY ElementOfSeq
<1> QED
  BY <1>1, <1>2, IsASeq

LEMMA ConcatAny ==
  ASSUME NEW s, NEW t, IsSeq(s), IsSeq(t)
  PROVE  /\ IsSeq(s \o t)
         /\ Len(s) \in Nat /\ Len(t) \in Nat
         /\ Len(s \o t) = Len(s) + Len(t)
         /\ \A k \in 1 .. Len(s) : (s \o t)[k] = s[k]
         /\ \A k \in 1 .. Len(t) : (s \o t)[Len(s) + k] = t[k]
<1>1. PICK S, T : s \in Seq(S) /\ t \in Seq(T)
  BY DEF IsSeq
<1>2. s \in Seq(S \cup T) /\ t \in Seq(S \cup T)
  <2>1. S \subseteq S \cup T /\ T \subseteq S \cup T
    OBVIOUS
  <2> QED
    BY <1>1, <2>1, SeqGrows
<1>3. Len(s) \in Nat /\ Len(t) \in Nat
  BY <1>1, LenProperties
<1> QED
  BY <1>2, <1>3, ConcatType DEF IsSeq

(* lines adds the labels of P, and jumps to labels of T only. *)
Text(lines, P, T) ==
  /\ IsSeq(lines)
  /\ PlacesOnce(lines)
  /\ \A l : Places(lines, l) <=> l \in P
  /\ \A l : Targets(lines, l) => l \in T

(* Where a line of s \o t comes from. *)
LEMMA ConcatLines ==
  ASSUME NEW s, NEW t, IsSeq(s), IsSeq(t)
  PROVE  /\ \A l : Places(s \o t, l) <=> Places(s, l) \/ Places(t, l)
         /\ \A l : Targets(s \o t, l) => Targets(s, l) \/ Targets(t, l)
<1> DEFINE u == s \o t
<1>1. /\ Len(s) \in Nat /\ Len(t) \in Nat /\ Len(u) = Len(s) + Len(t)
      /\ \A k \in 1 .. Len(s) : u[k] = s[k]
      /\ \A k \in 1 .. Len(t) : u[Len(s) + k] = t[k]
  BY ConcatAny
<1> HIDE DEF u
<1>2. \A k \in 1 .. Len(u) : \/ k \in 1 .. Len(s) /\ u[k] = s[k]
                             \/ k - Len(s) \in 1 .. Len(t) /\ u[k] = t[k - Len(s)]
  <2> TAKE k \in 1 .. Len(u)
  <2>1. CASE k <= Len(s)
    BY <1>1, <2>1
  <2>2. CASE k > Len(s)
    <3>1. k - Len(s) \in 1 .. Len(t) /\ k = Len(s) + (k - Len(s))
      BY <1>1, <2>2
    <3> QED
      BY <1>1, <3>1
  <2> QED
    BY <1>1, <2>1, <2>2
<1>3. \A k \in 1 .. Len(t) : Len(s) + k \in 1 .. Len(u)
  BY <1>1
<1>4. \A k \in 1 .. Len(s) : k \in 1 .. Len(u)
  BY <1>1
<1>5. \A l : Places(u, l) <=> Places(s, l) \/ Places(t, l)
  <2> TAKE l
  <2>1. Places(u, l) => Places(s, l) \/ Places(t, l)
    BY <1>2 DEF Places
  <2>2. Places(s, l) => Places(u, l)
    BY <1>1, <1>4 DEF Places
  <2>3. Places(t, l) => Places(u, l)
    BY <1>1, <1>3 DEF Places
  <2> QED
    BY <2>1, <2>2, <2>3
<1>6. \A l : Targets(u, l) => Targets(s, l) \/ Targets(t, l)
  BY <1>2 DEF Targets
<1> QED
  BY <1>5, <1>6 DEF u

LEMMA ConcatOnce ==
  ASSUME NEW s, NEW t, IsSeq(s), IsSeq(t), PlacesOnce(s), PlacesOnce(t),
         \A l : ~(Places(s, l) /\ Places(t, l))
  PROVE  PlacesOnce(s \o t)
<1> DEFINE u == s \o t
<1>1. /\ Len(s) \in Nat /\ Len(t) \in Nat /\ Len(u) = Len(s) + Len(t)
      /\ \A k \in 1 .. Len(s) : u[k] = s[k]
      /\ \A k \in 1 .. Len(t) : u[Len(s) + k] = t[k]
  BY ConcatAny
<1> HIDE DEF u
<1>2. \A k \in 1 .. Len(u) : \/ k \in 1 .. Len(s) /\ u[k] = s[k]
                             \/ k - Len(s) \in 1 .. Len(t) /\ u[k] = t[k - Len(s)]
  <2> TAKE k \in 1 .. Len(u)
  <2>1. CASE k <= Len(s)
    BY <1>1, <2>1
  <2>2. CASE k > Len(s)
    <3>1. k - Len(s) \in 1 .. Len(t) /\ k = Len(s) + (k - Len(s))
      BY <1>1, <2>2
    <3> QED
      BY <1>1, <3>1
  <2> QED
    BY <1>1, <2>1, <2>2
<1>3. \A k \in 1 .. Len(u) : IsLabel(u[k]) => \E l : u[k].to = <<l>>
  BY <1>2 DEF PlacesOnce
<1>4. ASSUME NEW j \in 1 .. Len(u), NEW k \in 1 .. Len(u),
             IsLabel(u[j]), IsLabel(u[k]), u[j].to = u[k].to
      PROVE  j = k
  <2>1. PICK l : u[j].to = <<l>> /\ u[k].to = <<l>>
    BY <1>3, <1>4
  <2>2. CASE j \in 1 .. Len(s) /\ u[j] = s[j] /\ k \in 1 .. Len(s) /\ u[k] = s[k]
    BY <1>4, <2>2 DEF PlacesOnce
  <2>3. CASE /\ j - Len(s) \in 1 .. Len(t) /\ u[j] = t[j - Len(s)]
             /\ k - Len(s) \in 1 .. Len(t) /\ u[k] = t[k - Len(s)]
    <3>1. j - Len(s) = k - Len(s)
      BY <1>4, <2>3 DEF PlacesOnce
    <3> QED
      BY <1>1, <3>1
  <2>4. ~(j \in 1 .. Len(s) /\ u[j] = s[j] /\ k - Len(s) \in 1 .. Len(t) /\ u[k] = t[k - Len(s)])
    BY <1>4, <2>1 DEF Places
  <2>5. ~(k \in 1 .. Len(s) /\ u[k] = s[k] /\ j - Len(s) \in 1 .. Len(t) /\ u[j] = t[j - Len(s)])
    BY <1>4, <2>1 DEF Places
  <2> QED
    BY <1>2, <2>2, <2>3, <2>4, <2>5
<1> QED
  BY <1>3, <1>4 DEF PlacesOnce, u

(* Short texts.  A line that is neither label nor jump adds nothing. *)
Plain(line) == ~IsLabel(line) /\ ~IsJump(line)

LEMMA OneLineText ==
  ASSUME NEW a, NEW P, NEW T,
         IsLabel(a) => \E l : a.to = <<l>>,
         \A l : l \in P <=> IsLabel(a) /\ a.to = <<l>>,
         IsJump(a) => \A t \in 1 .. Len(a.to) : a.to[t] \in T
  PROVE  Text(<<a>>, P, T)
<1> DEFINE u == <<a>>
<1>1. u \in Seq({a}) /\ Len(u) = 1 /\ u[1] = a
  OBVIOUS
<1> HIDE DEF u
<1>2. IsSeq(u)
  BY <1>1 DEF IsSeq
<1>3. \A k \in 1 .. Len(u) : k = 1 /\ u[k] = a
  BY <1>1
<1>4. 1 \in 1 .. Len(u)
  BY <1>1
<1>5. PlacesOnce(u)
  BY <1>3 DEF PlacesOnce
<1>6. \A l : Places(u, l) <=> IsLabel(a) /\ a.to = <<l>>
  BY <1>1, <1>3, <1>4, Zenon DEF Places
<1>7. \A l : Targets(u, l) => l \in T
  BY <1>3 DEF Targets
<1>8. Text(u, P, T)
  BY <1>2, <1>5, <1>6, <1>7, Zenon DEF Text
<1> QED
  BY <1>8 DEF u

LEMMA NoText == Text(<< >>, {}, {})
<1>1. << >> \in Seq({}) /\ Len(<< >>) = 0
  OBVIOUS
<1>2. IsSeq(<< >>)
  BY <1>1, Zenon DEF IsSeq
<1>3. PlacesOnce(<< >>)
  BY <1>1 DEF PlacesOnce
<1>4. \A l : ~Places(<< >>, l) /\ ~Targets(<< >>, l)
  BY <1>1 DEF Places, Targets
<1> QED
  BY <1>2, <1>3, <1>4, Zenon DEF Text

LEMMA PlainText == \A a : Plain(a) => Text(<<a>>, {}, {})
BY OneLineText, Zenon DEF Plain

LEMMA LabelText == \A l : Text(<<Label(l)>>, {l}, {})
<1> TAKE l
<1>1. /\ IsLabel(Label(l)) /\ ~IsJump(Label(l)) /\ Label(l).to = <<l>>
  BY LineKinds DEF Label
<1>2. \A k : <<l>> = <<k>> <=> k = l
  OBVIOUS
<1>3. \A k : k \in {l} <=> IsLabel(Label(l)) /\ Label(l).to = <<k>>
  BY <1>1, <1>2
<1> QED
  BY <1>1, <1>3, OneLineText, Zenon

LEMMA JumpText ==
  /\ \A l : Text(<<Jmp(l)>>, {}, {l})
  /\ \A a, l, k : Text(<<Jnz(a, l, k)>>, {}, {l, k})
<1>1. ASSUME NEW j, NEW T, ~IsLabel(j), \A t \in 1 .. Len(j.to) : j.to[t] \in T
      PROVE  Text(<<j>>, {}, T)
  BY <1>1, OneLineText, Zenon
<1>2. \A l : Text(<<Jmp(l)>>, {}, {l})
  <2> TAKE l
  <2>1. ~IsLabel(Jmp(l)) /\ Jmp(l).to = <<l>>
    BY LineKinds DEF Jmp
  <2>2. \A t \in 1 .. Len(Jmp(l).to) : Jmp(l).to[t] \in {l}
    BY <2>1
  <2> QED
    BY <1>1, <2>1, <2>2, Zenon
<1>3. \A a, l, k : Text(<<Jnz(a, l, k)>>, {}, {l, k})
  <2> TAKE a, l, k
  <2>1. ~IsLabel(Jnz(a, l, k)) /\ Jnz(a, l, k).to = <<l, k>>
    BY LineKinds DEF Jnz
  <2>2. \A t \in 1 .. Len(Jnz(a, l, k).to) : Jnz(a, l, k).to[t] \in {l, k}
    BY <2>1
  <2> QED
    BY <1>1, <2>1, <2>2, Zenon
<1> QED
  BY <1>2, <1>3

LEMMA ConcatText ==
  ASSUME NEW s, NEW t, NEW P, NEW Q, NEW T, NEW U,
         Text(s, P, T), Text(t, Q, U), P \cap Q = {}
  PROVE  Text(s \o t, P \cup Q, T \cup U)
<1>1. IsSeq(s) /\ IsSeq(t) /\ PlacesOnce(s) /\ PlacesOnce(t)
  BY DEF Text
<1>2. \A l : ~(Places(s, l) /\ Places(t, l))
  BY DEF Text
<1>3. IsSeq(s \o t) /\ PlacesOnce(s \o t)
  BY <1>1, <1>2, ConcatAny, ConcatOnce
<1>4. /\ \A l : Places(s \o t, l) <=> l \in P \cup Q
      /\ \A l : Targets(s \o t, l) => l \in T \cup U
  BY <1>1, ConcatLines DEF Text
<1> QED
  BY <1>3, <1>4 DEF Text

LEMMA PairText ==
  ASSUME NEW a, NEW b, NEW P, NEW Q, NEW T, NEW U,
         Text(<<a>>, P, T), Text(<<b>>, Q, U), P \cap Q = {}
  PROVE  Text(<<a, b>>, P \cup Q, T \cup U)
<1>1. <<a>> \o <<b>> = <<a, b>>
  <2>1. a \in {a, b} /\ b \in {a, b}
    OBVIOUS
  <2> QED
    BY <2>1, ConcatTuples
<1>2. Text(<<a>> \o <<b>>, P \cup Q, T \cup U)
  BY ConcatText
<1> QED
  BY <1>1, <1>2

(* The end of a branch. *)
LEMMA BranchText ==
  ASSUME NEW l, NEW k
  PROVE  Text(JmpUnlessTerminated(l) \o <<Label(k)>>, {k}, {l})
<1>1. Text(JmpUnlessTerminated(l), {}, {l})
  <2>1. Text(<< >>, {}, {l})
    BY NoText DEF Text
  <2>2. JmpUnlessTerminated(l) = << >> \/ JmpUnlessTerminated(l) = <<Jmp(l)>>
    BY DEF JmpUnlessTerminated
  <2> QED
    BY <2>1, <2>2, JumpText
<1>2. Text(<<Label(k)>>, {k}, {})
  BY LabelText
<1>3. /\ {} \cap {k} = {} /\ {} \cup {k} = {k} /\ {l} \cup {} = {l}
  OBVIOUS
<1> QED
  BY <1>1, <1>2, <1>3, ConcatText

LEMMA PlainThree ==
  ASSUME NEW a, NEW b, NEW c, Plain(a), Plain(b), Plain(c)
  PROVE  Text(<<a, b, c>>, {}, {})
<1> DEFINE u == <<a, b, c>>
<1>1. u \in Seq({a, b, c}) /\ Len(u) = 3 /\ u[1] = a /\ u[2] = b /\ u[3] = c
  OBVIOUS
<1> HIDE DEF u
<1>2. \A k \in 1 .. Len(u) : Plain(u[k])
  BY <1>1
<1>3. IsSeq(u)
  BY <1>1, Zenon DEF IsSeq
<1>4. PlacesOnce(u)
  BY <1>2, Zenon DEF PlacesOnce, Plain
<1>5. \A l : ~Places(u, l) /\ ~Targets(u, l)
  BY <1>2, Zenon DEF Places, Targets, Plain
<1>6. Text(u, {}, {})
  BY <1>3, <1>4, <1>5, Zenon DEF Text
<1> QED
  BY <1>6 DEF u

-----------------------------------------------------------------------------
(***************************************************************************)
(* What a step owes to the invariant.  It adds the labels of P and jumps   *)
(* to those of T; the frame that ran has "after" still to add.  P and      *)
(* "after" are what it had to add before and the labels it draws.          *)
(***************************************************************************)

(* The stack of N frames becomes one of N - 1 or N + 1. *)
Turn(N, P, after) ==
  /\ N \in Nat \ {0} /\ N = Len(stack)
  /\ \A k \in 1 .. N - 1 : stack'[k] = stack[k]
  /\ \/ Len(stack') = N - 1 /\ after = {}
     \/ /\ Len(stack') = N + 1
        /\ Pending(stack'[N]) = after
        /\ Looping(stack'[N]) =>
             Reg("@.check", stack'[N].n) \in P \/ Places(sb, Reg("@.check", stack'[N].n))
        /\ Pending(stack'[N + 1]) = {} /\ ~Looping(stack'[N + 1])

Accounts(N, P, T, after) ==
  /\ P \cup after \subseteq Pending(stack[N]) \cup Drawn(next_reg, next_reg')
  /\ P \cap after = {}
  /\ Pending(stack[N]) \subseteq P \cup after
  /\ \A l \in T : l \in P \cup after \/ l = RetLabel \/ Places(sb, l)

LEMMA LabelStep ==
  ASSUME LInv, phase = "generating", phase' = "generating",
         next_reg \in Nat, next_reg' \in Nat, next_reg <= next_reg',
         IsSeq(sb), NEW lines, NEW P, NEW T, Text(lines, P, T), BuilderAdd(lines),
         NEW N, NEW after, Turn(N, P, after), Accounts(N, P, T, after)
  PROVE  LInv'
<1> USE DEF Turn, Accounts
<1>1. PlacedDrawn /\ PendingFree /\ ChecksPlaced /\ TargetsKnown /\ PlacesOnce(sb)
  BY DEF LInv
<1>2. /\ PlacesOnce(lines) /\ IsSeq(lines)
      /\ \A l : Places(lines, l) <=> l \in P
      /\ \A l : Targets(lines, l) => l \in T
  BY Zenon DEF Text
<1>3. sb' = sb \o lines
  BY DEF BuilderAdd
<1>4. \A l : Places(sb', l) <=> Places(sb, l) \/ l \in P
  BY <1>2, <1>3, ConcatLines
<1>5. \A l : Targets(sb', l) => Targets(sb, l) \/ l \in T
  BY <1>2, <1>3, ConcatLines
<1>6. N \in 1 .. N /\ N \in 1 .. Len(stack)
  OBVIOUS
<1>7. \A l \in Pending(stack[N]) :
         /\ l \in Drawn(0, next_reg)
         /\ ~Places(sb, l)
         /\ \A j \in 1 .. N - 1 : l \notin Pending(stack[j])
  BY <1>1, <1>6 DEF PendingFree
<1>8. \A l \in Drawn(next_reg, next_reg') : ~Places(sb, l) /\ l \notin Drawn(0, next_reg)
  <2> TAKE l \in Drawn(next_reg, next_reg')
  <2>1. l[1] # "@start" /\ l[2] >= next_reg /\ l[2] \in Nat
    BY DEF Drawn
  <2>2. l # Name("@start") /\ l \notin Drawn(0, next_reg)
    BY <2>1 DEF Drawn, Name
  <2> QED
    BY <1>1, <2>2 DEF PlacedDrawn
<1>9. /\ Drawn(0, next_reg) \subseteq Drawn(0, next_reg')
      /\ Drawn(next_reg, next_reg') \subseteq Drawn(0, next_reg')
  BY DEF Drawn
<1>10. \A k \in 1 .. N - 1 : \A l \in Pending(stack[k]) :
         l \in Drawn(0, next_reg) /\ ~Places(sb, l)
  BY <1>1 DEF PendingFree
(* What the step handles is new to the text and to the frames below. *)
<1>11. \A l \in P \cup after :
         /\ l \in Drawn(0, next_reg')
         /\ ~Places(sb, l)
         /\ \A j \in 1 .. N - 1 : l \notin Pending(stack[j])
  BY <1>7, <1>8, <1>9, <1>10
<1>12. \A k \in 1 .. Len(stack') :
         \/ k \in 1 .. N - 1 /\ stack'[k] = stack[k]
         \/ k = N /\ Len(stack') = N + 1
         \/ k = N + 1 /\ Len(stack') = N + 1
  OBVIOUS
<1>13. \A k \in 1 .. Len(stack') : \A l \in Pending(stack'[k]) :
         \/ k \in 1 .. N - 1 /\ stack'[k] = stack[k] /\ l \in Pending(stack[k])
         \/ k = N /\ l \in after
  BY <1>12
<1>14. PlacesOnce(sb')
  <2>1. \A l : ~(Places(sb, l) /\ Places(lines, l))
    BY <1>2, <1>11
  <2> QED
    BY <1>1, <1>2, <1>3, <2>1, ConcatOnce
<1>15. PlacedDrawn'
  BY <1>1, <1>4, <1>9, <1>11 DEF PlacedDrawn
<1>16. PendingFree'
  <2> SUFFICES ASSUME NEW k \in 1 .. Len(stack'), NEW l \in Pending(stack'[k])
               PROVE  /\ l \in Drawn(0, next_reg')
                      /\ ~Places(sb', l)
                      /\ \A j \in 1 .. k - 1 : l \notin Pending(stack'[j])
    BY DEF PendingFree, Pending, PendingPrefixes
  <2>1. CASE k \in 1 .. N - 1 /\ stack'[k] = stack[k] /\ l \in Pending(stack[k])
    <3>1. l \in Drawn(0, next_reg) /\ ~Places(sb, l) /\ l \notin P
      BY <1>10, <1>11, <2>1
    <3>2. \A j \in 1 .. k - 1 : j \in 1 .. N - 1 /\ l \notin Pending(stack[j])
      <4>1. k \in 1 .. Len(stack)
        BY <2>1
      <4>2. \A j \in 1 .. k - 1 : l \notin Pending(stack[j])
        BY <1>1, <2>1, <4>1, Zenon DEF PendingFree
      <4>3. \A j \in 1 .. k - 1 : j \in 1 .. N - 1
        BY <2>1
      <4> QED
        BY <4>2, <4>3
    <3>3. \A j \in 1 .. k - 1 : l \notin Pending(stack'[j])
      <4> TAKE j \in 1 .. k - 1
      <4>1. stack'[j] = stack[j] /\ l \notin Pending(stack[j])
        BY <3>2
      <4> QED
        BY <4>1
    <3> QED
      BY <1>4, <1>9, <3>1, <3>3
  <2>2. CASE k = N /\ l \in after
    <3>1. l \notin P
      BY <2>2
    <3>2. \A j \in 1 .. k - 1 : l \notin Pending(stack'[j])
      BY <1>11, <2>2
    <3> QED
      BY <1>4, <1>11, <2>2, <3>1, <3>2
  <2> QED
    BY <1>13, <2>1, <2>2
<1>17. ChecksPlaced'
  <2> SUFFICES ASSUME NEW k \in 1 .. Len(stack'), Looping(stack'[k])
               PROVE  Places(sb', Reg("@.check", stack'[k].n))
    BY DEF ChecksPlaced, Looping, Reg
  <2>1. CASE k \in 1 .. N - 1 /\ stack'[k] = stack[k]
    BY <1>1, <1>4, <2>1 DEF ChecksPlaced
  <2> QED
    BY <1>4, <1>12, <2>1
<1>18. TargetsKnown'
  <2> SUFFICES ASSUME NEW l, Targets(sb', l)
               PROVE  \/ Places(sb', l) \/ l = RetLabel
                      \/ \E k \in 1 .. Len(stack') : l \in Pending(stack'[k])
    BY DEF TargetsKnown, Pending, PendingPrefixes
  <2>1. l \in after => \E k \in 1 .. Len(stack') : l \in Pending(stack'[k])
    <3> HAVE l \in after
    <3>1. N \in 1 .. Len(stack') /\ l \in Pending(stack'[N])
      OBVIOUS
    <3> QED
      BY <3>1
  <2>2. CASE l \in T
    BY <1>4, <2>1, <2>2
  <2>3. CASE Targets(sb, l)
    <3>1. CASE Places(sb, l) \/ l = RetLabel
      BY <1>4, <3>1
    <3>2. CASE \E k \in 1 .. Len(stack) : l \in Pending(stack[k])
      <4>1. PICK k \in 1 .. Len(stack) : l \in Pending(stack[k])
        BY <3>2
      <4>2. CASE k = N
        BY <1>4, <2>1, <4>1, <4>2
      <4>3. CASE k # N
        <5>1. k \in 1 .. N - 1 /\ k \in 1 .. Len(stack') /\ stack'[k] = stack[k]
          BY <4>3
        <5> QED
          BY <4>1, <5>1
      <4> QED
        BY <4>2, <4>3
    <3> QED
      BY <1>1, <2>3, <3>1, <3>2 DEF TargetsKnown
  <2> QED
    BY <1>5, <2>2, <2>3
<1> QED
  BY <1>14, <1>15, <1>16, <1>17, <1>18 DEF LInv, PlacesOnce

(* What the steps below have in common. *)
Running ==
  /\ IInv /\ LInv
  /\ phase = "generating" /\ phase' = "generating"
  /\ stack # << >>
  /\ next_reg \in Nat /\ next_reg' \in Nat /\ next_reg <= next_reg'

(* A label that may be jumped to now. *)
Known(l, labels) == l \in labels \/ l = RetLabel \/ Places(sb, l)

LEMMA StackTop ==
  ASSUME IInv, stack # << >>
  PROVE  /\ Len(stack) \in Nat \ {0} /\ Top = stack[Len(stack)]
         /\ stack \in Seq(FrameType) /\ IsSeq(sb)
         /\ Len(Front(stack)) = Len(stack) - 1
         /\ \A k \in 1 .. Len(stack) - 1 : Front(stack)[k] = stack[k]
<1>1. stack \in Seq(FrameType) /\ sb \in Seq(Line)
  BY DEF IInv, TypeOK
<1>2. IsSeq(sb)
  BY <1>1, Zenon DEF IsSeq
<1> QED
  BY <1>1, <1>2, FrontType DEF Top

LEMMA CallLabels ==
  ASSUME Running,
         NEW top, NEW node, NEW var, Call(top, node, var),
         NEW lines, NEW P, NEW T, Text(lines, P, T), BuilderAdd(lines),
         P \cup Pending(top) \subseteq Pending(Top) \cup Drawn(next_reg, next_reg'),
         P \cap Pending(top) = {},
         Pending(Top) \subseteq P \cup Pending(top),
         \A l \in T : Known(l, P \cup Pending(top)),
         Looping(top) => Reg("@.check", top.n) \in P \/ Places(sb, Reg("@.check", top.n))
  PROVE  LInv'
<1> DEFINE N == Len(stack)
           new == Frame(node, var)
           S == FrameType \cup {top, new}
<1>1. N \in Nat \ {0} /\ Top = stack[N] /\ stack \in Seq(FrameType) /\ IsSeq(sb)
  BY StackTop DEF Running
<1>2. top \in S /\ new \in S /\ FrameType \subseteq S
  OBVIOUS
<1>3. stack' = Append(Append(Front(stack), top), new)
  BY DEF Call
<1>4. new.pc = "enter"
  BY DEF Frame
<1> HIDE DEF N, new, S
<1>5. stack \in Seq(S)
  BY <1>1, <1>2, SeqGrows
<1>6. /\ Len(stack') = N + 1 /\ stack'[N] = top /\ stack'[N + 1] = new
      /\ \A k \in 1 .. N - 1 : stack'[k] = stack[k]
  BY <1>2, <1>3, <1>5, CallStack DEF Running, N
<1>7. Pending(new) = {} /\ ~Looping(new)
  BY <1>4 DEF Pending, PendingPrefixes, Looping
<1>8. N = Len(stack)
  BY DEF N
<1>9. Accounts(N, P, T, Pending(top))
  BY <1>1 DEF Accounts, Known
<1>10. Turn(N, P, Pending(top))
  BY <1>1, <1>6, <1>7, <1>8 DEF Turn
<1> QED
  BY <1>1, <1>9, <1>10, LabelStep DEF Running

LEMMA LeaveLabels ==
  ASSUME Running, stack' = Front(stack),
         NEW lines, NEW T, Text(lines, Pending(Top), T), BuilderAdd(lines),
         \A l \in T : Known(l, Pending(Top))
  PROVE  LInv'
<1> DEFINE N == Len(stack)
<1>1. /\ N \in Nat \ {0} /\ Top = stack[N] /\ IsSeq(sb)
      /\ Len(stack') = N - 1
      /\ \A k \in 1 .. N - 1 : stack'[k] = stack[k]
  BY StackTop DEF Running
<1>2. Accounts(N, Pending(Top), T, {})
  BY <1>1 DEF Accounts, Known
<1>3. Turn(N, Pending(Top), {})
  BY <1>1 DEF Turn
<1> QED
  BY <1>1, <1>2, <1>3, LabelStep DEF Running

(* Steps that neither place a label nor jump. *)
LEMMA QuietCall ==
  ASSUME Running, NEW top, NEW node, NEW var, Call(top, node, var), sb' = sb,
         Pending(top) = Pending(Top),
         Looping(top) => Looping(Top) /\ top.n = Top.n
  PROVE  LInv'
<1>1. BuilderAdd(<< >>)
  BY ConcatEmptySeq DEF Running, IInv, TypeOK, BuilderAdd
<1>2. Looping(top) => Places(sb, Reg("@.check", top.n))
  <2> HAVE Looping(top)
  <2>1. Len(stack) \in 1 .. Len(stack) /\ Top = stack[Len(stack)]
    BY StackTop DEF Running
  <2>2. ChecksPlaced /\ Looping(stack[Len(stack)])
    BY <2>1 DEF Running, LInv
  <2> QED
    BY <2>1, <2>2 DEF ChecksPlaced
<1>3. /\ {} \cup Pending(top) \subseteq Pending(Top) \cup Drawn(next_reg, next_reg')
      /\ {} \cap Pending(top) = {}
      /\ Pending(Top) \subseteq {} \cup Pending(top)
      /\ \A l \in {} : Known(l, {} \cup Pending(top))
      /\ Looping(top) => Reg("@.check", top.n) \in {} \/ Places(sb, Reg("@.check", top.n))
  BY <1>2
<1>4. Text(<< >>, {}, {})
  BY NoText
<1> QED
  BY <1>1, <1>3, <1>4, CallLabels

LEMMA QuietLeave ==
  ASSUME Running, stack' = Front(stack), NEW lines, Text(lines, {}, {}),
         BuilderAdd(lines), Pending(Top) = {}
  PROVE  LInv'
BY LeaveLabels

(* What the frame that runs may rely on. *)
LEMMA TopLabels ==
  ASSUME Running
  PROVE  /\ Pending(Top) \subseteq Drawn(0, next_reg)
         /\ Looping(Top) => Places(sb, Reg("@.check", Top.n))
<1>1. Len(stack) \in 1 .. Len(stack) /\ Top = stack[Len(stack)]
  BY StackTop DEF Running
<1> QED
  BY <1>1, Zenon DEF Running, LInv, PendingFree, ChecksPlaced

-----------------------------------------------------------------------------
(***************************************************************************)
(* What the frames have to add.                                            *)
(***************************************************************************)
LEMMA PendingIs ==
  ASSUME NEW f
  PROVE  /\ f.node.kind = "NKSt_IF" =>
              /\ f.pc = "then" => Pending(f) = {Reg("@.else", f.n), Reg("@.endif", f.n)}
              /\ f.pc = "else" => Pending(f) = {Reg("@.endif", f.n)}
              /\ f.pc = "cond" => Pending(f) = {}
         /\ f.node.kind \in Loops =>
              /\ f.pc = "init" => Pending(f) = {Reg("@.check", f.n), Reg("@.loop", f.n),
                                                Reg("@.endloop", f.n)}
              /\ f.pc = "cond" => Pending(f) = {Reg("@.loop", f.n), Reg("@.endloop", f.n)}
              /\ f.pc \in {"body", "post"} => Pending(f) = {Reg("@.endloop", f.n)}
         /\ f.pc = "enter" => Pending(f) = {}
         /\ f.node.kind \notin Loops \cup {"NKSt_IF"} => Pending(f) = {}
         /\ f.node.kind \notin Loops => ~Looping(f)
BY DEF Pending, PendingPrefixes, Loops, Looping

LEMMA RegDrawn ==
  ASSUME NEW m \in Nat, NEW n \in Nat, NEW i \in Nat, m <= i, i < n,
         NEW p \in LabelPrefixes \ {"@start", "@.ret"}
  PROVE  Reg(p, i) \in Drawn(m, n)
BY DEF Reg, Drawn

LEMMA RegsDiffer ==
  \A p, q, n : p # q => Reg(p, n) # Reg(q, n)
BY DEF Reg

-----------------------------------------------------------------------------
(***************************************************************************)
(* The actions that call.                                                  *)
(***************************************************************************)
LEMMA BlockNextLabels == IInv /\ LInv /\ BlockNext => LInv'
<1> SUFFICES ASSUME IInv, LInv, BlockNext PROVE LInv'
  OBVIOUS
<1> DEFINE top == [Top EXCEPT !.pc = "list", !.i = @ + 1]
<1>1. phase = "generating" /\ stack # << >> /\ Top.node.kind = "NKSt_BLOCK"
  BY DEF BlockNext, At
<1>2. Running /\ sb' = sb
  BY <1>1 DEF BlockNext, Running, Draw, IInv, TypeOK
<1>3. top.node = Top.node
  OBVIOUS
<1> HIDE DEF top
<1>4. Pending(top) = Pending(Top) /\ (Looping(top) => Looping(Top) /\ top.n = Top.n)
  BY <1>1, <1>3, PendingIs, Zenon DEF Loops, Looping
<1>5. Call(top, Top.node.list[Top.i + 1], None)
  BY DEF BlockNext, top
<1> QED
  BY <1>2, <1>4, <1>5, QuietCall

LEMMA ReturnValueLabels == IInv /\ LInv /\ ReturnValue => LInv'
<1> SUFFICES ASSUME IInv, LInv, ReturnValue PROVE LInv'
  OBVIOUS
<1> DEFINE top == [Top EXCEPT !.pc = "value", !.n = next_reg]
<1>1. phase = "generating" /\ stack # << >> /\ Top.node.kind = "NKSt_RETURN"
  BY DEF ReturnValue, At
<1>2. Running /\ sb' = sb
  BY <1>1 DEF ReturnValue, Running, Draw, IInv, TypeOK
<1>3. top.node = Top.node
  BY <1>1, TopType DEF FrameType, PCs
<1> HIDE DEF top
<1>4. Pending(top) = Pending(Top) /\ (Looping(top) => Looping(Top) /\ top.n = Top.n)
  BY <1>1, <1>3, PendingIs, Zenon DEF Loops, Looping
<1>5. Call(top, Top.node.expr, Reg(".tmp", next_reg))
  BY DEF ReturnValue, top
<1> QED
  BY <1>2, <1>4, <1>5, QuietCall

LEMMA StmtExprValueLabels == IInv /\ LInv /\ StmtExprValue => LInv'
<1> SUFFICES ASSUME IInv, LInv, StmtExprValue PROVE LInv'
  OBVIOUS
<1> DEFINE top == [Top EXCEPT !.pc = "value"]
<1>1. phase = "generating" /\ stack # << >> /\ Top.node.kind = "NKSt_EXPR"
  BY DEF StmtExprValue, At
<1>2. Running /\ sb' = sb
  BY <1>1 DEF StmtExprValue, Running, Draw, IInv, TypeOK
<1>3. top.node = Top.node
  BY <1>1, TopType DEF FrameType, PCs
<1> HIDE DEF top
<1>4. Pending(top) = Pending(Top) /\ (Looping(top) => Looping(Top) /\ top.n = Top.n)
  BY <1>1, <1>3, PendingIs, Zenon DEF Loops, Looping
<1>5. Call(top, Top.node.expr, Name(".sexpr"))
  BY DEF StmtExprValue, top
<1> QED
  BY <1>2, <1>4, <1>5, QuietCall

LEMMA IfCondLabels == IInv /\ LInv /\ IfCond => LInv'
<1> SUFFICES ASSUME IInv, LInv, IfCond PROVE LInv'
  OBVIOUS
<1> DEFINE top == [Top EXCEPT !.pc = "cond", !.m = next_reg]
<1>1. phase = "generating" /\ stack # << >> /\ Top.node.kind = "NKSt_IF" /\ Top.pc = "enter"
  BY DEF IfCond, At
<1>2. Running /\ sb' = sb
  BY <1>1 DEF IfCond, Running, Draw, IInv, TypeOK
<1>3. top.node = Top.node /\ top.pc = "cond"
  BY <1>1, TopType DEF FrameType, PCs
<1> HIDE DEF top
<1>4. Pending(top) = Pending(Top) /\ (Looping(top) => Looping(Top) /\ top.n = Top.n)
  BY <1>1, <1>3, PendingIs, Zenon DEF Loops, Looping
<1>5. Call(top, Top.node.cond, Reg(".cond", next_reg))
  BY DEF IfCond, top
<1> QED
  BY <1>2, <1>4, <1>5, QuietCall

LEMMA ForPostLabels == IInv /\ LInv /\ ForPost => LInv'
<1> SUFFICES ASSUME IInv, LInv, ForPost PROVE LInv'
  OBVIOUS
<1> DEFINE top == [Top EXCEPT !.pc = "post"]
<1>1. phase = "generating" /\ stack # << >> /\ Top.node.kind = "NKSt_FOR" /\ Top.pc = "body"
  BY DEF ForPost, At
<1>2. Running /\ sb' = sb
  BY <1>1 DEF ForPost, Running, Draw, IInv, TypeOK
<1>3. top.node = Top.node /\ top.pc = "post" /\ top.n = Top.n
  BY <1>1, TopType DEF FrameType, PCs
<1> HIDE DEF top
<1>4. Pending(top) = Pending(Top) /\ (Looping(top) => Looping(Top) /\ top.n = Top.n)
  BY <1>1, <1>3, PendingIs, Zenon DEF Loops, Looping
<1>5. Call(top, Top.node.post, Name(".post"))
  BY DEF ForPost, top
<1> QED
  BY <1>2, <1>4, <1>5, QuietCall

LEMMA UnaopOperandLabels == IInv /\ LInv /\ UnaopOperand => LInv'
<1> SUFFICES ASSUME IInv, LInv, UnaopOperand PROVE LInv'
  OBVIOUS
<1> DEFINE top == [Top EXCEPT !.pc = "operand", !.n = next_reg]
<1>1. phase = "generating" /\ stack # << >> /\ Top.node.kind = "NKEx_UNAOP"
  BY DEF UnaopOperand, At
<1>2. Running /\ sb' = sb
  BY <1>1 DEF UnaopOperand, Running, Draw, IInv, TypeOK
<1>3. top.node = Top.node
  BY <1>1, TopType DEF FrameType, PCs
<1> HIDE DEF top
<1>4. Pending(top) = Pending(Top) /\ (Looping(top) => Looping(Top) /\ top.n = Top.n)
  BY <1>1, <1>3, PendingIs, Zenon DEF Loops, Looping
<1>5. Call(top, Top.node.expr, Reg(".tmp.una", next_reg))
  BY DEF UnaopOperand, top
<1> QED
  BY <1>2, <1>4, <1>5, QuietCall

LEMMA AssRightLabels == IInv /\ LInv /\ AssRight => LInv'
<1> SUFFICES ASSUME IInv, LInv, AssRight PROVE LInv'
  OBVIOUS
<1> DEFINE top == [Top EXCEPT !.pc = "assigned", !.n = next_reg]
<1>1. phase = "generating" /\ stack # << >> /\ Top.node.kind = "NKEx_BINOP"
  BY DEF AssRight, At
<1>2. Running /\ sb' = sb
  BY <1>1 DEF AssRight, Running, Draw, IInv, TypeOK
<1>3. top.node = Top.node
  BY <1>1, TopType DEF FrameType, PCs
<1> HIDE DEF top
<1>4. Pending(top) = Pending(Top) /\ (Looping(top) => Looping(Top) /\ top.n = Top.n)
  BY <1>1, <1>3, PendingIs, Zenon DEF Loops, Looping
<1>5. Call(top, Top.node.right, Reg(".tmp.ass", next_reg))
  BY DEF AssRight, top
<1> QED
  BY <1>2, <1>4, <1>5, QuietCall

LEMMA BinopLeftLabels == IInv /\ LInv /\ BinopLeft => LInv'
<1> SUFFICES ASSUME IInv, LInv, BinopLeft PROVE LInv'
  OBVIOUS
<1> DEFINE top == [Top EXCEPT !.pc = "left", !.n = next_reg]
<1>1. phase = "generating" /\ stack # << >> /\ Top.node.kind = "NKEx_BINOP"
  BY DEF BinopLeft, At
<1>2. Running /\ sb' = sb
  BY <1>1 DEF BinopLeft, Running, Draw, IInv, TypeOK
<1>3. top.node = Top.node
  BY <1>1, TopType DEF FrameType, PCs
<1> HIDE DEF top
<1>4. Pending(top) = Pending(Top) /\ (Looping(top) => Looping(Top) /\ top.n = Top.n)
  BY <1>1, <1>3, PendingIs, Zenon DEF Loops, Looping
<1>5. Call(top, Top.node.left, Reg(".tmp.l", next_reg))
  BY DEF BinopLeft, top
<1> QED
  BY <1>2, <1>4, <1>5, QuietCall

LEMMA BinopRightLabels == IInv /\ LInv /\ BinopRight => LInv'
<1> SUFFICES ASSUME IInv, LInv, BinopRight PROVE LInv'
  OBVIOUS
<1> DEFINE top == [Top EXCEPT !.pc = "right", !.m = next_reg]
<1>1. phase = "generating" /\ stack # << >> /\ Top.node.kind = "NKEx_BINOP"
  BY DEF BinopRight, At
<1>2. Running /\ sb' = sb
  BY <1>1 DEF BinopRight, Running, Draw, IInv, TypeOK
<1>3. top.node = Top.node
  BY <1>1, TopType DEF FrameType, PCs
<1> HIDE DEF top
<1>4. Pending(top) = Pending(Top) /\ (Looping(top) => Looping(Top) /\ top.n = Top.n)
  BY <1>1, <1>3, PendingIs, Zenon DEF Loops, Looping
<1>5. Call(top, Top.node.right, Reg(".tmp.r", next_reg))
  BY DEF BinopRight, top
<1> QED
  BY <1>2, <1>4, <1>5, QuietCall

LEMMA IfThenLabels == IInv /\ LInv /\ IfThen => LInv'
<1> SUFFICES ASSUME IInv, LInv, IfThen PROVE LInv'
  OBVIOUS
<1> DEFINE top == [Top EXCEPT !.pc = "then", !.n = next_reg]
           lines == <<Jnz(Reg(".cond", Top.m), Reg("@.if", next_reg), Reg("@.else", next_reg)),
                     Label(Reg("@.if", next_reg))>>
           P == {Reg("@.if", next_reg)}
           T == {Reg("@.if", next_reg), Reg("@.else", next_reg)}
<1>1. phase = "generating" /\ stack # << >> /\ Top.node.kind = "NKSt_IF" /\ Top.pc = "cond"
  BY DEF IfThen, At
<1>2. Running
  BY <1>1 DEF IfThen, Running, Draw, IInv, TypeOK
<1>3. top.node = Top.node /\ top.pc = "then" /\ top.n = next_reg
  BY <1>1, <1>2, TopType DEF FrameType, PCs, Running
<1>4. Text(lines, P, T)
  <2>1. Text(lines, {} \cup P, T \cup {})
    BY LabelText, JumpText, PairText
  <2> QED
    BY <2>1
<1>5. Pending(Top) = {} /\ Pending(top) = {Reg("@.else", next_reg), Reg("@.endif", next_reg)}
  BY <1>1, <1>3, PendingIs DEF Loops
<1>6. Call(top, Top.node.block, None) /\ BuilderAdd(lines)
  BY DEF IfThen
<1> HIDE DEF top, lines
<1>7. \A p \in {"@.if", "@.else", "@.endif"} : Reg(p, next_reg) \in Drawn(next_reg, next_reg')
  BY <1>2, RegDrawn DEF Running, IfThen, Draw, LabelPrefixes
<1>8. P \cap Pending(top) = {} /\ ~Looping(top)
  BY <1>1, <1>3, <1>5, RegsDiffer, PendingIs DEF Loops
<1>9. \A l \in T : Known(l, P \cup Pending(top))
  BY <1>5 DEF Known
<1>10. P \cup Pending(top) \subseteq Pending(Top) \cup Drawn(next_reg, next_reg')
  BY <1>5, <1>7
<1>11. Pending(Top) \subseteq P \cup Pending(top)
  BY <1>5
<1> HIDE DEF P, T
<1> QED
  BY <1>2, <1>4, <1>6, <1>8, <1>9, <1>10, <1>11, CallLabels

LEMMA IfElseLabels == IInv /\ LInv /\ IfElse => LInv'
<1> SUFFICES ASSUME IInv, LInv, IfElse PROVE LInv'
  OBVIOUS
<1> DEFINE top == [Top EXCEPT !.pc = "else"]
           lines == JmpUnlessTerminated(Reg("@.endif", Top.n)) \o <<Label(Reg("@.else", Top.n))>>
           P == {Reg("@.else", Top.n)}
           T == {Reg("@.endif", Top.n)}
<1>1. phase = "generating" /\ stack # << >> /\ Top.node.kind = "NKSt_IF" /\ Top.pc = "then"
  BY DEF IfElse, At
<1>2. Running
  BY <1>1 DEF IfElse, Running, Draw, IInv, TypeOK
<1>3. top.node = Top.node /\ top.pc = "else" /\ top.n = Top.n
  BY <1>1, <1>2, TopType DEF FrameType, PCs, Running
<1>4. Text(lines, P, T)
  BY BranchText
<1>5. Pending(Top) = {Reg("@.else", Top.n), Reg("@.endif", Top.n)} /\ Pending(top) = {Reg("@.endif", Top.n)}
  BY <1>1, <1>3, PendingIs DEF Loops
<1>6. Call(top, Top.node.ifnot, None) /\ BuilderAdd(lines)
  BY DEF IfElse
<1> HIDE DEF top, lines
<1>8. P \cap Pending(top) = {} /\ ~Looping(top)
  BY <1>1, <1>3, <1>5, RegsDiffer, PendingIs DEF Loops
<1>9. \A l \in T : Known(l, P \cup Pending(top))
  BY <1>5 DEF Known
<1>10. P \cup Pending(top) \subseteq Pending(Top) \cup Drawn(next_reg, next_reg')
  BY <1>5
<1>11. Pending(Top) \subseteq P \cup Pending(top)
  BY <1>5
<1> HIDE DEF P, T
<1> QED
  BY <1>2, <1>4, <1>6, <1>8, <1>9, <1>10, <1>11, CallLabels

LEMMA ForInitLabels == IInv /\ LInv /\ ForInit => LInv'
<1> SUFFICES ASSUME IInv, LInv, ForInit PROVE LInv'
  OBVIOUS
<1> DEFINE top == [Top EXCEPT !.pc = "init", !.n = next_reg]
           lines == <<Label(Reg("@.init", next_reg))>>
           P == {Reg("@.init", next_reg)}
           T == {}
<1>1. phase = "generating" /\ stack # << >> /\ Top.node.kind = "NKSt_FOR" /\ Top.pc = "enter"
  BY DEF ForInit, At
<1>2. Running
  BY <1>1 DEF ForInit, Running, Draw, IInv, TypeOK
<1>3. top.node = Top.node /\ top.pc = "init" /\ top.n = next_reg
  BY <1>1, <1>2, TopType DEF FrameType, PCs, Running
<1>4. Text(lines, P, T)
  BY LabelText
<1>5. Pending(Top) = {} /\ Pending(top) = {Reg("@.check", next_reg), Reg("@.loop", next_reg), Reg("@.endloop", next_reg)}
  BY <1>1, <1>3, PendingIs DEF Loops
<1>6. Call(top, Top.node.init, Name(".init")) /\ BuilderAdd(lines)
  BY DEF ForInit
<1> HIDE DEF top, lines
<1>7. \A p \in {"@.init", "@.check", "@.loop", "@.endloop"} :
        Reg(p, next_reg) \in Drawn(next_reg, next_reg')
  BY <1>2, RegDrawn DEF Running, ForInit, Draw, LabelPrefixes
<1>8. P \cap Pending(top) = {} /\ ~Looping(top)
  BY <1>3, <1>5, RegsDiffer DEF Looping
<1>9. \A l \in T : Known(l, P \cup Pending(top))
  BY <1>5 DEF Known
<1>10. P \cup Pending(top) \subseteq Pending(Top) \cup Drawn(next_reg, next_reg')
  BY <1>5, <1>7
<1>11. Pending(Top) \subseteq P \cup Pending(top)
  BY <1>5
<1> HIDE DEF P, T
<1> QED
  BY <1>2, <1>4, <1>6, <1>8, <1>9, <1>10, <1>11, CallLabels

LEMMA ForCheckLabels == IInv /\ LInv /\ ForCheck => LInv'
<1> SUFFICES ASSUME IInv, LInv, ForCheck PROVE LInv'
  OBVIOUS
<1> DEFINE top == [Top EXCEPT !.pc = "cond", !.m = next_reg]
           lines == <<Label(Reg("@.check", Top.n))>>
           P == {Reg("@.check", Top.n)}
           T == {}
<1>1. phase = "generating" /\ stack # << >> /\ Top.node.kind = "NKSt_FOR" /\ Top.pc = "init"
  BY DEF ForCheck, At
<1>2. Running
  BY <1>1 DEF ForCheck, Running, Draw, IInv, TypeOK
<1>3. top.node = Top.node /\ top.pc = "cond" /\ top.n = Top.n
  BY <1>1, <1>2, TopType DEF FrameType, PCs, Running
<1>4. Text(lines, P, T)
  BY LabelText
<1>5. Pending(Top) = {Reg("@.check", Top.n), Reg("@.loop", Top.n), Reg("@.endloop", Top.n)} /\ Pending(top) = {Reg("@.loop", Top.n), Reg("@.endloop", Top.n)}
  BY <1>1, <1>3, PendingIs DEF Loops
<1>6. Call(top, Top.node.cond, Reg(".cond", next_reg)) /\ BuilderAdd(lines)
  BY DEF ForCheck
<1> HIDE DEF top, lines
<1>8. P \cap Pending(top) = {} /\ Reg("@.check", top.n) \in P
  BY <1>3, <1>5, RegsDiffer
<1>9. \A l \in T : Known(l, P \cup Pending(top))
  BY <1>5 DEF Known
<1>10. P \cup Pending(top) \subseteq Pending(Top) \cup Drawn(next_reg, next_reg')
  BY <1>5
<1>11. Pending(Top) \subseteq P \cup Pending(top)
  BY <1>5
<1> HIDE DEF P, T
<1> QED
  BY <1>2, <1>4, <1>6, <1>8, <1>9, <1>10, <1>11, CallLabels

LEMMA ForBodyLabels == IInv /\ LInv /\ ForBody => LInv'
<1> SUFFICES ASSUME IInv, LInv, ForBody PROVE LInv'
  OBVIOUS
<1> DEFINE top == [Top EXCEPT !.pc = "body"]
           lines == <<Jnz(Reg(".cond", Top.m), Reg("@.loop", Top.n), Reg("@.endloop", Top.n)),
                     Label(Reg("@.loop", Top.n))>>
           P == {Reg("@.loop", Top.n)}
           T == {Reg("@.loop", Top.n), Reg("@.endloop", Top.n)}
<1>1. phase = "generating" /\ stack # << >> /\ Top.node.kind = "NKSt_FOR" /\ Top.pc = "cond"
  BY DEF ForBody, LoopBody, At
<1>2. Running
  BY <1>1 DEF ForBody, LoopBody, Running, Draw, IInv, TypeOK
<1>3. top.node = Top.node /\ top.pc = "body" /\ top.n = Top.n
  BY <1>1, <1>2, TopType DEF FrameType, PCs, Running
<1>4. Text(lines, P, T)
  <2>1. Text(lines, {} \cup P, T \cup {})
    BY LabelText, JumpText, PairText
  <2> QED
    BY <2>1
<1>5. Pending(Top) = {Reg("@.loop", Top.n), Reg("@.endloop", Top.n)} /\ Pending(top) = {Reg("@.endloop", Top.n)}
  BY <1>1, <1>3, PendingIs DEF Loops
<1>6. Call(top, Top.node.block, None) /\ BuilderAdd(lines)
  BY DEF ForBody, LoopBody
<1> HIDE DEF top, lines
<1>8. P \cap Pending(top) = {} /\ Places(sb, Reg("@.check", top.n))
  BY <1>1, <1>2, <1>3, <1>5, RegsDiffer, TopLabels DEF Looping, Loops
<1>9. \A l \in T : Known(l, P \cup Pending(top))
  BY <1>5 DEF Known
<1>10. P \cup Pending(top) \subseteq Pending(Top) \cup Drawn(next_reg, next_reg')
  BY <1>5
<1>11. Pending(Top) \subseteq P \cup Pending(top)
  BY <1>5
<1> HIDE DEF P, T
<1> QED
  BY <1>2, <1>4, <1>6, <1>8, <1>9, <1>10, <1>11, CallLabels

LEMMA WhileBodyLabels == IInv /\ LInv /\ WhileBody => LInv'
<1> SUFFICES ASSUME IInv, LInv, WhileBody PROVE LInv'
  OBVIOUS
<1> DEFINE top == [Top EXCEPT !.pc = "body"]
           lines == <<Jnz(Reg(".cond", Top.m), Reg("@.loop", Top.n), Reg("@.endloop", Top.n)),
                     Label(Reg("@.loop", Top.n))>>
           P == {Reg("@.loop", Top.n)}
           T == {Reg("@.loop", Top.n), Reg("@.endloop", Top.n)}
<1>1. phase = "generating" /\ stack # << >> /\ Top.node.kind = "NKSt_FOR_WHILE" /\ Top.pc = "cond"
  BY DEF WhileBody, LoopBody, At
<1>2. Running
  BY <1>1 DEF WhileBody, LoopBody, Running, Draw, IInv, TypeOK
<1>3. top.node = Top.node /\ top.pc = "body" /\ top.n = Top.n
  BY <1>1, <1>2, TopType DEF FrameType, PCs, Running
<1>4. Text(lines, P, T)
  <2>1. Text(lines, {} \cup P, T \cup {})
    BY LabelText, JumpText, PairText
  <2> QED
    BY <2>1
<1>5. Pending(Top) = {Reg("@.loop", Top.n), Reg("@.endloop", Top.n)} /\ Pending(top) = {Reg("@.endloop", Top.n)}
  BY <1>1, <1>3, PendingIs DEF Loops
<1>6. Call(top, Top.node.block, None) /\ BuilderAdd(lines)
  BY DEF WhileBody, LoopBody
<1> HIDE DEF top, lines
<1>8. P \cap Pending(top) = {} /\ Places(sb, Reg("@.check", top.n))
  BY <1>1, <1>2, <1>3, <1>5, RegsDiffer, TopLabels DEF Looping, Loops
<1>9. \A l \in T : Known(l, P \cup Pending(top))
  BY <1>5 DEF Known
<1>10. P \cup Pending(top) \subseteq Pending(Top) \cup Drawn(next_reg, next_reg')
  BY <1>5
<1>11. Pending(Top) \subseteq P \cup Pending(top)
  BY <1>5
<1> HIDE DEF P, T
<1> QED
  BY <1>2, <1>4, <1>6, <1>8, <1>9, <1>10, <1>11, CallLabels

LEMMA WhileCheckLabels == IInv /\ LInv /\ WhileCheck => LInv'
<1> SUFFICES ASSUME IInv, LInv, WhileCheck PROVE LInv'
  OBVIOUS
<1> DEFINE top == [Top EXCEPT !.pc = "cond", !.n = next_reg, !.m = next_reg + 1]
           lines == <<Label(Reg("@.check", next_reg))>>
           P == {Reg("@.check", next_reg)}
           T == {}
<1>1. phase = "generating" /\ stack # << >> /\ Top.node.kind = "NKSt_FOR_WHILE" /\ Top.pc = "enter"
  BY DEF WhileCheck, At
<1>2. Running
  BY <1>1 DEF WhileCheck, Running, Draw, IInv, TypeOK
<1>3. top.node = Top.node /\ top.pc = "cond" /\ top.n = next_reg
  BY <1>1, <1>2, TopType DEF FrameType, PCs, Running
<1>4. Text(lines, P, T)
  BY LabelText
<1>5. Pending(Top) = {} /\ Pending(top) = {Reg("@.loop", next_reg), Reg("@.endloop", next_reg)}
  BY <1>1, <1>3, PendingIs DEF Loops
<1>6. Call(top, Top.node.cond, Reg(".cond", next_reg + 1)) /\ BuilderAdd(lines)
  BY DEF WhileCheck
<1> HIDE DEF top, lines
<1>7. \A p \in {"@.check", "@.loop", "@.endloop"} :
        Reg(p, next_reg) \in Drawn(next_reg, next_reg')
  BY <1>2, RegDrawn DEF Running, WhileCheck, Draw, LabelPrefixes
<1>8. P \cap Pending(top) = {} /\ Reg("@.check", top.n) \in P
  BY <1>3, <1>5, RegsDiffer
<1>9. \A l \in T : Known(l, P \cup Pending(top))
  BY <1>5 DEF Known
<1>10. P \cup Pending(top) \subseteq Pending(Top) \cup Drawn(next_reg, next_reg')
  BY <1>5, <1>7
<1>11. Pending(Top) \subseteq P \cup Pending(top)
  BY <1>5
<1> HIDE DEF P, T
<1> QED
  BY <1>2, <1>4, <1>6, <1>8, <1>9, <1>10, <1>11, CallLabels

-----------------------------------------------------------------------------
(***************************************************************************)
(* The actions that return.                                                *)
(***************************************************************************)
LEMMA BlockEndLabels == IInv /\ LInv /\ BlockEnd => LInv'
<1> SUFFICES ASSUME IInv, LInv, BlockEnd PROVE LInv'
  OBVIOUS
<1>1. phase = "generating" /\ stack # << >> /\ Top.node.kind = "NKSt_BLOCK"
  BY DEF BlockEnd, At
<1>2. Running /\ stack' = Front(stack)
  BY <1>1 DEF BlockEnd, LeaveStmt, LeaveExpr, Running, IInv, TypeOK
<1>3. Pending(Top) = {}
  BY <1>1, PendingIs DEF Loops
<1>4. \E lines : Text(lines, {}, {}) /\ BuilderAdd(lines)
  BY NoText, ConcatEmptySeq DEF BlockEnd, BuilderAdd, IInv, TypeOK
<1> QED
  BY <1>2, <1>3, <1>4, QuietLeave

LEMMA BlockTerminatedLabels == IInv /\ LInv /\ BlockTerminated => LInv'
<1> SUFFICES ASSUME IInv, LInv, BlockTerminated PROVE LInv'
  OBVIOUS
<1>1. phase = "generating" /\ stack # << >> /\ Top.node.kind = "NKSt_BLOCK"
  BY DEF BlockTerminated, At
<1>2. Running /\ stack' = Front(stack)
  BY <1>1 DEF BlockTerminated, LeaveStmt, LeaveExpr, Running, IInv, TypeOK
<1>3. Pending(Top) = {}
  BY <1>1, PendingIs DEF Loops
<1>4. \E lines : Text(lines, {}, {}) /\ BuilderAdd(lines)
  BY NoText, ConcatEmptySeq DEF BlockTerminated, BuilderAdd, IInv, TypeOK
<1> QED
  BY <1>2, <1>3, <1>4, QuietLeave

LEMMA StmtExprEndLabels == IInv /\ LInv /\ StmtExprEnd => LInv'
<1> SUFFICES ASSUME IInv, LInv, StmtExprEnd PROVE LInv'
  OBVIOUS
<1>1. phase = "generating" /\ stack # << >> /\ Top.node.kind = "NKSt_EXPR"
  BY DEF StmtExprEnd, At
<1>2. Running /\ stack' = Front(stack)
  BY <1>1 DEF StmtExprEnd, LeaveStmt, LeaveExpr, Running, IInv, TypeOK
<1>3. Pending(Top) = {}
  BY <1>1, PendingIs DEF Loops
<1>4. \E lines : Text(lines, {}, {}) /\ BuilderAdd(lines)
  BY NoText, ConcatEmptySeq DEF StmtExprEnd, BuilderAdd, IInv, TypeOK
<1> QED
  BY <1>2, <1>3, <1>4, QuietLeave

LEMMA ExprLitLabels == IInv /\ LInv /\ ExprLit => LInv'
<1> SUFFICES ASSUME IInv, LInv, ExprLit PROVE LInv'
  OBVIOUS
<1>1. phase = "generating" /\ stack # << >> /\ Top.node.kind = "NKEx_LIT"
  BY DEF ExprLit, At
<1>2. Running /\ stack' = Front(stack)
  BY <1>1 DEF ExprLit, LeaveStmt, LeaveExpr, Running, IInv, TypeOK
<1>3. Pending(Top) = {}
  BY <1>1, PendingIs DEF Loops
<1>4. \E lines : Text(lines, {}, {}) /\ BuilderAdd(lines)
  <2>1. /\ Plain(Ins("loadw", Top.var, <<Var(Top.node.str)>>))
        /\ Plain(Ins("copy", Top.var, <<Imm(Top.node.str)>>))
    BY LineKinds DEF Plain
  <2> QED
    BY <2>1, PlainText DEF ExprLit
<1> QED
  BY <1>2, <1>3, <1>4, QuietLeave

LEMMA UnaopResultLabels == IInv /\ LInv /\ UnaopResult => LInv'
<1> SUFFICES ASSUME IInv, LInv, UnaopResult PROVE LInv'
  OBVIOUS
<1>1. phase = "generating" /\ stack # << >> /\ Top.node.kind = "NKEx_UNAOP"
  BY DEF UnaopResult, At
<1>2. Running /\ stack' = Front(stack)
  BY <1>1 DEF UnaopResult, LeaveStmt, LeaveExpr, Running, IInv, TypeOK
<1>3. Pending(Top) = {}
  BY <1>1, PendingIs DEF Loops
<1>4. \E lines : Text(lines, {}, {}) /\ BuilderAdd(lines)
  <2>1. /\ Plain(Ins("mul", Top.var, <<Reg(".tmp.una", Top.n), Imm(-1)>>))
        /\ Plain(Ins("loadw", Top.var, <<Reg(".tmp.una", Top.n)>>))
    BY LineKinds DEF Plain
  <2> QED
    BY <2>1, PlainText DEF UnaopResult
<1> QED
  BY <1>2, <1>3, <1>4, QuietLeave

LEMMA AssStoreLabels == IInv /\ LInv /\ AssStore => LInv'
<1> SUFFICES ASSUME IInv, LInv, AssStore PROVE LInv'
  OBVIOUS
<1>1. phase = "generating" /\ stack # << >> /\ Top.node.kind = "NKEx_BINOP"
  BY DEF AssStore, At
<1>2. Running /\ stack' = Front(stack)
  BY <1>1 DEF AssStore, LeaveStmt, LeaveExpr, Running, IInv, TypeOK
<1>3. Pending(Top) = {}
  BY <1>1, PendingIs DEF Loops
<1>4. \E lines : Text(lines, {}, {}) /\ BuilderAdd(lines)
  <2> DEFINE a == Ins("alloc4", Var(Top.node.left.str), <<Imm(1)>>)
             b == Store(Reg(".tmp.ass", Top.n), Var(Top.node.left.str))
             c == Ins("copy", Top.var, <<Reg(".tmp.ass", Top.n)>>)
  <2>1. Plain(a) /\ Plain(b) /\ Plain(c)
    BY LineKinds DEF Plain, Store
  <2>2. BuilderAdd(<<a, b, c>>)
    BY DEF AssStore
  <2> HIDE DEF a, b, c
  <2> QED
    BY <2>1, <2>2, PlainThree
<1> QED
  BY <1>2, <1>3, <1>4, QuietLeave

LEMMA BinopResultLabels == IInv /\ LInv /\ BinopResult => LInv'
<1> SUFFICES ASSUME IInv, LInv, BinopResult PROVE LInv'
  OBVIOUS
<1>1. phase = "generating" /\ stack # << >> /\ Top.node.kind = "NKEx_BINOP"
  BY DEF BinopResult, At
<1>2. Running /\ stack' = Front(stack)
  BY <1>1 DEF BinopResult, LeaveStmt, LeaveExpr, Running, IInv, TypeOK
<1>3. Pending(Top) = {}
  BY <1>1, PendingIs DEF Loops
<1>4. \E lines : Text(lines, {}, {}) /\ BuilderAdd(lines)
  <2> DEFINE a == Ins(BinopkToStr(Top.node.op), Top.var,
                      <<Reg(".tmp.l", Top.n), Reg(".tmp.r", Top.m)>>)
  <2>1. Top.node.op \in ArithKind
    BY <1>1, TopType, Children DEF BinopResult, At, FrameOK, BinopKind
  <2>2. BinopkToStr(Top.node.op) \in {"add", "sub", "mul", "div"}
    BY <2>1 DEF BinopkToStr, ArithKind
  <2>3. Plain(a)
    BY <2>2, LineKinds DEF Plain
  <2>4. BuilderAdd(<<a>>)
    BY DEF BinopResult
  <2> HIDE DEF a
  <2> QED
    BY <2>3, <2>4, PlainText
<1> QED
  BY <1>2, <1>3, <1>4, QuietLeave

LEMMA ReturnJumpLabels == IInv /\ LInv /\ ReturnJump => LInv'
<1> SUFFICES ASSUME IInv, LInv, ReturnJump PROVE LInv'
  OBVIOUS
<1> DEFINE lines == <<Ins("copy", Name(".ret"), <<Reg(".tmp", Top.n)>>), Jmp(RetLabel)>>
           T == {RetLabel}
<1>1. phase = "generating" /\ stack # << >> /\ Top.node.kind = "NKSt_RETURN" /\ Top.pc = "value"
  BY DEF ReturnJump, At
<1>2. Running /\ stack' = Front(stack) /\ BuilderAdd(lines)
  BY <1>1 DEF ReturnJump, LeaveStmt, Running, IInv, TypeOK
<1>3. Pending(Top) = {}
  BY <1>1, PendingIs DEF Loops
<1>4. Text(lines, Pending(Top), T)
  <2>1. Plain(Ins("copy", Name(".ret"), <<Reg(".tmp", Top.n)>>))
    BY LineKinds DEF Plain
  <2>2. Text(lines, {} \cup {}, {} \cup T)
    BY <2>1, PlainText, JumpText, PairText
  <2> QED
    BY <1>3, <2>2
<1>5. \A l \in T : Known(l, Pending(Top))
  BY DEF Known
<1> HIDE DEF lines, T
<1> QED
  BY <1>2, <1>4, <1>5, LeaveLabels

LEMMA IfNoElseLabels == IInv /\ LInv /\ IfNoElse => LInv'
<1> SUFFICES ASSUME IInv, LInv, IfNoElse PROVE LInv'
  OBVIOUS
<1> DEFINE lines == JmpUnlessTerminated(Reg("@.endif", Top.n))
                      \o <<Label(Reg("@.else", Top.n))>>
                      \o JmpUnlessTerminated(Reg("@.endif", Top.n))
                      \o <<Label(Reg("@.endif", Top.n))>>
           T == {Reg("@.endif", Top.n)}
<1>1. phase = "generating" /\ stack # << >> /\ Top.node.kind = "NKSt_IF" /\ Top.pc = "then"
  BY DEF IfNoElse, At
<1>2. Running /\ stack' = Front(stack) /\ BuilderAdd(lines)
  BY <1>1 DEF IfNoElse, LeaveStmt, Running, IInv, TypeOK
<1>3. Pending(Top) = {Reg("@.else", Top.n), Reg("@.endif", Top.n)}
  BY <1>1, PendingIs DEF Loops
<1>4. Text(lines, Pending(Top), T)
  <2> DEFINE one == JmpUnlessTerminated(Reg("@.endif", Top.n))
                      \o <<Label(Reg("@.else", Top.n))>>
             jump == JmpUnlessTerminated(Reg("@.endif", Top.n))
             end == <<Label(Reg("@.endif", Top.n))>>
             P == {Reg("@.else", Top.n)}
             Q == {Reg("@.endif", Top.n)}
  <2>1. Text(one, P, T) /\ Text(end, Q, {})
    BY BranchText, LabelText
  <2>2. Text(jump, {}, T)
    BY NoText, JumpText DEF JmpUnlessTerminated, Text
  <2>3. P \cap Q = {} /\ Pending(Top) = P \cup Q
    BY <1>3, RegsDiffer
  <2> HIDE DEF one, jump, end, P, Q, T
  <2>4. Text(one \o jump, P \cup {}, T \cup T)
    BY <2>1, <2>2, ConcatText
  <2>5. P \cup {} = P /\ T \cup T = T /\ T \cup {} = T
    OBVIOUS
  <2>6. Text((one \o jump) \o end, P \cup Q, T \cup {})
    BY <2>1, <2>3, <2>4, <2>5, ConcatText
  <2> QED
    BY <2>3, <2>5, <2>6 DEF one, jump, end
<1>5. \A l \in T : Known(l, Pending(Top))
  BY <1>3 DEF Known
<1> HIDE DEF lines, T
<1> QED
  BY <1>2, <1>4, <1>5, LeaveLabels

LEMMA IfEndLabels == IInv /\ LInv /\ IfEnd => LInv'
<1> SUFFICES ASSUME IInv, LInv, IfEnd PROVE LInv'
  OBVIOUS
<1> DEFINE lines == JmpUnlessTerminated(Reg("@.endif", Top.n))
                      \o <<Label(Reg("@.endif", Top.n))>>
           T == {Reg("@.endif", Top.n)}
<1>1. phase = "generating" /\ stack # << >> /\ Top.node.kind = "NKSt_IF" /\ Top.pc = "else"
  BY DEF IfEnd, At
<1>2. Running /\ stack' = Front(stack) /\ BuilderAdd(lines)
  BY <1>1 DEF IfEnd, LeaveStmt, Running, IInv, TypeOK
<1>3. Pending(Top) = {Reg("@.endif", Top.n)}
  BY <1>1, PendingIs DEF Loops
<1>4. Text(lines, Pending(Top), T)
  BY <1>3, BranchText
<1>5. \A l \in T : Known(l, Pending(Top))
  BY <1>3 DEF Known
<1> HIDE DEF lines, T
<1> QED
  BY <1>2, <1>4, <1>5, LeaveLabels

LEMMA ForRepeatLabels == IInv /\ LInv /\ ForRepeat => LInv'
<1> SUFFICES ASSUME IInv, LInv, ForRepeat PROVE LInv'
  OBVIOUS
<1> DEFINE lines == <<Jmp(Reg("@.check", Top.n)), Label(Reg("@.endloop", Top.n))>>
           T == {Reg("@.check", Top.n)}
<1>1. phase = "generating" /\ stack # << >> /\ Top.node.kind = "NKSt_FOR" /\ Top.pc = "post"
  BY DEF ForRepeat, At
<1>2. Running /\ stack' = Front(stack) /\ BuilderAdd(lines)
  BY <1>1 DEF ForRepeat, LeaveStmt, Running, IInv, TypeOK
<1>3. Pending(Top) = {Reg("@.endloop", Top.n)}
  BY <1>1, PendingIs DEF Loops
<1>4. Text(lines, Pending(Top), T)
  <2>1. Text(lines, {} \cup Pending(Top), T \cup {})
    BY <1>3, LabelText, JumpText, PairText
  <2> QED
    BY <2>1
<1>5. \A l \in T : Known(l, Pending(Top))
  BY <1>1, <1>2, TopLabels DEF Known, Looping, Loops
<1> HIDE DEF lines, T
<1> QED
  BY <1>2, <1>4, <1>5, LeaveLabels

LEMMA ForTerminatedLabels == IInv /\ LInv /\ ForTerminated => LInv'
<1> SUFFICES ASSUME IInv, LInv, ForTerminated PROVE LInv'
  OBVIOUS
<1> DEFINE lines == <<Label(Reg("@.endloop", Top.n))>>
           T == {}
<1>1. phase = "generating" /\ stack # << >> /\ Top.node.kind = "NKSt_FOR" /\ Top.pc = "body"
  BY DEF ForTerminated, At
<1>2. Running /\ stack' = Front(stack) /\ BuilderAdd(lines)
  BY <1>1 DEF ForTerminated, LeaveStmt, Running, IInv, TypeOK
<1>3. Pending(Top) = {Reg("@.endloop", Top.n)}
  BY <1>1, PendingIs DEF Loops
<1>4. Text(lines, Pending(Top), T)
  BY <1>3, LabelText
<1>5. \A l \in T : Known(l, Pending(Top))
  OBVIOUS
<1> HIDE DEF lines, T
<1> QED
  BY <1>2, <1>4, <1>5, LeaveLabels

LEMMA WhileEndLabels == IInv /\ LInv /\ WhileEnd => LInv'
<1> SUFFICES ASSUME IInv, LInv, WhileEnd PROVE LInv'
  OBVIOUS
<1> DEFINE lines == JmpUnlessTerminated(Reg("@.check", Top.n))
                      \o <<Label(Reg("@.endloop", Top.n))>>
           T == {Reg("@.check", Top.n)}
<1>1. phase = "generating" /\ stack # << >> /\ Top.node.kind = "NKSt_FOR_WHILE" /\ Top.pc = "body"
  BY DEF WhileEnd, At
<1>2. Running /\ stack' = Front(stack) /\ BuilderAdd(lines)
  BY <1>1 DEF WhileEnd, LeaveStmt, Running, IInv, TypeOK
<1>3. Pending(Top) = {Reg("@.endloop", Top.n)}
  BY <1>1, PendingIs DEF Loops
<1>4. Text(lines, Pending(Top), T)
  BY <1>3, BranchText
<1>5. \A l \in T : Known(l, Pending(Top))
  BY <1>1, <1>2, TopLabels DEF Known, Looping, Loops
<1> HIDE DEF lines, T
<1> QED
  BY <1>2, <1>4, <1>5, LeaveLabels

-----------------------------------------------------------------------------
(***************************************************************************)
(* The first step, the last one and the exit.                              *)
(***************************************************************************)
LEMMA InitLabels == Init => LInv
<1> SUFFICES ASSUME Init PROVE LInv
  OBVIOUS
<1>1. phase = "called" /\ Text(sb, {}, {})
  BY NoText DEF Init
<1>2. PlacesOnce(sb)
  BY <1>1, Zenon DEF Text
<1> QED
  BY <1>1, <1>2 DEF LInv

LEMMA CodegenStartLabels == IInv /\ CodegenStart => LInv'
<1> SUFFICES ASSUME IInv, CodegenStart PROVE LInv'
  OBVIOUS
<1> DEFINE start == Name("@start")
           root == Frame(ast, None)
<1>1. Text(sb', {start}, {})
  <2> DEFINE a == Label(start)
             b == Ins("copy", Name(".ret"), <<Imm(0)>>)
  <2>1. Plain(b)
    BY LineKinds DEF Plain
  <2>2. Text(<<a>>, {start}, {}) /\ Text(<<b>>, {}, {})
    BY <2>1, LabelText, PlainText
  <2>3. sb' = <<a, b>>
    BY DEF CodegenStart
  <2> HIDE DEF a, b, start
  <2>4. Text(<<a, b>>, {start} \cup {}, {} \cup {})
    BY <2>2, PairText
  <2> QED
    BY <2>3, <2>4
<1>2. phase' = "generating" /\ stack' = <<root>>
  BY DEF CodegenStart
<1>3. Len(stack') = 1 /\ stack'[1] = root /\ root.pc = "enter"
  BY <1>2 DEF Frame
<1> HIDE DEF root
<1>4. \A k \in 1 .. Len(stack') : Pending(stack'[k]) = {} /\ ~Looping(stack'[k])
  <2> TAKE k \in 1 .. Len(stack')
  <2>1. stack'[k] = root
    BY <1>3
  <2> QED
    BY <1>3, <2>1, PendingIs DEF Looping
<1>5. /\ PlacesOnce(sb')
      /\ \A l : Places(sb', l) => l = start
      /\ \A l : ~Targets(sb', l)
  BY <1>1 DEF Text
<1>6. PlacedDrawn' /\ TargetsKnown'
  BY <1>5 DEF PlacedDrawn, TargetsKnown
<1>7. PendingFree' /\ ChecksPlaced'
  BY <1>4 DEF PendingFree, ChecksPlaced
<1> QED
  BY <1>2, <1>5, <1>6, <1>7 DEF LInv

(* The last label is the one returns jump to. *)
LEMMA CodegenEndLabels == IInv /\ LInv /\ CodegenEnd => LInv'
<1> SUFFICES ASSUME IInv, LInv, CodegenEnd PROVE LInv'
  OBVIOUS
<1> DEFINE a == Label(RetLabel)
           b == Ret(Name(".ret"))
<1>1. phase = "generating" /\ phase' = "done" /\ sb' = sb \o <<a, b>> /\ stack = << >>
  BY DEF CodegenEnd, BuilderAdd
<1>2. Text(<<a, b>>, {RetLabel}, {})
  <2>1. ~IsLabel(b) /\ b.to = << >>
    BY LineKinds DEF Ret, Ins
  <2>2. Text(<<b>>, {}, {})
    <3>1. \A t \in 1 .. Len(b.to) : b.to[t] \in {}
      BY <2>1
    <3> QED
      BY <2>1, <3>1, OneLineText, Zenon
  <2>3. Text(<<a>>, {RetLabel}, {})
    BY LabelText
  <2> HIDE DEF a, b
  <2>4. Text(<<a, b>>, {RetLabel} \cup {}, {} \cup {})
    BY <2>2, <2>3, PairText
  <2> QED
    BY <2>4
<1> DEFINE lines == <<a, b>>
<1> HIDE DEF lines
<1>3. sb' = sb \o lines /\ Text(lines, {RetLabel}, {})
  BY <1>1, <1>2 DEF lines
<1>4. /\ PlacesOnce(lines) /\ IsSeq(lines)
      /\ \A l : Places(lines, l) <=> l = RetLabel
      /\ \A l : ~Targets(lines, l)
  BY <1>3 DEF Text
<1>5. PlacesOnce(sb) /\ PlacedDrawn /\ TargetsKnown
  BY <1>1 DEF LInv
<1>6. IsSeq(sb)
  <2>1. sb \in Seq(Line)
    BY DEF IInv, TypeOK
  <2> QED
    BY <2>1, Zenon DEF IsSeq
<1>7. ~Places(sb, RetLabel)
  <2>1. RetLabel # Name("@start") /\ RetLabel \notin Drawn(0, next_reg)
    BY DEF RetLabel, Name, Drawn
  <2> QED
    BY <1>5, <2>1 DEF PlacedDrawn
<1>8. PlacesOnce(sb')
  <2>1. \A l : ~(Places(sb, l) /\ Places(lines, l))
    BY <1>4, <1>7
  <2> QED
    BY <1>3, <1>4, <1>5, <1>6, <2>1, ConcatOnce
<1>9. \A l : Targets(sb', l) => Places(sb', l)
  <2> SUFFICES ASSUME NEW l, Targets(sb', l) PROVE Places(sb', l)
    OBVIOUS
  <2>1. Targets(sb, l)
    BY <1>3, <1>4, <1>6, ConcatLines
  <2>2. Places(sb, l) \/ l = RetLabel
    BY <1>1, <1>5, <2>1 DEF TargetsKnown
  <2> QED
    BY <1>3, <1>4, <1>6, <2>2, ConcatLines
<1> QED
  BY <1>1, <1>8, <1>9 DEF LInv

LEMMA UnaopAddrLabels == LInv /\ UnaopAddr => LInv'
BY DEF LInv, UnaopAddr

LEMMA StutterLabels == LInv /\ UNCHANGED vars => LInv'
BY DEF LInv, vars, PlacedDrawn, PendingFree, ChecksPlaced, TargetsKnown

-----------------------------------------------------------------------------
LEMMA NextLabels == IInv /\ LInv /\ [Next]_vars => LInv'
<1>1. IInv /\ LInv /\ GenStmt => LInv'
  BY BlockNextLabels, BlockEndLabels, BlockTerminatedLabels, ReturnValueLabels,
     ReturnJumpLabels, StmtExprValueLabels, StmtExprEndLabels, IfCondLabels,
     IfThenLabels, IfElseLabels, IfNoElseLabels, IfEndLabels, ForInitLabels,
     ForCheckLabels, ForBodyLabels, ForPostLabels, ForRepeatLabels,
     ForTerminatedLabels, WhileCheckLabels, WhileBodyLabels, WhileEndLabels
     DEF GenStmt
<1>2. IInv /\ LInv /\ GenExpr => LInv'
  BY ExprLitLabels, UnaopOperandLabels, UnaopResultLabels, UnaopAddrLabels,
     AssRightLabels, AssStoreLabels, BinopLeftLabels, BinopRightLabels,
     BinopResultLabels DEF GenExpr
<1> QED
  BY <1>1, <1>2, CodegenStartLabels, CodegenEndLabels, StutterLabels DEF Next

LEMMA InductiveLabels == Spec => []LInv
<1>1. Init => LInv
  BY InitLabels
<1>2. IInv /\ LInv /\ [Next]_vars => LInv'
  BY NextLabels
<1> QED
  BY <1>1, <1>2, Inductive, PTL DEF Spec

(* No label is added twice, on any tree and at any moment of the walk: QBE
   would refuse the text, or a jump would go to the wrong one of the two. *)
THEOREM LabelsAreUnique == Spec => []LabelsUnique
<1>1. LInv => LabelsUnique
  BY DEF LInv, PlacesOnce, LabelsUnique
<1> QED
  BY <1>1, InductiveLabels, PTL

(* When codegen returns, every jump of the text goes to a label of the text,
   on any tree: also where a function that returns early adds its last label
   on another path than the jump to it. *)
THEOREM JumpsHaveTargets == Spec => []JumpTargetsDefined
<1>1. LInv => JumpTargetsDefined
  <2> SUFFICES ASSUME LInv, phase = "done",
                      NEW k \in 1 .. Len(sb), IsJump(sb[k]),
                      NEW t \in 1 .. Len(sb[k].to)
               PROVE  Defined(sb[k].to[t])
    BY DEF JumpTargetsDefined
  <2>1. Targets(sb, sb[k].to[t])
    BY DEF Targets
  <2>2. Places(sb, sb[k].to[t])
    BY <2>1 DEF LInv
  <2> QED
    BY <2>2 DEF Places, Defined
<1> QED
  BY <1>1, InductiveLabels, PTL

-----------------------------------------------------------------------------
(***************************************************************************)
(* The temporaries.  A frame owes the one it was called with until it      *)
(* returns, and uses those it has had computed by its callees.             *)
(***************************************************************************)
FirstUses(kind, pc) ==
  {p \in NumberedPrefixes :
     \/ p = ".tmp" /\ kind = "NKSt_RETURN" /\ pc = "value"
     \/ p = ".tmp.una" /\ pc = "operand"
     \/ p = ".tmp.ass" /\ pc = "assigned"
     \/ p = ".tmp.l" /\ pc \in {"left", "right"}}

SecondUses(pc) ==
  {p \in NumberedPrefixes : \/ p = ".cond" /\ pc = "cond"
                            \/ p = ".tmp.r" /\ pc = "right"}

Uses(f) ==
  {Reg(p, f.n) : p \in FirstUses(f.node.kind, f.pc)}
    \cup {Reg(p, f.m) : p \in SecondUses(f.pc)}

Makes(text, v) == \E k \in 1 .. Len(text) : text[k].def = v

LabelFree(text, i, j) == \A h \in i .. j : ~IsLabel(text[h])

(* v may be used at the end of text. *)
Ready(text, v) ==
  \E j \in 1 .. Len(text) : text[j].def = v /\ LabelFree(text, j + 1, Len(text))

MakesOnce(text) ==
  \A j, k \in 1 .. Len(text) :
    Numbered(text[j].def) /\ text[j].def = text[k].def => j = k

ReadsReady(text) ==
  \A k \in 1 .. Len(text) : \A a \in 1 .. Len(text[k].args) :
    Numbered(text[k].args[a]) =>
      \E j \in 1 .. k - 1 :
        text[j].def = text[k].args[a] /\ LabelFree(text, j + 1, k)

MadeDrawn == \A v : Numbered(v) /\ Makes(sb, v) => v[2] \in Nat /\ v[2] < next_reg

OwedFree ==
  \A k \in 1 .. Len(stack) : Numbered(stack[k].var) =>
    /\ stack[k].var[2] \in Nat /\ stack[k].var[2] < next_reg
    /\ ~Makes(sb, stack[k].var)
    /\ \A j \in 1 .. k - 1 : stack[j].var # stack[k].var

(* What a frame uses is there, but for what it waits for. *)
UsesReady ==
  \A k \in 1 .. Len(stack) : \A v \in Uses(stack[k]) :
    Ready(sb, v) \/ (k < Len(stack) /\ stack[k + 1].var = v)

(* While a statement runs, no frame below it uses anything: labels may be
   added. *)
StmtsBelow ==
  \A k \in 1 .. Len(stack) : stack[k].node \in Stmts(Node) =>
    \A j \in 1 .. k - 1 : stack[j].pc \in StmtPCs

TInv ==
  /\ MakesOnce(sb)
  /\ ReadsReady(sb)
  /\ MadeDrawn
  /\ OwedFree
  /\ UsesReady
  /\ StmtsBelow

-----------------------------------------------------------------------------
(***************************************************************************)
(* lines uses temporaries of U only, before its first label, and computes  *)
(* none but d, in its last line.                                           *)
(***************************************************************************)
Adds(lines, U, d) ==
  /\ IsSeq(lines)
  /\ \A k \in 1 .. Len(lines) :
       /\ Numbered(lines[k].def) => lines[k].def = d /\ k = Len(lines)
       /\ \A a \in 1 .. Len(lines[k].args) :
            Numbered(lines[k].args[a]) =>
              lines[k].args[a] \in U /\ LabelFree(lines, 1, k)

(* Where the line k of s \o t comes from. *)
LEMMA ConcatAt ==
  ASSUME NEW s, NEW t, IsSeq(s), IsSeq(t)
  PROVE  /\ Len(s) \in Nat /\ Len(t) \in Nat /\ Len(s \o t) = Len(s) + Len(t)
         /\ \A k \in 1 .. Len(s) : (s \o t)[k] = s[k]
         /\ \A k \in 1 .. Len(s) + Len(t) :
              k > Len(s) => k - Len(s) \in 1 .. Len(t) /\ (s \o t)[k] = t[k - Len(s)]
<1>1. /\ Len(s) \in Nat /\ Len(t) \in Nat /\ Len(s \o t) = Len(s) + Len(t)
      /\ \A k \in 1 .. Len(s) : (s \o t)[k] = s[k]
      /\ \A k \in 1 .. Len(t) : (s \o t)[Len(s) + k] = t[k]
  BY ConcatAny
<1> DEFINE u == s \o t
<1> HIDE DEF u
<1>2. \A k \in 1 .. Len(s) + Len(t) :
        k > Len(s) => k - Len(s) \in 1 .. Len(t) /\ u[k] = t[k - Len(s)]
  <2> SUFFICES ASSUME NEW k \in 1 .. Len(s) + Len(t), k > Len(s)
               PROVE  k - Len(s) \in 1 .. Len(t) /\ u[k] = t[k - Len(s)]
    OBVIOUS
  <2>1. k - Len(s) \in 1 .. Len(t) /\ k = Len(s) + (k - Len(s))
    BY <1>1
  <2> QED
    BY <1>1, <2>1 DEF u
<1> QED
  BY <1>1, <1>2 DEF u

LEMMA AddLines ==
  ASSUME NEW s, NEW lines, IsSeq(s), NEW U, NEW d, Adds(lines, U, d),
         MakesOnce(s), ReadsReady(s),
         \A v \in U : Ready(s, v),
         Numbered(d) => ~Makes(s, d)
  PROVE  /\ MakesOnce(s \o lines)
         /\ ReadsReady(s \o lines)
         /\ \A v : Numbered(v) /\ Makes(s \o lines, v) => Makes(s, v) \/ v = d
         /\ LabelFree(lines, 1, Len(lines)) =>
              /\ \A v : Ready(s, v) => Ready(s \o lines, v)
              /\ Len(lines) > 0 => Ready(s \o lines, lines[Len(lines)].def)
<1> DEFINE u == s \o lines
           m == Len(s)
           n == Len(lines)
<1>1. /\ m \in Nat /\ n \in Nat /\ Len(u) = m + n
      /\ \A k \in 1 .. m : u[k] = s[k]
      /\ \A k \in 1 .. m + n : k > m => k - m \in 1 .. n /\ u[k] = lines[k - m]
  BY ConcatAt DEF Adds
<1> HIDE DEF u, m, n
<1>2. /\ \A k \in 1 .. n : Numbered(lines[k].def) => lines[k].def = d /\ k = n
      /\ \A k \in 1 .. n : \A a \in 1 .. Len(lines[k].args) :
           Numbered(lines[k].args[a]) =>
             lines[k].args[a] \in U /\ LabelFree(lines, 1, k)
  BY DEF Adds, n
<1>3. MakesOnce(u)
  <2> SUFFICES ASSUME NEW j \in 1 .. m + n, NEW k \in 1 .. m + n,
                      Numbered(u[j].def), u[j].def = u[k].def
               PROVE  j = k
    BY <1>1 DEF MakesOnce
  <2>1. CASE j <= m /\ k <= m
    BY <1>1, <2>1 DEF MakesOnce, m
  <2>2. CASE j > m /\ k > m
    BY <1>1, <1>2, <2>2, SMTT(30)
  <2>3. CASE j > m /\ k <= m
    BY <1>1, <1>2, <2>3 DEF Makes, m
  <2>4. CASE j <= m /\ k > m
    BY <1>1, <1>2, <2>4 DEF Makes, m
  <2> QED
    BY <1>1, <2>1, <2>2, <2>3, <2>4
<1>4. \A v : Numbered(v) /\ Makes(u, v) => Makes(s, v) \/ v = d
  <2> SUFFICES ASSUME NEW v, Numbered(v), NEW k \in 1 .. m + n, u[k].def = v, v # d
               PROVE  Makes(s, v)
    BY <1>1 DEF Makes
  <2> QED
    BY <1>1, <1>2 DEF Makes, m
<1>5. \A v, k : Ready(s, v) /\ k \in 1 .. n /\ LabelFree(lines, 1, k) =>
        \E j \in 1 .. m : u[j].def = v /\ LabelFree(u, j + 1, m + k)
  <2> SUFFICES ASSUME NEW v, NEW k \in 1 .. n, LabelFree(lines, 1, k),
                      NEW j \in 1 .. m, s[j].def = v, LabelFree(s, j + 1, m)
               PROVE  u[j].def = v /\ LabelFree(u, j + 1, m + k)
    BY DEF Ready, m
  <2>1. ASSUME NEW h \in j + 1 .. m + k
        PROVE  ~IsLabel(u[h])
    <3>1. CASE h <= m
      BY <1>1, <3>1 DEF LabelFree
    <3>2. CASE h > m
      <4>1. h \in 1 .. m + n /\ h - m \in 1 .. k
        BY <1>1, <3>2
      <4> QED
        BY <1>1, <3>2, <4>1 DEF LabelFree
    <3> QED
      BY <1>1, <3>1, <3>2
  <2> QED
    BY <1>1, <2>1 DEF LabelFree
<1>6. ReadsReady(u)
  <2> SUFFICES ASSUME NEW k \in 1 .. m + n, NEW a \in 1 .. Len(u[k].args),
                      Numbered(u[k].args[a])
               PROVE  \E j \in 1 .. k - 1 :
                        u[j].def = u[k].args[a] /\ LabelFree(u, j + 1, k)
    BY <1>1 DEF ReadsReady
  <2>1. CASE k <= m
    <3>1. k \in 1 .. m /\ u[k] = s[k]
      BY <1>1, <2>1
    <3>2. PICK j \in 1 .. k - 1 : s[j].def = s[k].args[a] /\ LabelFree(s, j + 1, k)
      BY <3>1 DEF ReadsReady, m
    <3>3. u[j].def = u[k].args[a] /\ LabelFree(u, j + 1, k)
      BY <1>1, <3>1, <3>2 DEF LabelFree
    <3> QED
      BY <3>3
  <2>2. CASE k > m
    <3> DEFINE i == k - m
    <3>1. i \in 1 .. n /\ u[k] = lines[i] /\ k = m + i
      BY <1>1, <2>2
    <3> HIDE DEF i
    <3>2. u[k].args[a] \in U /\ LabelFree(lines, 1, i)
      BY <1>2, <3>1
    <3>3. PICK j \in 1 .. m : u[j].def = u[k].args[a] /\ LabelFree(u, j + 1, m + i)
      BY <1>5, <3>1, <3>2
    <3>4. j \in 1 .. k - 1
      BY <1>1, <2>2
    <3> QED
      BY <3>1, <3>3, <3>4
  <2> QED
    BY <1>1, <2>1, <2>2
<1>7. ASSUME LabelFree(lines, 1, n)
      PROVE  /\ \A v : Ready(s, v) => Ready(u, v)
             /\ n > 0 => Ready(u, lines[n].def)
  <2>1. ASSUME n > 0 PROVE Ready(u, lines[n].def)
    <3>1. m + n \in 1 .. m + n /\ m + n > m /\ m + n - m = n
      BY <1>1, <2>1
    <3>2. u[m + n] = lines[n]
      BY <1>1, <3>1
    <3>3. LabelFree(u, m + n + 1, m + n)
      BY <1>1 DEF LabelFree
    <3> QED
      BY <1>1, <3>1, <3>2, <3>3 DEF Ready
  <2>2. ASSUME NEW v, Ready(s, v) PROVE Ready(u, v)
    <3>1. CASE n > 0
      <4>1. n \in 1 .. n
        BY <1>1, <3>1
      <4>2. PICK j \in 1 .. m : u[j].def = v /\ LabelFree(u, j + 1, m + n)
        BY <1>5, <1>7, <2>2, <4>1
      <4> QED
        BY <1>1, <4>2 DEF Ready
    <3>2. CASE n = 0
      <4>1. PICK j \in 1 .. m : s[j].def = v /\ LabelFree(s, j + 1, m)
        BY <2>2 DEF Ready, m
      <4>2. u[j].def = v /\ LabelFree(u, j + 1, m) /\ Len(u) = m
        BY <1>1, <3>2, <4>1 DEF LabelFree
      <4> QED
        BY <4>2 DEF Ready
    <3> QED
      BY <1>1, <3>1, <3>2
  <2> QED
    BY <2>1, <2>2
<1> QED
  BY <1>3, <1>4, <1>6, <1>7 DEF u, n

-----------------------------------------------------------------------------
(***************************************************************************)
(* What a step owes to the invariant.                                      *)
(***************************************************************************)
LEMMA UsesIs ==
  ASSUME NEW f
  PROVE  /\ f.node.kind = "NKSt_RETURN" /\ f.pc = "value" => Uses(f) = {Reg(".tmp", f.n)}
         /\ f.pc = "cond" => Uses(f) = {Reg(".cond", f.m)}
         /\ f.pc = "operand" => Uses(f) = {Reg(".tmp.una", f.n)}
         /\ f.pc = "assigned" => Uses(f) = {Reg(".tmp.ass", f.n)}
         /\ f.pc = "left" => Uses(f) = {Reg(".tmp.l", f.n)}
         /\ f.pc = "right" => Uses(f) = {Reg(".tmp.l", f.n), Reg(".tmp.r", f.m)}
         /\ f.pc \in StmtPCs \cup {"enter", "init", "post"} => Uses(f) = {}
         /\ f.node.kind # "NKSt_RETURN" /\ f.pc = "value" => Uses(f) = {}
BY DEF Uses, FirstUses, SecondUses, NumberedPrefixes, StmtPCs

(* The temporaries the frames below the one that runs wait for or have. *)
LEMMA UsedBelow ==
  ASSUME IInv, TInv, stack # << >>,
         NEW text, \A v : Ready(sb, v) => Ready(text, v) \/ Top.node \in Stmts(Node)
  PROVE  \A k \in 1 .. Len(stack) - 1 : \A v \in Uses(stack[k]) :
           Ready(text, v) \/ stack[k + 1].var = v
<1> DEFINE N == Len(stack)
<1>1. N \in Nat \ {0} /\ Top = stack[N]
  BY StackTop
<1>2. N \in 1 .. N /\ N \in 1 .. Len(stack)
  BY <1>1
<1> SUFFICES ASSUME NEW k \in 1 .. N - 1, NEW v \in Uses(stack[k])
             PROVE  Ready(text, v) \/ stack[k + 1].var = v
  OBVIOUS
<1>3. CASE Top.node \in Stmts(Node)
  <2>1. stack[k].pc \in StmtPCs
    BY <1>1, <1>2, <1>3 DEF TInv, StmtsBelow
  <2> QED
    BY <2>1, UsesIs
<1>4. CASE Top.node \notin Stmts(Node)
  <2>1. k \in 1 .. Len(stack)
    BY <1>1
  <2> QED
    BY <1>4, <2>1 DEF TInv, UsesReady
<1> QED
  BY <1>3, <1>4

LEMMA CallTemps ==
  ASSUME IInv, TInv, stack # << >>,
         NEW top, top.var = Top.var, top.node = Top.node,
         NEW node, NEW var, Call(top, node, var),
         next_reg \in Nat, next_reg' \in Nat, next_reg <= next_reg',
         Numbered(var) => var[2] \in Nat /\ next_reg <= var[2] /\ var[2] < next_reg',
         NEW lines, Adds(lines, Uses(Top), None), BuilderAdd(lines),
         LabelFree(lines, 1, Len(lines)) \/ Top.node \in Stmts(Node),
         \A v \in Uses(top) :
           v = var \/ (v \in Uses(Top) /\ LabelFree(lines, 1, Len(lines))),
         node \in Stmts(Node) => Top.node \in Stmts(Node) /\ top.pc \in StmtPCs
  PROVE  TInv'
<1> DEFINE N == Len(stack)
           new == Frame(node, var)
           S == FrameType \cup {top, new}
<1>1. N \in Nat \ {0} /\ Top = stack[N] /\ stack \in Seq(FrameType) /\ IsSeq(sb)
  BY StackTop
<1>2. top \in S /\ new \in S /\ FrameType \subseteq S
  OBVIOUS
<1>3. stack' = Append(Append(Front(stack), top), new) /\ sb' = sb \o lines
  BY DEF Call, BuilderAdd
<1>4. new.pc = "enter" /\ new.var = var /\ new.node = node
  BY DEF Frame
<1> HIDE DEF N, new, S
<1>5. stack \in Seq(S)
  BY <1>1, <1>2, SeqGrows
<1>6. /\ Len(stack') = N + 1 /\ stack'[N] = top /\ stack'[N + 1] = new
      /\ \A k \in 1 .. N - 1 : stack'[k] = stack[k]
  BY <1>2, <1>3, <1>5, CallStack DEF N
<1>7. N = Len(stack) /\ N \in 1 .. N
  BY <1>1 DEF N
<1>8. /\ MakesOnce(sb) /\ ReadsReady(sb) /\ MadeDrawn /\ OwedFree /\ UsesReady
      /\ StmtsBelow
  BY DEF TInv
<1>9. \A v \in Uses(Top) : Ready(sb, v)
  BY <1>1, <1>7, <1>8 DEF UsesReady
<1>10. ~Numbered(None)
  BY DEF Numbered, None, NumberedPrefixes
<1>11. /\ MakesOnce(sb') /\ ReadsReady(sb')
       /\ \A v : Numbered(v) /\ Makes(sb', v) => Makes(sb, v) \/ v = None
       /\ LabelFree(lines, 1, Len(lines)) => \A v : Ready(sb, v) => Ready(sb', v)
  BY <1>1, <1>3, <1>8, <1>9, <1>10, AddLines
<1>12. MadeDrawn'
  BY <1>8, <1>10, <1>11 DEF MadeDrawn
<1>13. \A k \in 1 .. N : stack'[k].var = stack[k].var
  BY <1>1, <1>6
<1>14. OwedFree'
  <2> SUFFICES ASSUME NEW k \in 1 .. N + 1, Numbered(stack'[k].var)
               PROVE  /\ stack'[k].var[2] \in Nat /\ stack'[k].var[2] < next_reg'
                      /\ ~Makes(sb', stack'[k].var)
                      /\ \A j \in 1 .. k - 1 : stack'[j].var # stack'[k].var
    BY <1>6 DEF OwedFree
  <2>1. CASE k \in 1 .. N
    <3>1. /\ stack[k].var[2] \in Nat /\ stack[k].var[2] < next_reg
          /\ ~Makes(sb, stack[k].var)
          /\ \A j \in 1 .. k - 1 : stack[j].var # stack[k].var
      BY <1>7, <1>8, <1>13, <2>1 DEF OwedFree
    <3>2. \A j \in 1 .. k - 1 : j \in 1 .. N
      BY <2>1, <1>1
    <3> QED
      BY <1>10, <1>11, <1>13, <2>1, <3>1, <3>2
  <2>2. CASE k = N + 1
    <3>1. stack'[k].var = var
      BY <1>4, <1>6, <2>2
    <3>2. ~Makes(sb', var)
      BY <1>8, <1>10, <1>11, <3>1 DEF MadeDrawn
    <3>3. ASSUME NEW j \in 1 .. N PROVE stack'[j].var # var
      <4>1. Numbered(stack[j].var) => stack[j].var[2] < next_reg
        BY <1>7, <1>8 DEF OwedFree
      <4> QED
        BY <1>13, <3>1, <4>1
    <3> QED
      BY <1>1, <2>2, <3>1, <3>2, <3>3
  <2> QED
    BY <1>1, <2>1, <2>2
<1>15. UsesReady'
  <2> SUFFICES ASSUME NEW k \in 1 .. N + 1, NEW v \in Uses(stack'[k])
               PROVE  Ready(sb', v) \/ (k < N + 1 /\ stack'[k + 1].var = v)
    BY <1>6 DEF UsesReady
  <2>1. CASE k = N + 1
    BY <1>4, <1>6, <2>1, UsesIs
  <2>2. CASE k = N
    BY <1>1, <1>4, <1>6, <1>9, <1>11, <2>2
  <2>3. CASE k \in 1 .. N - 1
    <3>1. \A w : Ready(sb, w) => Ready(sb', w) \/ Top.node \in Stmts(Node)
      BY <1>11
    <3>2. v \in Uses(stack[k])
      BY <1>6, <2>3
    <3>3. Ready(sb', v) \/ stack[k + 1].var = v
      BY <1>7, <2>3, <3>1, <3>2, UsedBelow
    <3>4. k + 1 \in 1 .. N
      BY <1>1, <2>3
    <3> QED
      BY <1>1, <1>13, <2>3, <3>3, <3>4
  <2> QED
    BY <1>1, <2>1, <2>2, <2>3
<1>16. StmtsBelow'
  <2>1. \A k \in 1 .. N : stack'[k].node = stack[k].node
    BY <1>1, <1>6
  <2>2. Top.node \in Stmts(Node) => \A j \in 1 .. N - 1 : stack[j].pc \in StmtPCs
    BY <1>1, <1>7, <1>8 DEF StmtsBelow
  <2> SUFFICES ASSUME NEW k \in 1 .. N + 1, stack'[k].node \in Stmts(Node),
                      NEW j \in 1 .. k - 1
               PROVE  stack'[j].pc \in StmtPCs
    BY <1>6 DEF StmtsBelow
  <2>3. CASE k \in 1 .. N
    <3>1. j \in 1 .. N - 1 /\ k \in 1 .. Len(stack)
      BY <1>1, <1>7, <2>3
    <3>2. stack[j].pc \in StmtPCs
      BY <1>8, <2>1, <2>3, <3>1 DEF StmtsBelow
    <3> QED
      BY <1>6, <3>1, <3>2
  <2>4. CASE k = N + 1
    <3>1. Top.node \in Stmts(Node) /\ top.pc \in StmtPCs
      BY <1>4, <1>6, <2>4
    <3>2. j = N \/ j \in 1 .. N - 1
      BY <1>1, <2>4
    <3> QED
      BY <1>6, <2>2, <3>1, <3>2
  <2> QED
    BY <1>1, <2>3, <2>4
<1> QED
  BY <1>11, <1>12, <1>14, <1>15, <1>16 DEF TInv

(* A step in which a statement returns, or an expression whose last line
   computes the temporary it was called with. *)
LEMMA LeaveTemps ==
  ASSUME IInv, TInv, stack # << >>, stack' = Front(stack),
         NEW lines, NEW d, Adds(lines, Uses(Top), d), BuilderAdd(lines),
         UNCHANGED next_reg,
         \/ Top.node \in Stmts(Node) /\ ~Numbered(d)
         \/ /\ d = Top.var /\ LabelFree(lines, 1, Len(lines))
            /\ Len(lines) > 0 /\ lines[Len(lines)].def = d
  PROVE  TInv'
<1> DEFINE N == Len(stack)
<1>1. /\ N \in Nat \ {0} /\ Top = stack[N] /\ IsSeq(sb)
      /\ Len(stack') = N - 1
      /\ \A k \in 1 .. N - 1 : stack'[k] = stack[k]
  BY StackTop
<1>2. N \in 1 .. N /\ N = Len(stack) /\ sb' = sb \o lines
  BY <1>1 DEF BuilderAdd
<1> HIDE DEF N
<1>3. /\ MakesOnce(sb) /\ ReadsReady(sb) /\ MadeDrawn /\ OwedFree /\ UsesReady
      /\ StmtsBelow
  BY DEF TInv
<1>4. \A v \in Uses(Top) : Ready(sb, v)
  BY <1>1, <1>2, <1>3 DEF UsesReady
<1>5. Numbered(d) =>
        /\ d[2] \in Nat /\ d[2] < next_reg
        /\ ~Makes(sb, d)
        /\ \A j \in 1 .. N - 1 : stack[j].var # d
  BY <1>1, <1>2, <1>3 DEF OwedFree
<1>6. /\ MakesOnce(sb') /\ ReadsReady(sb')
      /\ \A v : Numbered(v) /\ Makes(sb', v) => Makes(sb, v) \/ v = d
      /\ LabelFree(lines, 1, Len(lines)) =>
           /\ \A v : Ready(sb, v) => Ready(sb', v)
           /\ Len(lines) > 0 => Ready(sb', lines[Len(lines)].def)
  BY <1>1, <1>2, <1>3, <1>4, <1>5, AddLines
<1>7. MadeDrawn'
  BY <1>3, <1>5, <1>6 DEF MadeDrawn
<1>8. OwedFree'
  <2> SUFFICES ASSUME NEW k \in 1 .. N - 1, Numbered(stack[k].var)
               PROVE  /\ stack[k].var[2] \in Nat /\ stack[k].var[2] < next_reg
                      /\ ~Makes(sb', stack[k].var)
                      /\ \A j \in 1 .. k - 1 : stack[j].var # stack[k].var
    <3>1. \A k \in 1 .. N - 1 : \A j \in 1 .. k - 1 : j \in 1 .. N - 1
      BY <1>1
    <3> QED
      BY <1>1, <3>1 DEF OwedFree
  <2>1. k \in 1 .. Len(stack)
    BY <1>1, <1>2
  <2> QED
    BY <1>3, <1>5, <1>6, <2>1 DEF OwedFree
<1>9. UsesReady'
  <2> SUFFICES ASSUME NEW k \in 1 .. N - 1, NEW v \in Uses(stack[k])
               PROVE  Ready(sb', v) \/ (k < N - 1 /\ stack[k + 1].var = v)
    <3>1. \A k \in 1 .. N - 1 : k < N - 1 => stack'[k + 1] = stack[k + 1]
      BY <1>1
    <3> QED
      BY <1>1, <3>1 DEF UsesReady
  <2>1. \A w : Ready(sb, w) => Ready(sb', w) \/ Top.node \in Stmts(Node)
    BY <1>6
  <2>2. Ready(sb', v) \/ stack[k + 1].var = v
    BY <1>2, <2>1, UsedBelow
  <2>3. CASE k = N - 1 /\ Top.node \in Stmts(Node)
    <3>1. stack[k].pc \in StmtPCs
      BY <1>1, <1>2, <1>3, <2>3 DEF StmtsBelow
    <3> QED
      BY <3>1, UsesIs
  <2>4. CASE k = N - 1 /\ Top.node \notin Stmts(Node)
    <3>1. Ready(sb', Top.var)
      BY <1>6, <2>4
    <3>2. k + 1 = N
      BY <1>1, <2>4
    <3> QED
      BY <1>1, <2>2, <3>1, <3>2
  <2> QED
    BY <1>1, <2>2, <2>3, <2>4
<1>10. StmtsBelow'
  <2>1. \A k \in 1 .. N - 1 : k \in 1 .. N /\ \A j \in 1 .. k - 1 : j \in 1 .. N - 1
    BY <1>1
  <2> QED
    BY <1>1, <1>2, <1>3, <2>1 DEF StmtsBelow
<1> QED
  BY <1>6, <1>7, <1>8, <1>9, <1>10 DEF TInv

(* Steps that add no line. *)
LEMMA NoAdds == \A U, d : Adds(<< >>, U, d) /\ LabelFree(<< >>, 1, Len(<< >>))
<1>1. IsSeq(<< >>)
  BY NoText DEF Text
<1>2. 1 .. Len(<< >>) = {}
  OBVIOUS
<1> QED
  BY <1>1, <1>2, Zenon DEF Adds, LabelFree

LEMMA QuietCallTemps ==
  ASSUME IInv, TInv, stack # << >>, sb' = sb,
         NEW top, top.var = Top.var, top.node = Top.node,
         NEW node, NEW var, Call(top, node, var),
         \/ ~Numbered(var) /\ next_reg' = next_reg
         \/ \E p : var = Reg(p, next_reg) /\ next_reg' = next_reg + 1,
         Uses(top) \subseteq Uses(Top) \cup {var},
         node \in Stmts(Node) => Top.node \in Stmts(Node) /\ top.pc \in StmtPCs
  PROVE  TInv'
<1>1. BuilderAdd(<< >>) /\ next_reg \in Nat
  BY ConcatEmptySeq DEF IInv, TypeOK, BuilderAdd
<1>2. /\ next_reg' \in Nat /\ next_reg <= next_reg'
      /\ Numbered(var) => var[2] \in Nat /\ next_reg <= var[2] /\ var[2] < next_reg'
  BY <1>1 DEF Reg
<1>3. /\ Adds(<< >>, Uses(Top), None)
      /\ LabelFree(<< >>, 1, Len(<< >>)) \/ Top.node \in Stmts(Node)
      /\ \A v \in Uses(top) :
           v = var \/ (v \in Uses(Top) /\ LabelFree(<< >>, 1, Len(<< >>)))
  BY NoAdds
<1> DEFINE lines == << >>
<1> HIDE DEF lines
<1>4. /\ Adds(lines, Uses(Top), None) /\ BuilderAdd(lines)
      /\ LabelFree(lines, 1, Len(lines)) \/ Top.node \in Stmts(Node)
      /\ \A v \in Uses(top) :
           v = var \/ (v \in Uses(Top) /\ LabelFree(lines, 1, Len(lines)))
  BY <1>1, <1>3 DEF lines
<1> QED
  BY <1>1, <1>2, <1>4, CallTemps

(* Lines that neither use nor compute a temporary. *)
Silent(line) ==
  /\ ~Numbered(line.def)
  /\ \A a \in 1 .. Len(line.args) : ~Numbered(line.args[a])

SilentText(lines) == IsSeq(lines) /\ \A k \in 1 .. Len(lines) : Silent(lines[k])

LEMMA SilentAdds ==
  ASSUME NEW lines, SilentText(lines), NEW U, NEW d
  PROVE  Adds(lines, U, d)
BY DEF SilentText, Silent, Adds

LEMMA SilentLines ==
  /\ \A l : Silent(Label(l)) /\ Silent(Jmp(l))
  /\ Silent(Ret(Name(".ret")))
  /\ Silent(Ins("copy", Name(".ret"), <<Imm(0)>>))
BY DEF Silent, Label, Jmp, Ret, Ins, Name, Imm, None, Numbered, NumberedPrefixes

LEMMA SilentTexts ==
  /\ SilentText(<< >>)
  /\ \A a : Silent(a) => SilentText(<<a>>)
  /\ \A a, b : Silent(a) /\ Silent(b) => SilentText(<<a, b>>)
  /\ \A l : SilentText(JmpUnlessTerminated(l))
<1>1. SilentText(<< >>)
  <2>1. IsSeq(<< >>)
    BY NoText DEF Text
  <2>2. 1 .. Len(<< >>) = {}
    OBVIOUS
  <2> QED
    BY <2>1, <2>2, Zenon DEF SilentText
<1>2. \A a : Silent(a) => SilentText(<<a>>)
  <2> SUFFICES ASSUME NEW a, Silent(a) PROVE SilentText(<<a>>)
    OBVIOUS
  <2> DEFINE t == <<a>>
  <2>1. t \in Seq({a}) /\ Len(t) = 1 /\ t[1] = a
    OBVIOUS
  <2> HIDE DEF t
  <2>2. IsSeq(t)
    BY <2>1, Zenon DEF IsSeq
  <2>3. SilentText(t)
    BY <2>1, <2>2 DEF SilentText
  <2> QED
    BY <2>3 DEF t
<1>3. \A a, b : Silent(a) /\ Silent(b) => SilentText(<<a, b>>)
  <2> SUFFICES ASSUME NEW a, NEW b, Silent(a), Silent(b) PROVE SilentText(<<a, b>>)
    OBVIOUS
  <2> DEFINE t == <<a, b>>
  <2>1. t \in Seq({a, b}) /\ Len(t) = 2 /\ t[1] = a /\ t[2] = b
    OBVIOUS
  <2> HIDE DEF t
  <2>2. IsSeq(t)
    BY <2>1, Zenon DEF IsSeq
  <2>3. SilentText(t)
    BY <2>1, <2>2 DEF SilentText
  <2> QED
    BY <2>3 DEF t
<1>4. \A l : SilentText(JmpUnlessTerminated(l))
  BY <1>1, <1>2, SilentLines DEF JmpUnlessTerminated
<1> QED
  BY <1>1, <1>2, <1>3, <1>4

LEMMA SilentConcat ==
  ASSUME NEW s, NEW t, SilentText(s), SilentText(t)
  PROVE  SilentText(s \o t)
<1>1. IsSeq(s) /\ IsSeq(t) /\ IsSeq(s \o t)
  BY ConcatAny DEF SilentText
<1>2. \A k \in 1 .. Len(s \o t) : Silent((s \o t)[k])
  <2> TAKE k \in 1 .. Len(s \o t)
  <2>1. CASE k <= Len(s)
    BY <1>1, <2>1, ConcatAt DEF SilentText
  <2>2. CASE k > Len(s)
    <3>1. k - Len(s) \in 1 .. Len(t) /\ (s \o t)[k] = t[k - Len(s)]
      BY <1>1, <2>2, ConcatAt
    <3> QED
      BY <3>1 DEF SilentText
  <2> QED
    BY <1>1, <2>1, <2>2, ConcatAt
<1> QED
  BY <1>1, <1>2 DEF SilentText

(* The end of a branch. *)
LEMMA SilentBranch == \A l, k : SilentText(JmpUnlessTerminated(l) \o <<Label(k)>>)
BY SilentConcat, SilentTexts, SilentLines

(* The two lines around the test of a condition. *)
LEMMA TestAdds ==
  ASSUME NEW arg, NEW l, NEW k, NEW h, NEW d
  PROVE  Adds(<<Jnz(arg, l, k), Label(h)>>, {arg}, d)
<1> DEFINE a == Jnz(arg, l, k)
           b == Label(h)
           lines == <<a, b>>
<1>1. Len(lines) = 2 /\ lines[1] = a /\ lines[2] = b /\ lines \in Seq({a, b})
  OBVIOUS
<1>2. Len(a.args) = 1 /\ a.args[1] = arg /\ ~Numbered(a.def) /\ ~IsLabel(a)
  BY LineKinds DEF Jnz, None, Numbered, NumberedPrefixes
<1>3. Silent(b)
  BY SilentLines
<1> HIDE DEF a, b, lines
<1>4. LabelFree(lines, 1, 1)
  BY <1>1, <1>2 DEF LabelFree
<1>5. IsSeq(lines)
  BY <1>1, Zenon DEF IsSeq
<1>6. Adds(lines, {arg}, d)
  BY <1>1, <1>2, <1>3, <1>4, <1>5 DEF Adds, Silent
<1> QED
  BY <1>6 DEF lines, a, b

(* Calls and returns of the functions for statements. *)
LEMMA StmtNode ==
  ASSUME NEW n \in Node
  PROVE  /\ n.kind \in StmtKinds => n \in Stmts(Node)
         /\ n \in Exprs(Node) => n \notin Stmts(Node)
BY DEF Stmts, Exprs, StmtKinds, ExprKinds

LEMMA Unnumbered ==
  /\ ~Numbered(None)
  /\ \A p \in {".ret", ".sexpr", ".init", ".post"} : ~Numbered(Name(p))
  /\ \A v : ~Numbered(Var(v)) /\ ~Numbered(Imm(v))
BY DEF None, Name, Var, Imm, Numbered, NumberedPrefixes

-----------------------------------------------------------------------------
(***************************************************************************)
(* The actions that call.                                                  *)
(***************************************************************************)
LEMMA BlockNextTemps == IInv /\ TInv /\ BlockNext => TInv'
<1> SUFFICES ASSUME IInv, TInv, BlockNext PROVE TInv'
  OBVIOUS
<1> DEFINE top == [Top EXCEPT !.pc = "list", !.i = @ + 1]
<1>1. phase = "generating" /\ stack # << >> /\ Top.node.kind = "NKSt_BLOCK"
  BY DEF BlockNext, At
<1>2. next_reg \in Nat /\ sb' = sb
  BY DEF BlockNext, IInv, TypeOK
<1>3. top.node = Top.node /\ top.pc = "list" /\ top.var = Top.var
  <2> DEFINE f == [Top EXCEPT !.pc = "list"]
  <2>1. f \in FrameType /\ f.pc = "list" /\ f.node = Top.node /\ f.var = Top.var
    BY <1>1, TopType DEF FrameType, PCs
  <2> HIDE DEF f
  <2>2. LET g == [f EXCEPT !.i = @ + 1]
        IN  g.pc = "list" /\ g.node = f.node /\ g.var = f.var
    BY <2>1 DEF FrameType
  <2> QED
    BY <2>1, <2>2 DEF f
<1>4. Call(top, Top.node.list[Top.i + 1], None)
  BY DEF BlockNext
<1> HIDE DEF top
<1>5. ~Numbered(None) /\ next_reg' = next_reg
  BY Unnumbered DEF BlockNext
<1>6. Uses(top) \subseteq Uses(Top) \cup {None}
  BY <1>1, <1>3, UsesIs DEF StmtPCs
<1>7. Top.node \in Stmts(Node) /\ top.pc \in StmtPCs
  BY <1>1, <1>3, TopType, StmtNode DEF StmtKinds, StmtPCs
<1> QED
  BY <1>1, <1>2, <1>3, <1>4, <1>5, <1>6, <1>7, QuietCallTemps

LEMMA ReturnValueTemps == IInv /\ TInv /\ ReturnValue => TInv'
<1> SUFFICES ASSUME IInv, TInv, ReturnValue PROVE TInv'
  OBVIOUS
<1> DEFINE top == [Top EXCEPT !.pc = "value", !.n = next_reg]
<1>1. phase = "generating" /\ stack # << >> /\ Top.node.kind = "NKSt_RETURN"
  BY DEF ReturnValue, At
<1>2. next_reg \in Nat /\ sb' = sb
  BY DEF ReturnValue, IInv, TypeOK
<1>3. top.node = Top.node /\ top.pc = "value" /\ top.var = Top.var /\ top.n = next_reg
  BY <1>1, <1>2, TopType DEF FrameType, PCs
<1>4. Call(top, Top.node.expr, Reg(".tmp", next_reg))
  BY DEF ReturnValue
<1> HIDE DEF top
<1>5. \E p : Reg(".tmp", next_reg) = Reg(p, next_reg) /\ next_reg' = next_reg + 1
  BY DEF ReturnValue, Draw
<1>6. Uses(top) \subseteq Uses(Top) \cup {Reg(".tmp", next_reg)}
  BY <1>1, <1>3, UsesIs DEF StmtPCs
<1>7. Top.node.expr \notin Stmts(Node)
  BY <1>1, TopType, Children, StmtNode DEF Exprs
<1> QED
  BY <1>1, <1>2, <1>3, <1>4, <1>5, <1>6, <1>7, QuietCallTemps

LEMMA StmtExprValueTemps == IInv /\ TInv /\ StmtExprValue => TInv'
<1> SUFFICES ASSUME IInv, TInv, StmtExprValue PROVE TInv'
  OBVIOUS
<1> DEFINE top == [Top EXCEPT !.pc = "value"]
<1>1. phase = "generating" /\ stack # << >> /\ Top.node.kind = "NKSt_EXPR"
  BY DEF StmtExprValue, At
<1>2. next_reg \in Nat /\ sb' = sb
  BY DEF StmtExprValue, IInv, TypeOK
<1>3. top.node = Top.node /\ top.pc = "value" /\ top.var = Top.var
  BY <1>1, <1>2, TopType DEF FrameType, PCs
<1>4. Call(top, Top.node.expr, Name(".sexpr"))
  BY DEF StmtExprValue
<1> HIDE DEF top
<1>5. ~Numbered(Name(".sexpr")) /\ next_reg' = next_reg
  BY Unnumbered DEF StmtExprValue
<1>6. Uses(top) \subseteq Uses(Top) \cup {Name(".sexpr")}
  BY <1>1, <1>3, UsesIs DEF StmtPCs
<1>7. Top.node.expr \notin Stmts(Node)
  BY <1>1, TopType, Children, StmtNode DEF Exprs
<1> QED
  BY <1>1, <1>2, <1>3, <1>4, <1>5, <1>6, <1>7, QuietCallTemps

LEMMA IfCondTemps == IInv /\ TInv /\ IfCond => TInv'
<1> SUFFICES ASSUME IInv, TInv, IfCond PROVE TInv'
  OBVIOUS
<1> DEFINE top == [Top EXCEPT !.pc = "cond", !.m = next_reg]
<1>1. phase = "generating" /\ stack # << >> /\ Top.node.kind = "NKSt_IF"
  BY DEF IfCond, At
<1>2. next_reg \in Nat /\ sb' = sb
  BY DEF IfCond, IInv, TypeOK
<1>3. top.node = Top.node /\ top.pc = "cond" /\ top.var = Top.var /\ top.m = next_reg
  BY <1>1, <1>2, TopType DEF FrameType, PCs
<1>4. Call(top, Top.node.cond, Reg(".cond", next_reg))
  BY DEF IfCond
<1> HIDE DEF top
<1>5. \E p : Reg(".cond", next_reg) = Reg(p, next_reg) /\ next_reg' = next_reg + 1
  BY DEF IfCond, Draw
<1>6. Uses(top) \subseteq Uses(Top) \cup {Reg(".cond", next_reg)}
  BY <1>1, <1>3, UsesIs DEF StmtPCs
<1>7. Top.node.cond \notin Stmts(Node)
  BY <1>1, TopType, Children, StmtNode DEF Exprs
<1> QED
  BY <1>1, <1>2, <1>3, <1>4, <1>5, <1>6, <1>7, QuietCallTemps

LEMMA ForPostTemps == IInv /\ TInv /\ ForPost => TInv'
<1> SUFFICES ASSUME IInv, TInv, ForPost PROVE TInv'
  OBVIOUS
<1> DEFINE top == [Top EXCEPT !.pc = "post"]
<1>1. phase = "generating" /\ stack # << >> /\ Top.node.kind = "NKSt_FOR"
  BY DEF ForPost, At
<1>2. next_reg \in Nat /\ sb' = sb
  BY DEF ForPost, IInv, TypeOK
<1>3. top.node = Top.node /\ top.pc = "post" /\ top.var = Top.var
  BY <1>1, <1>2, TopType DEF FrameType, PCs
<1>4. Call(top, Top.node.post, Name(".post"))
  BY DEF ForPost
<1> HIDE DEF top
<1>5. ~Numbered(Name(".post")) /\ next_reg' = next_reg
  BY Unnumbered DEF ForPost
<1>6. Uses(top) \subseteq Uses(Top) \cup {Name(".post")}
  BY <1>1, <1>3, UsesIs DEF StmtPCs
<1>7. Top.node.post \notin Stmts(Node)
  BY <1>1, TopType, Children, StmtNode DEF Exprs
<1> QED
  BY <1>1, <1>2, <1>3, <1>4, <1>5, <1>6, <1>7, QuietCallTemps

LEMMA UnaopOperandTemps == IInv /\ TInv /\ UnaopOperand => TInv'
<1> SUFFICES ASSUME IInv, TInv, UnaopOperand PROVE TInv'
  OBVIOUS
<1> DEFINE top == [Top EXCEPT !.pc = "operand", !.n = next_reg]
<1>1. phase = "generating" /\ stack # << >> /\ Top.node.kind = "NKEx_UNAOP"
  BY DEF UnaopOperand, At
<1>2. next_reg \in Nat /\ sb' = sb
  BY DEF UnaopOperand, IInv, TypeOK
<1>3. top.node = Top.node /\ top.pc = "operand" /\ top.var = Top.var /\ top.n = next_reg
  BY <1>1, <1>2, TopType DEF FrameType, PCs
<1>4. Call(top, Top.node.expr, Reg(".tmp.una", next_reg))
  BY DEF UnaopOperand
<1> HIDE DEF top
<1>5. \E p : Reg(".tmp.una", next_reg) = Reg(p, next_reg) /\ next_reg' = next_reg + 1
  BY DEF UnaopOperand, Draw
<1>6. Uses(top) \subseteq Uses(Top) \cup {Reg(".tmp.una", next_reg)}
  BY <1>1, <1>3, UsesIs DEF StmtPCs
<1>7. Top.node.expr \notin Stmts(Node)
  BY <1>1, TopType, Children, StmtNode DEF Exprs
<1> QED
  BY <1>1, <1>2, <1>3, <1>4, <1>5, <1>6, <1>7, QuietCallTemps

LEMMA AssRightTemps == IInv /\ TInv /\ AssRight => TInv'
<1> SUFFICES ASSUME IInv, TInv, AssRight PROVE TInv'
  OBVIOUS
<1> DEFINE top == [Top EXCEPT !.pc = "assigned", !.n = next_reg]
<1>1. phase = "generating" /\ stack # << >> /\ Top.node.kind = "NKEx_BINOP"
  BY DEF AssRight, At
<1>2. next_reg \in Nat /\ sb' = sb
  BY DEF AssRight, IInv, TypeOK
<1>3. top.node = Top.node /\ top.pc = "assigned" /\ top.var = Top.var /\ top.n = next_reg
  BY <1>1, <1>2, TopType DEF FrameType, PCs
<1>4. Call(top, Top.node.right, Reg(".tmp.ass", next_reg))
  BY DEF AssRight
<1> HIDE DEF top
<1>5. \E p : Reg(".tmp.ass", next_reg) = Reg(p, next_reg) /\ next_reg' = next_reg + 1
  BY DEF AssRight, Draw
<1>6. Uses(top) \subseteq Uses(Top) \cup {Reg(".tmp.ass", next_reg)}
  BY <1>1, <1>3, UsesIs DEF StmtPCs
<1>7. Top.node.right \notin Stmts(Node)
  BY <1>1, TopType, Children, StmtNode DEF Exprs
<1> QED
  BY <1>1, <1>2, <1>3, <1>4, <1>5, <1>6, <1>7, QuietCallTemps

LEMMA BinopLeftTemps == IInv /\ TInv /\ BinopLeft => TInv'
<1> SUFFICES ASSUME IInv, TInv, BinopLeft PROVE TInv'
  OBVIOUS
<1> DEFINE top == [Top EXCEPT !.pc = "left", !.n = next_reg]
<1>1. phase = "generating" /\ stack # << >> /\ Top.node.kind = "NKEx_BINOP"
  BY DEF BinopLeft, At
<1>2. next_reg \in Nat /\ sb' = sb
  BY DEF BinopLeft, IInv, TypeOK
<1>3. top.node = Top.node /\ top.pc = "left" /\ top.var = Top.var /\ top.n = next_reg
  BY <1>1, <1>2, TopType DEF FrameType, PCs
<1>4. Call(top, Top.node.left, Reg(".tmp.l", next_reg))
  BY DEF BinopLeft
<1> HIDE DEF top
<1>5. \E p : Reg(".tmp.l", next_reg) = Reg(p, next_reg) /\ next_reg' = next_reg + 1
  BY DEF BinopLeft, Draw
<1>6. Uses(top) \subseteq Uses(Top) \cup {Reg(".tmp.l", next_reg)}
  BY <1>1, <1>3, UsesIs DEF StmtPCs
<1>7. Top.node.left \notin Stmts(Node)
  BY <1>1, TopType, Children, StmtNode DEF Exprs
<1> QED
  BY <1>1, <1>2, <1>3, <1>4, <1>5, <1>6, <1>7, QuietCallTemps

LEMMA BinopRightTemps == IInv /\ TInv /\ BinopRight => TInv'
<1> SUFFICES ASSUME IInv, TInv, BinopRight PROVE TInv'
  OBVIOUS
<1> DEFINE top == [Top EXCEPT !.pc = "right", !.m = next_reg]
<1>1. phase = "generating" /\ stack # << >> /\ Top.node.kind = "NKEx_BINOP" /\ Top.pc = "left"
  BY DEF BinopRight, At
<1>2. next_reg \in Nat /\ sb' = sb
  BY DEF BinopRight, IInv, TypeOK
<1>3. top.node = Top.node /\ top.pc = "right" /\ top.var = Top.var /\ top.m = next_reg /\ top.n = Top.n
  BY <1>1, <1>2, TopType DEF FrameType, PCs
<1>4. Call(top, Top.node.right, Reg(".tmp.r", next_reg))
  BY DEF BinopRight
<1> HIDE DEF top
<1>5. \E p : Reg(".tmp.r", next_reg) = Reg(p, next_reg) /\ next_reg' = next_reg + 1
  BY DEF BinopRight, Draw
<1>6. Uses(top) \subseteq Uses(Top) \cup {Reg(".tmp.r", next_reg)}
  BY <1>1, <1>3, UsesIs DEF StmtPCs
<1>7. Top.node.right \notin Stmts(Node)
  BY <1>1, TopType, Children, StmtNode DEF Exprs
<1> QED
  BY <1>1, <1>2, <1>3, <1>4, <1>5, <1>6, <1>7, QuietCallTemps

LEMMA IfThenTemps == IInv /\ TInv /\ IfThen => TInv'
<1> SUFFICES ASSUME IInv, TInv, IfThen PROVE TInv'
  OBVIOUS
<1> DEFINE top == [Top EXCEPT !.pc = "then", !.n = next_reg]
           lines == <<Jnz(Reg(".cond", Top.m), Reg("@.if", next_reg), Reg("@.else", next_reg)),
                     Label(Reg("@.if", next_reg))>>
<1>1. /\ phase = "generating" /\ stack # << >>
      /\ Top.node.kind = "NKSt_IF" /\ Top.pc = "cond"
  BY DEF IfThen, At
<1>2. next_reg \in Nat /\ next_reg' \in Nat /\ next_reg <= next_reg'
  BY DEF IfThen, Draw, IInv, TypeOK
<1>3. top.node = Top.node /\ top.pc = "then" /\ top.var = Top.var
  BY <1>1, <1>2, TopType DEF FrameType, PCs
<1>4. Call(top, Top.node.block, None) /\ BuilderAdd(lines)
  BY DEF IfThen
<1>5. Adds(lines, Uses(Top), None)
  <2>1. Uses(Top) = {Reg(".cond", Top.m)}
    BY <1>1, UsesIs
  <2> QED
    BY <2>1, TestAdds
<1> HIDE DEF top, lines
<1>6. ~Numbered(None)
  BY Unnumbered
<1>7. \A v \in Uses(top) : v = None
  BY <1>3, UsesIs DEF StmtPCs
<1>8. Top.node \in Stmts(Node)
  BY <1>1, TopType, StmtNode DEF StmtKinds
<1>9. top.pc \in StmtPCs
  BY <1>3 DEF StmtPCs
<1> QED
  BY <1>1, <1>2, <1>3, <1>4, <1>5, <1>6, <1>7, <1>8, <1>9, CallTemps

LEMMA IfElseTemps == IInv /\ TInv /\ IfElse => TInv'
<1> SUFFICES ASSUME IInv, TInv, IfElse PROVE TInv'
  OBVIOUS
<1> DEFINE top == [Top EXCEPT !.pc = "else"]
           lines == JmpUnlessTerminated(Reg("@.endif", Top.n)) \o <<Label(Reg("@.else", Top.n))>>
<1>1. /\ phase = "generating" /\ stack # << >>
      /\ Top.node.kind = "NKSt_IF" /\ Top.pc = "then"
  BY DEF IfElse, At
<1>2. next_reg \in Nat /\ next_reg' \in Nat /\ next_reg <= next_reg'
  BY DEF IfElse, Draw, IInv, TypeOK
<1>3. top.node = Top.node /\ top.pc = "else" /\ top.var = Top.var
  BY <1>1, <1>2, TopType DEF FrameType, PCs
<1>4. Call(top, Top.node.ifnot, None) /\ BuilderAdd(lines)
  BY DEF IfElse
<1>5. Adds(lines, Uses(Top), None)
  <2>1. SilentText(lines)
    BY SilentBranch, SilentTexts, SilentLines
  <2> QED
    BY <2>1, SilentAdds
<1> HIDE DEF top, lines
<1>6. ~Numbered(None)
  BY Unnumbered
<1>7. \A v \in Uses(top) : v = None
  BY <1>3, UsesIs DEF StmtPCs
<1>8. Top.node \in Stmts(Node)
  BY <1>1, TopType, StmtNode DEF StmtKinds
<1>9. top.pc \in StmtPCs
  BY <1>3 DEF StmtPCs
<1> QED
  BY <1>1, <1>2, <1>3, <1>4, <1>5, <1>6, <1>7, <1>8, <1>9, CallTemps

LEMMA ForInitTemps == IInv /\ TInv /\ ForInit => TInv'
<1> SUFFICES ASSUME IInv, TInv, ForInit PROVE TInv'
  OBVIOUS
<1> DEFINE top == [Top EXCEPT !.pc = "init", !.n = next_reg]
           lines == <<Label(Reg("@.init", next_reg))>>
<1>1. /\ phase = "generating" /\ stack # << >>
      /\ Top.node.kind = "NKSt_FOR" /\ Top.pc = "enter"
  BY DEF ForInit, At
<1>2. next_reg \in Nat /\ next_reg' \in Nat /\ next_reg <= next_reg'
  BY DEF ForInit, Draw, IInv, TypeOK
<1>3. top.node = Top.node /\ top.pc = "init" /\ top.var = Top.var
  BY <1>1, <1>2, TopType DEF FrameType, PCs
<1>4. Call(top, Top.node.init, Name(".init")) /\ BuilderAdd(lines)
  BY DEF ForInit
<1>5. Adds(lines, Uses(Top), None)
  <2>1. SilentText(lines)
    BY SilentBranch, SilentTexts, SilentLines
  <2> QED
    BY <2>1, SilentAdds
<1> HIDE DEF top, lines
<1>6. ~Numbered(Name(".init"))
  BY Unnumbered
<1>7. \A v \in Uses(top) : v = Name(".init")
  BY <1>3, UsesIs DEF StmtPCs
<1>8. Top.node \in Stmts(Node)
  BY <1>1, TopType, StmtNode DEF StmtKinds
<1>9. Top.node.init \notin Stmts(Node)
  BY <1>1, TopType, Children, StmtNode DEF Exprs
<1> QED
  BY <1>1, <1>2, <1>3, <1>4, <1>5, <1>6, <1>7, <1>8, <1>9, CallTemps

LEMMA ForCheckTemps == IInv /\ TInv /\ ForCheck => TInv'
<1> SUFFICES ASSUME IInv, TInv, ForCheck PROVE TInv'
  OBVIOUS
<1> DEFINE top == [Top EXCEPT !.pc = "cond", !.m = next_reg]
           lines == <<Label(Reg("@.check", Top.n))>>
<1>1. /\ phase = "generating" /\ stack # << >>
      /\ Top.node.kind = "NKSt_FOR" /\ Top.pc = "init"
  BY DEF ForCheck, At
<1>2. next_reg \in Nat /\ next_reg' \in Nat /\ next_reg <= next_reg'
  BY DEF ForCheck, Draw, IInv, TypeOK
<1>3. top.node = Top.node /\ top.pc = "cond" /\ top.var = Top.var /\ top.m = next_reg
  BY <1>1, <1>2, TopType DEF FrameType, PCs
<1>4. Call(top, Top.node.cond, Reg(".cond", next_reg)) /\ BuilderAdd(lines)
  BY DEF ForCheck
<1>5. Adds(lines, Uses(Top), None)
  <2>1. SilentText(lines)
    BY SilentBranch, SilentTexts, SilentLines
  <2> QED
    BY <2>1, SilentAdds
<1> HIDE DEF top, lines
<1>6. /\ Reg(".cond", next_reg)[2] \in Nat
      /\ next_reg <= Reg(".cond", next_reg)[2] /\ Reg(".cond", next_reg)[2] < next_reg'
  BY <1>2 DEF ForCheck, Draw, Reg
<1>7. \A v \in Uses(top) : v = Reg(".cond", next_reg)
  BY <1>3, UsesIs DEF StmtPCs
<1>8. Top.node \in Stmts(Node)
  BY <1>1, TopType, StmtNode DEF StmtKinds
<1>9. Top.node.cond \notin Stmts(Node)
  BY <1>1, TopType, Children, StmtNode DEF Exprs
<1> QED
  BY <1>1, <1>2, <1>3, <1>4, <1>5, <1>6, <1>7, <1>8, <1>9, CallTemps

LEMMA ForBodyTemps == IInv /\ TInv /\ ForBody => TInv'
<1> SUFFICES ASSUME IInv, TInv, ForBody PROVE TInv'
  OBVIOUS
<1> DEFINE top == [Top EXCEPT !.pc = "body"]
           lines == <<Jnz(Reg(".cond", Top.m), Reg("@.loop", Top.n), Reg("@.endloop", Top.n)),
                     Label(Reg("@.loop", Top.n))>>
<1>1. /\ phase = "generating" /\ stack # << >>
      /\ Top.node.kind = "NKSt_FOR" /\ Top.pc = "cond"
  BY DEF ForBody, LoopBody, At
<1>2. next_reg \in Nat /\ next_reg' \in Nat /\ next_reg <= next_reg'
  BY DEF ForBody, LoopBody, Draw, IInv, TypeOK
<1>3. top.node = Top.node /\ top.pc = "body" /\ top.var = Top.var
  BY <1>1, <1>2, TopType DEF FrameType, PCs
<1>4. Call(top, Top.node.block, None) /\ BuilderAdd(lines)
  BY DEF ForBody, LoopBody
<1>5. Adds(lines, Uses(Top), None)
  <2>1. Uses(Top) = {Reg(".cond", Top.m)}
    BY <1>1, UsesIs
  <2> QED
    BY <2>1, TestAdds
<1> HIDE DEF top, lines
<1>6. ~Numbered(None)
  BY Unnumbered
<1>7. \A v \in Uses(top) : v = None
  BY <1>3, UsesIs DEF StmtPCs
<1>8. Top.node \in Stmts(Node)
  BY <1>1, TopType, StmtNode DEF StmtKinds
<1>9. top.pc \in StmtPCs
  BY <1>3 DEF StmtPCs
<1> QED
  BY <1>1, <1>2, <1>3, <1>4, <1>5, <1>6, <1>7, <1>8, <1>9, CallTemps

LEMMA WhileCheckTemps == IInv /\ TInv /\ WhileCheck => TInv'
<1> SUFFICES ASSUME IInv, TInv, WhileCheck PROVE TInv'
  OBVIOUS
<1> DEFINE top == [Top EXCEPT !.pc = "cond", !.n = next_reg, !.m = next_reg + 1]
           lines == <<Label(Reg("@.check", next_reg))>>
<1>1. /\ phase = "generating" /\ stack # << >>
      /\ Top.node.kind = "NKSt_FOR_WHILE" /\ Top.pc = "enter"
  BY DEF WhileCheck, At
<1>2. next_reg \in Nat /\ next_reg' \in Nat /\ next_reg <= next_reg'
  BY DEF WhileCheck, Draw, IInv, TypeOK
<1>3. top.node = Top.node /\ top.pc = "cond" /\ top.var = Top.var /\ top.m = next_reg + 1
  <2> DEFINE f == [Top EXCEPT !.pc = "cond", !.n = next_reg]
  <2>1. f \in FrameType /\ f.pc = "cond" /\ f.node = Top.node /\ f.var = Top.var
    BY <1>1, <1>2, TopType DEF FrameType, PCs
  <2> HIDE DEF f
  <2>2. LET g == [f EXCEPT !.m = next_reg + 1]
        IN  g.pc = "cond" /\ g.node = f.node /\ g.var = f.var /\ g.m = next_reg + 1
    BY <1>2, <2>1 DEF FrameType
  <2>3. top = [f EXCEPT !.m = next_reg + 1]
    BY DEF f
  <2> QED
    BY <2>1, <2>2, <2>3
<1>4. Call(top, Top.node.cond, Reg(".cond", next_reg + 1)) /\ BuilderAdd(lines)
  BY DEF WhileCheck
<1>5. Adds(lines, Uses(Top), None)
  <2>1. SilentText(lines)
    BY SilentBranch, SilentTexts, SilentLines
  <2> QED
    BY <2>1, SilentAdds
<1> HIDE DEF top, lines
<1>6. /\ Reg(".cond", next_reg + 1)[2] \in Nat
      /\ next_reg <= Reg(".cond", next_reg + 1)[2] /\ Reg(".cond", next_reg + 1)[2] < next_reg'
  BY <1>2 DEF WhileCheck, Draw, Reg
<1>7. \A v \in Uses(top) : v = Reg(".cond", next_reg + 1)
  BY <1>3, UsesIs DEF StmtPCs
<1>8. Top.node \in Stmts(Node)
  BY <1>1, TopType, StmtNode DEF StmtKinds
<1>9. Top.node.cond \notin Stmts(Node)
  BY <1>1, TopType, Children, StmtNode DEF Exprs
<1> QED
  BY <1>1, <1>2, <1>3, <1>4, <1>5, <1>6, <1>7, <1>8, <1>9, CallTemps

LEMMA WhileBodyTemps == IInv /\ TInv /\ WhileBody => TInv'
<1> SUFFICES ASSUME IInv, TInv, WhileBody PROVE TInv'
  OBVIOUS
<1> DEFINE top == [Top EXCEPT !.pc = "body"]
           lines == <<Jnz(Reg(".cond", Top.m), Reg("@.loop", Top.n), Reg("@.endloop", Top.n)),
                     Label(Reg("@.loop", Top.n))>>
<1>1. /\ phase = "generating" /\ stack # << >>
      /\ Top.node.kind = "NKSt_FOR_WHILE" /\ Top.pc = "cond"
  BY DEF WhileBody, LoopBody, At
<1>2. next_reg \in Nat /\ next_reg' \in Nat /\ next_reg <= next_reg'
  BY DEF WhileBody, LoopBody, Draw, IInv, TypeOK
<1>3. top.node = Top.node /\ top.pc = "body" /\ top.var = Top.var
  BY <1>1, <1>2, TopType DEF FrameType, PCs
<1>4. Call(top, Top.node.block, None) /\ BuilderAdd(lines)
  BY DEF WhileBody, LoopBody
<1>5. Adds(lines, Uses(Top), None)
  <2>1. Uses(Top) = {Reg(".cond", Top.m)}
    BY <1>1, UsesIs
  <2> QED
    BY <2>1, TestAdds
<1> HIDE DEF top, lines
<1>6. ~Numbered(None)
  BY Unnumbered
<1>7. \A v \in Uses(top) : v = None
  BY <1>3, UsesIs DEF StmtPCs
<1>8. Top.node \in Stmts(Node)
  BY <1>1, TopType, StmtNode DEF StmtKinds
<1>9. top.pc \in StmtPCs
  BY <1>3 DEF StmtPCs
<1> QED
  BY <1>1, <1>2, <1>3, <1>4, <1>5, <1>6, <1>7, <1>8, <1>9, CallTemps

-----------------------------------------------------------------------------
(***************************************************************************)
(* The actions in which a function returns.                                *)
(***************************************************************************)
LEMMA BlockEndTemps == IInv /\ TInv /\ BlockEnd => TInv'
<1> SUFFICES ASSUME IInv, TInv, BlockEnd PROVE TInv'
  OBVIOUS
<1> DEFINE lines == << >>
<1>1. stack # << >> /\ Top.node.kind = "NKSt_BLOCK"
  BY DEF BlockEnd, At
<1>2. stack' = Front(stack) /\ UNCHANGED next_reg
  BY DEF BlockEnd, LeaveStmt
<1>3. BuilderAdd(lines)
  BY ConcatEmptySeq DEF BlockEnd, BuilderAdd, IInv, TypeOK
<1>4. SilentText(lines)
  BY SilentBranch, SilentTexts, SilentLines
<1> HIDE DEF lines
<1>5. Adds(lines, Uses(Top), None)
  BY <1>4, SilentAdds
<1>6. Top.node \in Stmts(Node)
  BY <1>1, TopType, StmtNode DEF StmtKinds
<1> QED
  BY <1>1, <1>2, <1>3, <1>5, <1>6, Unnumbered, LeaveTemps

LEMMA BlockTerminatedTemps == IInv /\ TInv /\ BlockTerminated => TInv'
<1> SUFFICES ASSUME IInv, TInv, BlockTerminated PROVE TInv'
  OBVIOUS
<1> DEFINE lines == << >>
<1>1. stack # << >> /\ Top.node.kind = "NKSt_BLOCK"
  BY DEF BlockTerminated, At
<1>2. stack' = Front(stack) /\ UNCHANGED next_reg
  BY DEF BlockTerminated, LeaveStmt
<1>3. BuilderAdd(lines)
  BY ConcatEmptySeq DEF BlockTerminated, BuilderAdd, IInv, TypeOK
<1>4. SilentText(lines)
  BY SilentBranch, SilentTexts, SilentLines
<1> HIDE DEF lines
<1>5. Adds(lines, Uses(Top), None)
  BY <1>4, SilentAdds
<1>6. Top.node \in Stmts(Node)
  BY <1>1, TopType, StmtNode DEF StmtKinds
<1> QED
  BY <1>1, <1>2, <1>3, <1>5, <1>6, Unnumbered, LeaveTemps

LEMMA StmtExprEndTemps == IInv /\ TInv /\ StmtExprEnd => TInv'
<1> SUFFICES ASSUME IInv, TInv, StmtExprEnd PROVE TInv'
  OBVIOUS
<1> DEFINE lines == << >>
<1>1. stack # << >> /\ Top.node.kind = "NKSt_EXPR"
  BY DEF StmtExprEnd, At
<1>2. stack' = Front(stack) /\ UNCHANGED next_reg
  BY DEF StmtExprEnd, LeaveStmt
<1>3. BuilderAdd(lines)
  BY ConcatEmptySeq DEF StmtExprEnd, BuilderAdd, IInv, TypeOK
<1>4. SilentText(lines)
  BY SilentBranch, SilentTexts, SilentLines
<1> HIDE DEF lines
<1>5. Adds(lines, Uses(Top), None)
  BY <1>4, SilentAdds
<1>6. Top.node \in Stmts(Node)
  BY <1>1, TopType, StmtNode DEF StmtKinds
<1> QED
  BY <1>1, <1>2, <1>3, <1>5, <1>6, Unnumbered, LeaveTemps

LEMMA IfNoElseTemps == IInv /\ TInv /\ IfNoElse => TInv'
<1> SUFFICES ASSUME IInv, TInv, IfNoElse PROVE TInv'
  OBVIOUS
<1> DEFINE lines == JmpUnlessTerminated(Reg("@.endif", Top.n))
                      \o <<Label(Reg("@.else", Top.n))>>
                      \o JmpUnlessTerminated(Reg("@.endif", Top.n))
                      \o <<Label(Reg("@.endif", Top.n))>>
<1>1. stack # << >> /\ Top.node.kind = "NKSt_IF"
  BY DEF IfNoElse, At
<1>2. stack' = Front(stack) /\ UNCHANGED next_reg
  BY DEF IfNoElse, LeaveStmt
<1>3. BuilderAdd(lines)
  BY DEF IfNoElse
<1>4. SilentText(lines)
  <2>1. SilentText(JmpUnlessTerminated(Reg("@.endif", Top.n))
                     \o <<Label(Reg("@.else", Top.n))>>
                     \o JmpUnlessTerminated(Reg("@.endif", Top.n)))
    BY SilentBranch, SilentTexts, SilentConcat
  <2> QED
    BY <2>1, SilentTexts, SilentLines, SilentConcat
<1> HIDE DEF lines
<1>5. Adds(lines, Uses(Top), None)
  BY <1>4, SilentAdds
<1>6. Top.node \in Stmts(Node)
  BY <1>1, TopType, StmtNode DEF StmtKinds
<1> QED
  BY <1>1, <1>2, <1>3, <1>5, <1>6, Unnumbered, LeaveTemps

LEMMA IfEndTemps == IInv /\ TInv /\ IfEnd => TInv'
<1> SUFFICES ASSUME IInv, TInv, IfEnd PROVE TInv'
  OBVIOUS
<1> DEFINE lines == JmpUnlessTerminated(Reg("@.endif", Top.n)) \o <<Label(Reg("@.endif", Top.n))>>
<1>1. stack # << >> /\ Top.node.kind = "NKSt_IF"
  BY DEF IfEnd, At
<1>2. stack' = Front(stack) /\ UNCHANGED next_reg
  BY DEF IfEnd, LeaveStmt
<1>3. BuilderAdd(lines)
  BY DEF IfEnd
<1>4. SilentText(lines)
  BY SilentBranch, SilentTexts, SilentLines
<1> HIDE DEF lines
<1>5. Adds(lines, Uses(Top), None)
  BY <1>4, SilentAdds
<1>6. Top.node \in Stmts(Node)
  BY <1>1, TopType, StmtNode DEF StmtKinds
<1> QED
  BY <1>1, <1>2, <1>3, <1>5, <1>6, Unnumbered, LeaveTemps

LEMMA ForRepeatTemps == IInv /\ TInv /\ ForRepeat => TInv'
<1> SUFFICES ASSUME IInv, TInv, ForRepeat PROVE TInv'
  OBVIOUS
<1> DEFINE lines == <<Jmp(Reg("@.check", Top.n)), Label(Reg("@.endloop", Top.n))>>
<1>1. stack # << >> /\ Top.node.kind = "NKSt_FOR"
  BY DEF ForRepeat, At
<1>2. stack' = Front(stack) /\ UNCHANGED next_reg
  BY DEF ForRepeat, LeaveStmt
<1>3. BuilderAdd(lines)
  BY DEF ForRepeat
<1>4. SilentText(lines)
  BY SilentBranch, SilentTexts, SilentLines
<1> HIDE DEF lines
<1>5. Adds(lines, Uses(Top), None)
  BY <1>4, SilentAdds
<1>6. Top.node \in Stmts(Node)
  BY <1>1, TopType, StmtNode DEF StmtKinds
<1> QED
  BY <1>1, <1>2, <1>3, <1>5, <1>6, Unnumbered, LeaveTemps

LEMMA ForTerminatedTemps == IInv /\ TInv /\ ForTerminated => TInv'
<1> SUFFICES ASSUME IInv, TInv, ForTerminated PROVE TInv'
  OBVIOUS
<1> DEFINE lines == <<Label(Reg("@.endloop", Top.n))>>
<1>1. stack # << >> /\ Top.node.kind = "NKSt_FOR"
  BY DEF ForTerminated, At
<1>2. stack' = Front(stack) /\ UNCHANGED next_reg
  BY DEF ForTerminated, LeaveStmt
<1>3. BuilderAdd(lines)
  BY DEF ForTerminated
<1>4. SilentText(lines)
  BY SilentBranch, SilentTexts, SilentLines
<1> HIDE DEF lines
<1>5. Adds(lines, Uses(Top), None)
  BY <1>4, SilentAdds
<1>6. Top.node \in Stmts(Node)
  BY <1>1, TopType, StmtNode DEF StmtKinds
<1> QED
  BY <1>1, <1>2, <1>3, <1>5, <1>6, Unnumbered, LeaveTemps

LEMMA WhileEndTemps == IInv /\ TInv /\ WhileEnd => TInv'
<1> SUFFICES ASSUME IInv, TInv, WhileEnd PROVE TInv'
  OBVIOUS
<1> DEFINE lines == JmpUnlessTerminated(Reg("@.check", Top.n)) \o <<Label(Reg("@.endloop", Top.n))>>
<1>1. stack # << >> /\ Top.node.kind = "NKSt_FOR_WHILE"
  BY DEF WhileEnd, At
<1>2. stack' = Front(stack) /\ UNCHANGED next_reg
  BY DEF WhileEnd, LeaveStmt
<1>3. BuilderAdd(lines)
  BY DEF WhileEnd
<1>4. SilentText(lines)
  BY SilentBranch, SilentTexts, SilentLines
<1> HIDE DEF lines
<1>5. Adds(lines, Uses(Top), None)
  BY <1>4, SilentAdds
<1>6. Top.node \in Stmts(Node)
  BY <1>1, TopType, StmtNode DEF StmtKinds
<1> QED
  BY <1>1, <1>2, <1>3, <1>5, <1>6, Unnumbered, LeaveTemps

(* A line that uses temporaries of U and computes d. *)
Computes(line, U, d) ==
  /\ ~IsLabel(line) /\ line.def = d
  /\ \A a \in 1 .. Len(line.args) : Numbered(line.args[a]) => line.args[a] \in U

LEMMA InsComputes ==
  ASSUME NEW op, op \notin {"label", "jmp", "jnz", "ret"}, NEW d, NEW U
  PROVE  /\ \A x : ~Numbered(x) \/ x \in U => Computes(Ins(op, d, <<x>>), U, d)
         /\ \A x, y : /\ ~Numbered(x) \/ x \in U
                      /\ ~Numbered(y) \/ y \in U
                      => Computes(Ins(op, d, <<x, y>>), U, d)
<1>1. \A x : ~Numbered(x) \/ x \in U => Computes(Ins(op, d, <<x>>), U, d)
  <2> SUFFICES ASSUME NEW x, ~Numbered(x) \/ x \in U
               PROVE  Computes(Ins(op, d, <<x>>), U, d)
    OBVIOUS
  <2> DEFINE line == Ins(op, d, <<x>>)
  <2>1. line.def = d /\ Len(line.args) = 1 /\ line.args[1] = x /\ ~IsLabel(line)
    BY LineKinds DEF Ins
  <2> QED
    BY <2>1 DEF Computes
<1>2. ASSUME NEW x, NEW y, ~Numbered(x) \/ x \in U, ~Numbered(y) \/ y \in U
      PROVE  Computes(Ins(op, d, <<x, y>>), U, d)
  <2> DEFINE line == Ins(op, d, <<x, y>>)
  <2>1. /\ line.def = d /\ ~IsLabel(line)
        /\ Len(line.args) = 2 /\ line.args[1] = x /\ line.args[2] = y
    BY LineKinds DEF Ins
  <2> HIDE DEF line
  <2>2. Computes(line, U, d)
    BY <1>2, <2>1 DEF Computes
  <2> QED
    BY <2>2 DEF line
<1> QED
  BY <1>1, <1>2

LEMMA OneAdds ==
  ASSUME NEW line, NEW U, NEW d, Computes(line, U, d)
  PROVE  LET lines == <<line>>
         IN  /\ Adds(lines, U, d) /\ LabelFree(lines, 1, Len(lines))
             /\ Len(lines) > 0 /\ lines[Len(lines)].def = d
<1> DEFINE lines == <<line>>
<1>1. lines \in Seq({line}) /\ Len(lines) = 1 /\ lines[1] = line
  OBVIOUS
<1> HIDE DEF lines
<1>2. IsSeq(lines)
  BY <1>1, Zenon DEF IsSeq
<1>3. LabelFree(lines, 1, 1)
  BY <1>1 DEF LabelFree, Computes
<1>4. /\ Adds(lines, U, d) /\ LabelFree(lines, 1, Len(lines))
      /\ Len(lines) > 0 /\ lines[Len(lines)].def = d
  BY <1>1, <1>2, <1>3 DEF Adds, Computes
<1> QED
  BY <1>4 DEF lines

LEMMA ReturnJumpTemps == IInv /\ TInv /\ ReturnJump => TInv'
<1> SUFFICES ASSUME IInv, TInv, ReturnJump PROVE TInv'
  OBVIOUS
<1> DEFINE a == Ins("copy", Name(".ret"), <<Reg(".tmp", Top.n)>>)
           b == Jmp(RetLabel)
           lines == <<a, b>>
<1>1. stack # << >> /\ Top.node.kind = "NKSt_RETURN" /\ Top.pc = "value"
  BY DEF ReturnJump, At
<1>2. stack' = Front(stack) /\ UNCHANGED next_reg /\ BuilderAdd(lines)
  BY DEF ReturnJump, LeaveStmt
<1>3. Uses(Top) = {Reg(".tmp", Top.n)}
  BY <1>1, UsesIs
<1>4. Computes(a, Uses(Top), Name(".ret")) /\ ~Numbered(a.def)
  BY <1>3, InsComputes, Unnumbered DEF Ins
<1>5. Silent(b)
  BY SilentLines
<1>6. Len(lines) = 2 /\ lines[1] = a /\ lines[2] = b /\ lines \in Seq({a, b})
  OBVIOUS
<1> HIDE DEF a, b, lines
<1>7. IsSeq(lines)
  BY <1>6, Zenon DEF IsSeq
<1>8. LabelFree(lines, 1, 1)
  BY <1>4, <1>6 DEF LabelFree, Computes
<1>9. Adds(lines, Uses(Top), None)
  BY <1>4, <1>5, <1>6, <1>7, <1>8 DEF Adds, Computes, Silent
<1>10. Top.node \in Stmts(Node)
  BY <1>1, TopType, StmtNode DEF StmtKinds
<1> QED
  BY <1>1, <1>2, <1>9, <1>10, Unnumbered, LeaveTemps

LEMMA ExprLitTemps == IInv /\ TInv /\ ExprLit => TInv'
<1> SUFFICES ASSUME IInv, TInv, ExprLit PROVE TInv'
  OBVIOUS
<1>1. stack # << >> /\ stack' = Front(stack) /\ UNCHANGED next_reg
  BY DEF ExprLit, At, LeaveExpr
<1>2. \E line : Computes(line, Uses(Top), Top.var) /\ BuilderAdd(<<line>>)
  <2>1. CASE Top.node.lit = "LK_ID"
    <3> DEFINE line == Ins("loadw", Top.var, <<Var(Top.node.str)>>)
    <3>1. Computes(line, Uses(Top), Top.var)
      BY InsComputes, Unnumbered
    <3>2. BuilderAdd(<<line>>)
      BY <2>1 DEF ExprLit
    <3> QED
      BY <3>1, <3>2
  <2>2. CASE Top.node.lit # "LK_ID"
    <3> DEFINE line == Ins("copy", Top.var, <<Imm(Top.node.str)>>)
    <3>1. Computes(line, Uses(Top), Top.var)
      BY InsComputes, Unnumbered
    <3>2. BuilderAdd(<<line>>)
      BY <2>2 DEF ExprLit
    <3> QED
      BY <3>1, <3>2
  <2> QED
    BY <2>1, <2>2
<1> QED
  BY <1>1, <1>2, OneAdds, LeaveTemps

LEMMA UnaopResultTemps == IInv /\ TInv /\ UnaopResult => TInv'
<1> SUFFICES ASSUME IInv, TInv, UnaopResult PROVE TInv'
  OBVIOUS
<1> DEFINE name == Reg(".tmp.una", Top.n)
<1>1. stack # << >> /\ stack' = Front(stack) /\ UNCHANGED next_reg
  BY DEF UnaopResult, At, LeaveExpr
<1>2. name \in Uses(Top)
  BY UsesIs DEF UnaopResult, At
<1>3. \E line : Computes(line, Uses(Top), Top.var) /\ BuilderAdd(<<line>>)
  <2>1. CASE Top.node.op = "UNAOP_NEG"
    <3> DEFINE line == Ins("mul", Top.var, <<name, Imm(-1)>>)
    <3>1. Computes(line, Uses(Top), Top.var)
      BY <1>2, InsComputes, Unnumbered
    <3>2. BuilderAdd(<<line>>)
      BY <2>1 DEF UnaopResult
    <3> QED
      BY <3>1, <3>2
  <2>2. CASE Top.node.op # "UNAOP_NEG"
    <3> DEFINE line == Ins("loadw", Top.var, <<name>>)
    <3>1. Computes(line, Uses(Top), Top.var)
      BY <1>2, InsComputes
    <3>2. BuilderAdd(<<line>>)
      BY <2>2 DEF UnaopResult
    <3> QED
      BY <3>1, <3>2
  <2> QED
    BY <2>1, <2>2
<1> QED
  BY <1>1, <1>3, OneAdds, LeaveTemps

LEMMA BinopResultTemps == IInv /\ TInv /\ BinopResult => TInv'
<1> SUFFICES ASSUME IInv, TInv, BinopResult PROVE TInv'
  OBVIOUS
<1> DEFINE op == BinopkToStr(Top.node.op)
           line == Ins(op, Top.var, <<Reg(".tmp.l", Top.n), Reg(".tmp.r", Top.m)>>)
<1>1. /\ stack # << >> /\ stack' = Front(stack) /\ UNCHANGED next_reg
      /\ Top.node.kind = "NKEx_BINOP" /\ Top.pc = "right"
  BY DEF BinopResult, At, LeaveExpr
<1>2. Uses(Top) = {Reg(".tmp.l", Top.n), Reg(".tmp.r", Top.m)}
  BY <1>1, UsesIs
<1>3. op \notin {"label", "jmp", "jnz", "ret"}
  <2>1. Top.node.op \in BinopKind \ {"BINOP_ASS"}
    BY <1>1, TopType, Children DEF FrameOK
  <2> QED
    BY <2>1 DEF BinopKind, ArithKind, BinopkToStr
<1> HIDE DEF op
<1>4. Computes(line, Uses(Top), Top.var)
  BY <1>2, <1>3, InsComputes
<1>5. BuilderAdd(<<line>>)
  BY DEF BinopResult, op
<1> HIDE DEF line
<1> QED
  BY <1>1, <1>4, <1>5, OneAdds, LeaveTemps

LEMMA AssStoreTemps == IInv /\ TInv /\ AssStore => TInv'
<1> SUFFICES ASSUME IInv, TInv, AssStore PROVE TInv'
  OBVIOUS
<1> DEFINE var == Var(Top.node.left.str)
           name == Reg(".tmp.ass", Top.n)
           U == Uses(Top)
           a == Ins("alloc4", var, <<Imm(1)>>)
           b == Store(name, var)
           c == Ins("copy", Top.var, <<name>>)
           lines == <<a, b, c>>
<1>1. stack # << >> /\ stack' = Front(stack) /\ UNCHANGED next_reg
  BY DEF AssStore, At, LeaveExpr
<1>2. name \in U
  BY UsesIs DEF AssStore, At
<1>3. BuilderAdd(lines)
  BY DEF AssStore
<1>4. Computes(a, U, var) /\ Computes(b, U, None) /\ Computes(c, U, Top.var)
  BY <1>2, InsComputes, Unnumbered DEF Store
<1>5. ~Numbered(var) /\ ~Numbered(None)
  BY Unnumbered
<1>6. /\ Len(lines) = 3 /\ lines[1] = a /\ lines[2] = b /\ lines[3] = c
      /\ lines \in Seq({a, b, c})
  OBVIOUS
<1> HIDE DEF var, U, a, b, c, lines
<1>7. IsSeq(lines)
  BY <1>6, Zenon DEF IsSeq
<1>8. \A k \in 1 .. 3 : LabelFree(lines, 1, k)
  BY <1>4, <1>6 DEF LabelFree, Computes
<1>9. Adds(lines, U, Top.var)
  BY <1>4, <1>5, <1>6, <1>7, <1>8 DEF Adds, Computes
<1>10. /\ LabelFree(lines, 1, Len(lines)) /\ Len(lines) > 0
       /\ lines[Len(lines)].def = Top.var
  BY <1>4, <1>6, <1>8 DEF Computes
<1> QED
  BY <1>1, <1>3, <1>9, <1>10, LeaveTemps DEF U

-----------------------------------------------------------------------------
(***************************************************************************)
(* The first step, the last one and the exit.                              *)
(***************************************************************************)
LEMMA SilentStep ==
  ASSUME NEW s, IsSeq(s), MakesOnce(s), ReadsReady(s), NEW lines, SilentText(lines)
  PROVE  /\ MakesOnce(s \o lines)
         /\ ReadsReady(s \o lines)
         /\ \A v : Numbered(v) /\ Makes(s \o lines, v) => Makes(s, v)
<1>1. Adds(lines, {}, None) /\ ~Numbered(None)
  BY SilentAdds, Unnumbered
<1> QED
  BY <1>1, AddLines

LEMMA NoTemps == MakesOnce(<< >>) /\ ReadsReady(<< >>) /\ \A v : ~Makes(<< >>, v)
<1>1. 1 .. Len(<< >>) = {}
  OBVIOUS
<1> QED
  BY <1>1, Zenon DEF MakesOnce, ReadsReady, Makes

LEMMA InitTemps == Init => TInv
<1> SUFFICES ASSUME Init PROVE TInv
  OBVIOUS
<1>1. sb = << >> /\ stack = << >> /\ 1 .. Len(stack) = {}
  BY DEF Init
<1>2. MakesOnce(sb) /\ ReadsReady(sb) /\ MadeDrawn
  BY <1>1, NoTemps DEF MadeDrawn
<1> QED
  BY <1>1, <1>2, Zenon DEF TInv, OwedFree, UsesReady, StmtsBelow

LEMMA CodegenStartTemps == IInv /\ CodegenStart => TInv'
<1> SUFFICES ASSUME IInv, CodegenStart PROVE TInv'
  OBVIOUS
<1> DEFINE lines == <<Label(Name("@start")), Ins("copy", Name(".ret"), <<Imm(0)>>)>>
           root == Frame(ast, None)
<1>1. sb' = lines /\ stack' = <<root>>
  BY DEF CodegenStart
<1>2. SilentText(lines)
  BY SilentLines, SilentTexts
<1>3. Len(stack') = 1 /\ stack'[1] = root /\ root.pc = "enter" /\ root.var = None
  BY <1>1 DEF Frame
<1> HIDE DEF lines, root
<1>4. << >> \o lines = lines /\ IsSeq(<< >>)
  <2>1. PICK S : lines \in Seq(S)
    BY <1>2, Zenon DEF SilentText, IsSeq
  <2> QED
    BY <2>1, ConcatEmptySeq, NoText DEF Text
<1>5. MakesOnce(sb') /\ ReadsReady(sb') /\ \A v : Numbered(v) => ~Makes(sb', v)
  BY <1>1, <1>2, <1>4, NoTemps, SilentStep
<1>6. MadeDrawn'
  BY <1>5 DEF MadeDrawn
<1>7. \A k \in 1 .. Len(stack') :
        /\ k = 1 /\ 1 .. k - 1 = {}
        /\ ~Numbered(stack'[k].var) /\ Uses(stack'[k]) = {}
  BY <1>3, Unnumbered, UsesIs
<1>8. OwedFree' /\ UsesReady' /\ StmtsBelow'
  BY <1>7, Zenon DEF OwedFree, UsesReady, StmtsBelow
<1> QED
  BY <1>5, <1>6, <1>8 DEF TInv

LEMMA CodegenEndTemps == IInv /\ TInv /\ CodegenEnd => TInv'
<1> SUFFICES ASSUME IInv, TInv, CodegenEnd PROVE TInv'
  OBVIOUS
<1> DEFINE lines == <<Label(RetLabel), Ret(Name(".ret"))>>
<1>1. sb' = sb \o lines /\ stack' = << >> /\ UNCHANGED next_reg
  BY DEF CodegenEnd, BuilderAdd
<1>2. SilentText(lines)
  BY SilentLines, SilentTexts
<1> HIDE DEF lines
<1>3. IsSeq(sb)
  <2>1. sb \in Seq(Line)
    BY DEF IInv, TypeOK
  <2> QED
    BY <2>1, Zenon DEF IsSeq
<1>4. /\ MakesOnce(sb') /\ ReadsReady(sb')
      /\ \A v : Numbered(v) /\ Makes(sb', v) => Makes(sb, v)
  BY <1>1, <1>2, <1>3, SilentStep DEF TInv
<1>5. MadeDrawn'
  BY <1>1, <1>4 DEF TInv, MadeDrawn
<1>6. 1 .. Len(stack') = {}
  BY <1>1
<1>7. OwedFree' /\ UsesReady' /\ StmtsBelow'
  BY <1>6, Zenon DEF OwedFree, UsesReady, StmtsBelow
<1> QED
  BY <1>4, <1>5, <1>7 DEF TInv

LEMMA UnaopAddrTemps == TInv /\ UnaopAddr => TInv'
BY DEF TInv, UnaopAddr, MadeDrawn, OwedFree, UsesReady, StmtsBelow

LEMMA StutterTemps == TInv /\ UNCHANGED vars => TInv'
BY DEF TInv, vars, MadeDrawn, OwedFree, UsesReady, StmtsBelow

-----------------------------------------------------------------------------
LEMMA NextTemps == IInv /\ TInv /\ [Next]_vars => TInv'
<1>1. IInv /\ TInv /\ GenStmt => TInv'
  BY BlockNextTemps, BlockEndTemps, BlockTerminatedTemps, ReturnValueTemps,
     ReturnJumpTemps, StmtExprValueTemps, StmtExprEndTemps, IfCondTemps,
     IfThenTemps, IfElseTemps, IfNoElseTemps, IfEndTemps, ForInitTemps,
     ForCheckTemps, ForBodyTemps, ForPostTemps, ForRepeatTemps,
     ForTerminatedTemps, WhileCheckTemps, WhileBodyTemps, WhileEndTemps
     DEF GenStmt
<1>2. IInv /\ TInv /\ GenExpr => TInv'
  BY ExprLitTemps, UnaopOperandTemps, UnaopResultTemps, UnaopAddrTemps,
     AssRightTemps, AssStoreTemps, BinopLeftTemps, BinopRightTemps,
     BinopResultTemps DEF GenExpr
<1> QED
  BY <1>1, <1>2, CodegenStartTemps, CodegenEndTemps, StutterTemps DEF Next

LEMMA InductiveTemps == Spec => []TInv
<1>1. Init => TInv
  BY InitTemps
<1>2. IInv /\ TInv /\ [Next]_vars => TInv'
  BY NextTemps
<1> QED
  BY <1>1, <1>2, Inductive, PTL DEF Spec

(* No two lines compute the same numbered temporary, on any tree: whatever
   operands and statements are generated between the line that computes a
   value and the line that uses it, none of them overwrites it. *)
THEOREM TempsAreAssignedOnce == Spec => []TempsAssignedOnce
<1>1. TInv => TempsAssignedOnce
  BY DEF TInv, MakesOnce, TempsAssignedOnce
<1> QED
  BY <1>1, InductiveTemps, PTL

(* On any tree, a numbered temporary that a line uses was computed by an
   earlier line of the same block: the operands of an operator stay in the
   block of the operator however deep they are, and the test of a condition
   comes before the label of the branch. *)
THEOREM TempsAreBlockLocal == Spec => []TempsBlockLocal
<1>1. TInv => TempsBlockLocal
  BY DEF TInv, ReadsReady, LabelFree, TempsBlockLocal
<1> QED
  BY <1>1, InductiveTemps, PTL

-----------------------------------------------------------------------------
(***************************************************************************)
(* The trees that are refused: the inductive invariant.                    *)
(***************************************************************************)

(* The child whose function a frame has called. *)
Child(f) ==
  CASE f.pc = "list" -> f.node.list[f.i]
    [] f.pc \in {"value", "operand"} -> f.node.expr
    [] f.pc = "cond" -> f.node.cond
    [] f.pc \in {"then", "body"} -> f.node.block
    [] f.pc = "else" -> f.node.ifnot
    [] f.pc = "init" -> f.node.init
    [] f.pc = "post" -> f.node.post
    [] f.pc = "assigned" -> f.node.right
    [] f.pc = "left" -> f.node.left
    [] f.pc = "right" -> f.node.right

(* The children it has done with. *)
Passed(f) ==
  CASE f.pc = "list" -> {f.node.list[k] : k \in 1 .. f.i - 1}
    [] f.pc = "then" -> {f.node.cond}
    [] f.pc = "else" -> {f.node.cond, f.node.block}
    [] f.pc = "cond" /\ f.node.kind = "NKSt_FOR" -> {f.node.init}
    [] f.pc = "body" /\ f.node.kind = "NKSt_FOR" -> {f.node.init, f.node.cond}
    [] f.pc = "body" /\ f.node.kind = "NKSt_FOR_WHILE" -> {f.node.cond}
    [] f.pc = "post" -> {f.node.init, f.node.cond, f.node.block}
    [] f.pc = "right" -> {f.node.left}
    [] OTHER -> {}

(* What a frame knows of its node: what it has done with is not refused, the
   list of a block was not left and the post expression of a for not left out,
   and an address operator calls nothing.  What it refuses the tree refuses. *)
Settled(f, tree) ==
  /\ \A c \in Passed(f) : ~Refused[c]
  /\ f.pc = "enter" => f.i = 0
  /\ f.pc = "list" => /\ f.i \in 1 .. Len(f.node.list)
                      /\ \A k \in 1 .. f.i - 1 : ~Returns[f.node.list[k]]
  /\ f.pc = "post" => ~Returns[f.node.block]
  /\ f.pc # "enter" => ~IsAddress(f.node)
  /\ Refused[f.node] => Refused[tree]

(* The function that was called on n has returned, codegen_stmt with b. *)
Over(n, b) == ~Refused[n] /\ (n \in Stmts(Node) => b = Returns[n])

RInv ==
  /\ \A k \in 1 .. Len(stack) : Settled(stack[k], ast)
  /\ \A k \in 1 .. Len(stack) - 1 : stack[k + 1].node = Child(stack[k])
  /\ stack # << >> => stack[1].node = ast
  /\ phase = "generating" /\ stack # << >> /\ Top.pc # "enter" => Over(Child(Top), terminated)
  /\ phase = "generating" /\ stack = << >> => ~Refused[ast]
  /\ phase = "done" => ~Refused[ast]
  /\ phase = "error" => Refused[ast]

-----------------------------------------------------------------------------
(***************************************************************************)
(* The functions Returns and Refused are what their definitions say: both  *)
(* recursions have a solution, the least one, however the nodes hang       *)
(* together.                                                               *)
(***************************************************************************)
LEMMA ReturnsAre ==
  /\ Returns \in [Node -> BOOLEAN]
  /\ \A n \in Node :
       Returns[n] <=> \/ n.kind = "NKSt_RETURN"
                      \/ n.kind = "NKSt_BLOCK" /\ \E k \in 1 .. Len(n.list) : Returns[n.list[k]]
<1> DEFINE A == {n \in Node : n.kind = "NKSt_RETURN"}
           V == [n \in Node |-> IF n.kind = "NKSt_BLOCK"
                                THEN {n.list[k] : k \in 1 .. Len(n.list)} ELSE {}]
           Body(f, n) == \/ n.kind = "NKSt_RETURN"
                         \/ n.kind = "NKSt_BLOCK" /\ \E k \in 1 .. Len(n.list) : f[n.list[k]]
<1>1. A \in SUBSET Node
  OBVIOUS
<1>2. V \in [Node -> SUBSET Node]
  <2> SUFFICES ASSUME NEW n \in Node
               PROVE  V[n] \in SUBSET Node
    OBVIOUS
  <2>1. CASE n.kind = "NKSt_BLOCK"
    <3>1. n.list \in Seq(Stmts(Node))
      BY <2>1, Children
    <3>2. \A k \in 1 .. Len(n.list) : n.list[k] \in Stmts(Node)
      BY <3>1, ElementOfSeq
    <3> QED
      BY <2>1, <3>2 DEF Stmts
  <2> QED
    BY <2>1
<1>3. PICK f : Solves(f, Node, A, V)
  <2> HIDE DEF A, V
  <2> QED
    BY <1>1, <1>2, Solution
<1>4. \A n \in Node : (n \in A \/ \E c \in V[n] : f[c]) = Body(f, n)
  <2> TAKE n \in Node
  <2> DEFINE P == n \in A \/ \E c \in V[n] : f[c]
             Q == Body(f, n)
  <2>1. P \in BOOLEAN /\ Q \in BOOLEAN
    OBVIOUS
  <2>2. P <=> Q
    BY Zenon
  <2> HIDE DEF P, Q
  <2>3. P = Q
    BY <2>1, <2>2, BoolEq
  <2> QED
    BY <2>3 DEF P, Q
<1> HIDE DEF A, V
<1>5. f = [n \in Node |-> Body(f, n)]
  <2> HIDE DEF Body
  <2> QED
    BY <1>3, <1>4 DEF Solves
<1>6. Returns = [n \in Node |-> Body(Returns, n)]
  BY <1>5 DEF Returns
<1> HIDE DEF Body
<1>7. \A n \in Node : Returns[n] <=> Body(Returns, n)
  BY <1>6, Zenon
<1>8. Returns \in [Node -> BOOLEAN]
  BY <1>6, Zenon DEF Body
<1> QED
  BY <1>7, <1>8 DEF Body

(* The parts that are looked at, kind by kind. *)
LEMMA LookedIs ==
  ASSUME NEW n \in Node
  PROVE  /\ n.kind = "NKEx_LIT" => Looked(n) = {}
         /\ n.kind \in {"NKEx_UNAOP", "NKSt_RETURN", "NKSt_EXPR"} => Looked(n) = {n.expr}
         /\ n.kind = "NKEx_BINOP" /\ n.op = "BINOP_ASS" => Looked(n) = {n.right}
         /\ n.kind = "NKEx_BINOP" /\ n.op # "BINOP_ASS" => Looked(n) = {n.left, n.right}
         /\ n.kind = "NKSt_BLOCK" =>
              \A c : c \in Looked(n) <=>
                \E k \in 1 .. Len(n.list) : /\ c = n.list[k]
                                           /\ \A j \in 1 .. k - 1 : ~Returns[n.list[j]]
         /\ n.kind = "NKSt_IF" => Looked(n) = {n.cond, n.block, n.ifnot} \ {NULL}
         /\ n.kind = "NKSt_FOR_WHILE" => Looked(n) = {n.cond, n.block}
         /\ n.kind = "NKSt_FOR" =>
              Looked(n) = {n.init, n.cond, n.block}
                            \cup (IF Returns[n.block] THEN {} ELSE {n.post})
<1>1. n.kind = "NKSt_BLOCK" =>
        Looked(n) = {n.list[k] : k \in {k \in 1 .. Len(n.list) :
                                          \A j \in 1 .. k - 1 : ~Returns[n.list[j]]}}
  BY DEF Looked
<1>2. n.kind = "NKSt_BLOCK" =>
        \A c : c \in Looked(n) <=>
          \E k \in 1 .. Len(n.list) : /\ c = n.list[k]
                                     /\ \A j \in 1 .. k - 1 : ~Returns[n.list[j]]
  BY <1>1
<1> QED
  BY <1>2 DEF Looked

LEMMA LookedType ==
  ASSUME NEW n \in Node
  PROVE  Looked(n) \subseteq Node
<1>1. Exprs(Node) \subseteq Node /\ Stmts(Node) \subseteq Node
  BY DEF Exprs, Stmts
<1>2. CASE n.kind = "NKSt_BLOCK"
  <2>1. n.list \in Seq(Stmts(Node))
    BY <1>2, Children
  <2>2. \A k \in 1 .. Len(n.list) : n.list[k] \in Node
    BY <1>1, <2>1, ElementOfSeq
  <2> QED
    BY <1>2, <2>2, LookedIs
<1>3. CASE n.kind = "NKSt_IF"
  BY <1>1, <1>3, Children, LookedIs
<1>4. CASE n.kind \in {"NKSt_FOR", "NKSt_FOR_WHILE"}
  BY <1>1, <1>4, Children, LookedIs
<1>5. CASE n.kind \in ExprKinds \cup {"NKSt_RETURN", "NKSt_EXPR"}
  BY <1>1, <1>5, Children, LookedIs DEF ExprKinds
<1> QED
  BY <1>2, <1>3, <1>4, <1>5, NodeAssumption DEF WellFormed, ExprKinds

LEMMA RefusedIs ==
  \A n \in Node : Refused[n] <=> IsAddress(n) \/ \E c \in Looked(n) : Refused[c]
<1> DEFINE A == {n \in Node : IsAddress(n)}
           V == [n \in Node |-> Looked(n)]
           Body(f, n) == IsAddress(n) \/ \E c \in Looked(n) : f[c]
<1>1. A \in SUBSET Node
  OBVIOUS
<1>2. V \in [Node -> SUBSET Node]
  BY LookedType
<1>3. PICK f : Solves(f, Node, A, V)
  <2> HIDE DEF A, V
  <2> QED
    BY <1>1, <1>2, Solution
<1>4. \A n \in Node : (n \in A \/ \E c \in V[n] : f[c]) = Body(f, n)
  <2> TAKE n \in Node
  <2> DEFINE P == n \in A \/ \E c \in V[n] : f[c]
             Q == Body(f, n)
  <2>1. P \in BOOLEAN /\ Q \in BOOLEAN
    OBVIOUS
  <2>2. P <=> Q
    BY Zenon
  <2> HIDE DEF P, Q
  <2>3. P = Q
    BY <2>1, <2>2, BoolEq
  <2> QED
    BY <2>3 DEF P, Q
<1> HIDE DEF A, V
<1>5. f = [n \in Node |-> Body(f, n)]
  <2> HIDE DEF Body
  <2> QED
    BY <1>3, <1>4 DEF Solves
<1>6. Refused = [n \in Node |-> Body(Refused, n)]
  BY <1>5 DEF Refused
<1> HIDE DEF Body
<1>7. \A n \in Node : Refused[n] <=> Body(Refused, n)
  BY <1>6, Zenon
<1> QED
  BY <1>7 DEF Body

-----------------------------------------------------------------------------
(***************************************************************************)
(* What a step owes to the invariant.                                      *)
(***************************************************************************)
LEMMA ChildIs ==
  ASSUME NEW f
  PROVE  /\ f.pc = "list" => /\ Child(f) = f.node.list[f.i]
                             /\ Passed(f) = {f.node.list[k] : k \in 1 .. f.i - 1}
         /\ f.pc \in {"value", "operand"} => Child(f) = f.node.expr /\ Passed(f) = {}
         /\ f.pc = "cond" => Child(f) = f.node.cond
         /\ f.pc = "cond" /\ f.node.kind = "NKSt_FOR" => Passed(f) = {f.node.init}
         /\ f.pc = "cond" /\ f.node.kind # "NKSt_FOR" => Passed(f) = {}
         /\ f.pc = "then" => Child(f) = f.node.block /\ Passed(f) = {f.node.cond}
         /\ f.pc = "else" => Child(f) = f.node.ifnot /\ Passed(f) = {f.node.cond, f.node.block}
         /\ f.pc = "init" => Child(f) = f.node.init /\ Passed(f) = {}
         /\ f.pc = "body" => Child(f) = f.node.block
         /\ f.pc = "body" /\ f.node.kind = "NKSt_FOR" => Passed(f) = {f.node.init, f.node.cond}
         /\ f.pc = "body" /\ f.node.kind = "NKSt_FOR_WHILE" => Passed(f) = {f.node.cond}
         /\ f.pc = "post" => /\ Child(f) = f.node.post
                             /\ Passed(f) = {f.node.init, f.node.cond, f.node.block}
         /\ f.pc = "assigned" => Child(f) = f.node.right /\ Passed(f) = {}
         /\ f.pc = "left" => Child(f) = f.node.left /\ Passed(f) = {}
         /\ f.pc = "right" => Child(f) = f.node.right /\ Passed(f) = {f.node.left}
         /\ f.pc = "enter" => Passed(f) = {}
BY Zenon DEF Child, Passed

(* What the frame that runs may rely on. *)
LEMMA TopSettled ==
  ASSUME IInv, RInv, phase = "generating", stack # << >>
  PROVE  /\ Top.node \in Node
         /\ Settled(Top, ast)
         /\ Top.pc # "enter" => Over(Child(Top), terminated)
<1>1. Len(stack) \in 1 .. Len(stack) /\ Top = stack[Len(stack)]
  BY StackTop
<1> QED
  BY <1>1, TopType DEF RInv

(* A step that goes on as top and calls codegen_stmt or codegen_expr. *)
LEMMA CallRefusal ==
  ASSUME IInv, RInv, phase = "generating", phase' = phase, ast' = ast, stack # << >>,
         NEW top, NEW node, NEW var, Call(top, node, var),
         top.node = Top.node, top.pc # "enter", ~IsAddress(Top.node),
         Child(top) = node, node \in Looked(Top.node),
         \A c \in Passed(top) : ~Refused[c],
         top.pc = "list" => /\ top.i \in 1 .. Len(Top.node.list)
                            /\ \A k \in 1 .. top.i - 1 : ~Returns[Top.node.list[k]],
         top.pc = "post" => ~Returns[Top.node.block]
  PROVE  RInv'
<1> DEFINE N == Len(stack)
           new == Frame(node, var)
           S == FrameType \cup {top, new}
<1>1. N \in Nat \ {0} /\ Top = stack[N] /\ stack \in Seq(FrameType)
  BY StackTop
<1>2. top \in S /\ new \in S /\ FrameType \subseteq S
  OBVIOUS
<1>3. stack' = Append(Append(Front(stack), top), new)
  BY DEF Call
<1>4. new.pc = "enter" /\ new.i = 0 /\ new.node = node
  BY DEF Frame
<1> HIDE DEF N, new, S
<1>5. stack \in Seq(S)
  BY <1>1, <1>2, SeqGrows
<1>6. /\ Len(stack') = N + 1 /\ stack'[N] = top /\ stack'[N + 1] = new
      /\ \A k \in 1 .. N - 1 : stack'[k] = stack[k]
      /\ stack' \in Seq(S)
  BY <1>2, <1>3, <1>5, CallStack DEF N
<1>7. Refused[Top.node] => Refused[ast]
  BY TopSettled DEF Settled
<1>8. Refused[node] => Refused[ast]
  BY <1>7, TopSettled, RefusedIs
<1>9. Settled(top, ast) /\ Settled(new, ast)
  BY <1>4, <1>7, <1>8, ChildIs DEF Settled, Frame
<1>10. \A k \in 1 .. N - 1 : Settled(stack[k], ast)
  BY <1>1 DEF RInv, N
<1>11. \A k \in 1 .. N + 1 : Settled(stack'[k], ast)
  BY <1>1, <1>6, <1>9, <1>10
<1>12. \A k \in 1 .. N : stack'[k + 1].node = Child(stack'[k])
  <2> SUFFICES ASSUME NEW k \in 1 .. N
               PROVE  stack'[k + 1].node = Child(stack'[k])
    OBVIOUS
  <2>1. CASE k = N
    BY <1>4, <1>6, <2>1
  <2>2. CASE k < N
    <3>1. stack[k + 1].node = Child(stack[k])
      BY <1>1, <2>2 DEF RInv, N
    <3>2. stack'[k] = stack[k] /\ stack'[k + 1].node = stack[k + 1].node
      BY <1>1, <1>6, <2>2
    <3> QED
      BY <3>1, <3>2
  <2> QED
    BY <1>1, <2>1, <2>2
<1>13. stack'[1].node = ast
  BY <1>1, <1>6 DEF RInv
<1>14. stack' # << >> /\ Last(stack') = new
  <2>1. Len(stack') = N + 1 /\ N + 1 # 0
    BY <1>1, <1>6
  <2> QED
    BY <1>6, <2>1 DEF Last
<1>15. Len(stack') - 1 = N
  BY <1>1, <1>6
<1> QED
  BY <1>4, <1>6, <1>11, <1>12, <1>13, <1>14, <1>15 DEF RInv, Top

(* A step in which the running function returns. *)
LEMMA LeaveRefusal ==
  ASSUME IInv, RInv, phase = "generating", phase' = phase, ast' = ast, stack # << >>,
         stack' = Front(stack), ~Refused[Top.node],
         Top.node \in Stmts(Node) => terminated' = Returns[Top.node]
  PROVE  RInv'
<1> DEFINE N == Len(stack)
<1>1. /\ N \in Nat \ {0} /\ Top = stack[N]
      /\ Len(stack') = N - 1
      /\ \A k \in 1 .. N - 1 : stack'[k] = stack[k]
  BY StackTop
<1>2. stack' \in Seq(FrameType)
  BY FrontType DEF IInv, TypeOK
<1>3. /\ \A k \in 1 .. N : Settled(stack[k], ast)
      /\ \A k \in 1 .. N - 1 : stack[k + 1].node = Child(stack[k])
      /\ stack[1].node = ast
  BY DEF RInv
<1> HIDE DEF N
<1>4. \A k \in 1 .. N - 1 : Settled(stack'[k], ast)
  BY <1>1, <1>3
<1>5. \A k \in 1 .. N - 2 : stack'[k + 1].node = Child(stack'[k])
  BY <1>1, <1>3
<1>6. Over(Top.node, terminated')
  BY DEF Over
<1>7. ASSUME stack' # << >>
      PROVE  stack'[1].node = ast /\ Child(Last(stack')) = Top.node
  <2>1. N - 1 \in Nat \ {0}
    BY <1>1, <1>2, <1>7, EmptySeq
  <2>2. Last(stack') = stack[N - 1] /\ stack'[1] = stack[1]
    BY <1>1, <2>1 DEF Last
  <2> QED
    BY <1>1, <1>3, <2>1, <2>2
<1>8. ASSUME stack' = << >>
      PROVE  ~Refused[ast]
  <2>1. N = 1
    BY <1>1, <1>2, <1>8, EmptySeq
  <2> QED
    BY <1>1, <1>3, <2>1
<1>10. \A k \in 1 .. Len(stack') : Settled(stack'[k], ast')
  BY <1>1, <1>4
<1>11. \A k \in 1 .. Len(stack') - 1 : stack'[k + 1].node = Child(stack'[k])
  BY <1>1, <1>5
<1>12. stack' # << >> => Over(Child(Last(stack')), terminated')
  <2> HAVE stack' # << >>
  <2>1. Child(Last(stack')) = Top.node
    BY <1>7
  <2> QED
    BY <1>6, <2>1
<1> QED
  BY <1>7, <1>8, <1>10, <1>11, <1>12 DEF RInv, Top

-----------------------------------------------------------------------------
(***************************************************************************)
(* The actions that call.                                                  *)
(***************************************************************************)
LEMMA BlockNextRefusal == IInv /\ RInv /\ BlockNext => RInv'
<1> SUFFICES ASSUME IInv, RInv, BlockNext PROVE RInv'
  OBVIOUS
<1> DEFINE top == [Top EXCEPT !.pc = "list", !.i = @ + 1]
           list == Top.node.list
<1>1. /\ phase = "generating" /\ stack # << >> /\ Top.node.kind = "NKSt_BLOCK"
      /\ Top.pc \in {"enter", "list"} /\ Top.i < Len(list)
      /\ Top.pc = "list" => ~terminated
      /\ phase' = phase /\ ast' = ast /\ Call(top, list[Top.i + 1], None)
  BY DEF BlockNext, BlockGoesOn, At
<1>2. /\ Top.node \in Node /\ Settled(Top, ast) /\ Top.i \in Nat
      /\ Top.pc = "list" => Over(Child(Top), terminated)
  BY <1>1, TopSettled, TopType
<1>3. top.node = Top.node /\ top.pc = "list" /\ top.i = Top.i + 1
  BY <1>1, TopType DEF FrameType
<1> HIDE DEF top
<1>4. list \in Seq(Stmts(Node)) /\ Len(list) \in Nat
  BY <1>1, <1>2, Children, LenProperties
<1>5. \A k \in 1 .. Top.i : ~Refused[list[k]] /\ ~Returns[list[k]]
  <2>1. CASE Top.pc = "enter"
    BY <1>2, <2>1 DEF Settled
  <2>2. CASE Top.pc = "list"
    <3>1. Top.i \in 1 .. Len(list) /\ \A k \in 1 .. Top.i - 1 : ~Returns[list[k]]
      BY <1>2, <2>2 DEF Settled
    <3>2. \A k \in 1 .. Top.i - 1 : ~Refused[list[k]]
      BY <1>2, <2>2, ChildIs DEF Settled
    <3>3. list[Top.i] \in Stmts(Node)
      BY <1>4, <3>1, ElementOfSeq
    <3>4. ~Refused[list[Top.i]] /\ ~Returns[list[Top.i]]
      BY <1>1, <1>2, <2>2, <3>3, ChildIs DEF Over
    <3> QED
      BY <3>1, <3>2, <3>4
  <2> QED
    BY <1>1, <2>1, <2>2
<1>6. /\ Child(top) = list[Top.i + 1]
      /\ \A c \in Passed(top) : \E k \in 1 .. Top.i : c = list[k]
  BY <1>2, <1>3, ChildIs
<1>7. top.i \in 1 .. Len(list) /\ \A k \in 1 .. top.i - 1 : ~Returns[list[k]]
  BY <1>1, <1>2, <1>3, <1>4, <1>5
<1>8. list[Top.i + 1] \in Looked(Top.node)
  BY <1>1, <1>2, <1>3, <1>7, LookedIs
<1> QED
  BY <1>1, <1>3, <1>5, <1>6, <1>7, <1>8, CallRefusal DEF IsAddress

LEMMA ReturnValueRefusal == IInv /\ RInv /\ ReturnValue => RInv'
<1> SUFFICES ASSUME IInv, RInv, ReturnValue PROVE RInv'
  OBVIOUS
<1> DEFINE top == [Top EXCEPT !.pc = "value", !.n = next_reg]
<1>1. /\ phase = "generating" /\ stack # << >> /\ Top.node.kind = "NKSt_RETURN" /\ Top.pc = "enter"
      /\ phase' = phase /\ ast' = ast
  BY DEF ReturnValue, At
<1>2. \E var : Call(top, Top.node.expr, var)
  BY Zenon DEF ReturnValue
<1>3. Top.node \in Node /\ Settled(Top, ast)
  BY <1>1, TopSettled
<1>4. top.node = Top.node /\ top.pc = "value"
  BY <1>1, TopType DEF FrameType
<1> HIDE DEF top
<1>5. /\ Child(top) = Top.node.expr
      /\ Passed(top) = {}
  BY <1>1, <1>4, ChildIs
<1>6. Top.node.expr \in Looked(Top.node)
  BY <1>1, <1>3, LookedIs
<1>7. \A c \in Passed(top) : ~Refused[c]
  BY <1>3, <1>5
<1> QED
  BY <1>1, <1>2, <1>4, <1>5, <1>6, <1>7, CallRefusal DEF IsAddress

LEMMA StmtExprValueRefusal == IInv /\ RInv /\ StmtExprValue => RInv'
<1> SUFFICES ASSUME IInv, RInv, StmtExprValue PROVE RInv'
  OBVIOUS
<1> DEFINE top == [Top EXCEPT !.pc = "value"]
<1>1. /\ phase = "generating" /\ stack # << >> /\ Top.node.kind = "NKSt_EXPR" /\ Top.pc = "enter"
      /\ phase' = phase /\ ast' = ast
  BY DEF StmtExprValue, At
<1>2. \E var : Call(top, Top.node.expr, var)
  BY Zenon DEF StmtExprValue
<1>3. Top.node \in Node /\ Settled(Top, ast)
  BY <1>1, TopSettled
<1>4. top.node = Top.node /\ top.pc = "value"
  BY <1>1, TopType DEF FrameType
<1> HIDE DEF top
<1>5. /\ Child(top) = Top.node.expr
      /\ Passed(top) = {}
  BY <1>1, <1>4, ChildIs
<1>6. Top.node.expr \in Looked(Top.node)
  BY <1>1, <1>3, LookedIs
<1>7. \A c \in Passed(top) : ~Refused[c]
  BY <1>3, <1>5
<1> QED
  BY <1>1, <1>2, <1>4, <1>5, <1>6, <1>7, CallRefusal DEF IsAddress

LEMMA IfCondRefusal == IInv /\ RInv /\ IfCond => RInv'
<1> SUFFICES ASSUME IInv, RInv, IfCond PROVE RInv'
  OBVIOUS
<1> DEFINE top == [Top EXCEPT !.pc = "cond", !.m = next_reg]
<1>1. /\ phase = "generating" /\ stack # << >> /\ Top.node.kind = "NKSt_IF" /\ Top.pc = "enter"
      /\ phase' = phase /\ ast' = ast
  BY DEF IfCond, At
<1>2. \E var : Call(top, Top.node.cond, var)
  BY Zenon DEF IfCond
<1>3. Top.node \in Node /\ Settled(Top, ast)
  BY <1>1, TopSettled
<1>4. top.node = Top.node /\ top.pc = "cond"
  BY <1>1, TopType DEF FrameType
<1> HIDE DEF top
<1>5. /\ Child(top) = Top.node.cond
      /\ Passed(top) = {}
  BY <1>1, <1>4, ChildIs
<1>6. Top.node.cond # NULL
  BY <1>1, <1>3, Children DEF Exprs, ExprKinds, NULL
<1>7. Top.node.cond \in Looked(Top.node)
  BY <1>1, <1>3, <1>6, LookedIs
<1>8. \A c \in Passed(top) : ~Refused[c]
  BY <1>3, <1>5
<1> QED
  BY <1>1, <1>2, <1>4, <1>5, <1>7, <1>8, CallRefusal DEF IsAddress

LEMMA IfThenRefusal == IInv /\ RInv /\ IfThen => RInv'
<1> SUFFICES ASSUME IInv, RInv, IfThen PROVE RInv'
  OBVIOUS
<1> DEFINE top == [Top EXCEPT !.pc = "then", !.n = next_reg]
<1>1. /\ phase = "generating" /\ stack # << >> /\ Top.node.kind = "NKSt_IF" /\ Top.pc = "cond"
      /\ phase' = phase /\ ast' = ast
  BY DEF IfThen, At
<1>2. \E var : Call(top, Top.node.block, var)
  BY Zenon DEF IfThen
<1>3. Top.node \in Node /\ Settled(Top, ast) /\ Over(Child(Top), terminated)
  BY <1>1, TopSettled
<1>4. top.node = Top.node /\ top.pc = "then"
  BY <1>1, TopType DEF FrameType
<1> HIDE DEF top
<1>5. /\ Child(top) = Top.node.block
      /\ Passed(top) = Passed(Top) \cup {Child(Top)}
  BY <1>1, <1>4, ChildIs
<1>6. Top.node.block # NULL
  <2>1. Top.node.block \in Stmts(Node)
    BY <1>1, <1>3, Children
  <2>2. Top.node.block.kind # "NULL"
    BY <2>1 DEF Stmts, StmtKinds
  <2> QED
    BY <2>2 DEF NULL
<1>7. Top.node.block \in Looked(Top.node)
  BY <1>1, <1>3, <1>6, LookedIs
<1>8. \A c \in Passed(top) : ~Refused[c]
  BY <1>3, <1>5 DEF Settled, Over
<1> QED
  BY <1>1, <1>2, <1>4, <1>5, <1>7, <1>8, CallRefusal DEF IsAddress

LEMMA IfElseRefusal == IInv /\ RInv /\ IfElse => RInv'
<1> SUFFICES ASSUME IInv, RInv, IfElse PROVE RInv'
  OBVIOUS
<1> DEFINE top == [Top EXCEPT !.pc = "else"]
<1>1. /\ phase = "generating" /\ stack # << >> /\ Top.node.kind = "NKSt_IF" /\ Top.pc = "then"
      /\ phase' = phase /\ ast' = ast
      /\ Top.node.ifnot # NULL
  BY DEF IfElse, At
<1>2. \E var : Call(top, Top.node.ifnot, var)
  BY Zenon DEF IfElse
<1>3. Top.node \in Node /\ Settled(Top, ast) /\ Over(Child(Top), terminated)
  BY <1>1, TopSettled
<1>4. top.node = Top.node /\ top.pc = "else"
  BY <1>1, TopType DEF FrameType
<1> HIDE DEF top
<1>5. /\ Child(top) = Top.node.ifnot
      /\ Passed(top) = Passed(Top) \cup {Child(Top)}
  BY <1>1, <1>4, ChildIs
<1>6. Top.node.ifnot \in Looked(Top.node)
  BY <1>1, <1>3, LookedIs
<1>7. \A c \in Passed(top) : ~Refused[c]
  BY <1>3, <1>5 DEF Settled, Over
<1> QED
  BY <1>1, <1>2, <1>4, <1>5, <1>6, <1>7, CallRefusal DEF IsAddress

LEMMA ForInitRefusal == IInv /\ RInv /\ ForInit => RInv'
<1> SUFFICES ASSUME IInv, RInv, ForInit PROVE RInv'
  OBVIOUS
<1> DEFINE top == [Top EXCEPT !.pc = "init", !.n = next_reg]
<1>1. /\ phase = "generating" /\ stack # << >> /\ Top.node.kind = "NKSt_FOR" /\ Top.pc = "enter"
      /\ phase' = phase /\ ast' = ast
  BY DEF ForInit, At
<1>2. \E var : Call(top, Top.node.init, var)
  BY Zenon DEF ForInit
<1>3. Top.node \in Node /\ Settled(Top, ast)
  BY <1>1, TopSettled
<1>4. top.node = Top.node /\ top.pc = "init"
  BY <1>1, TopType DEF FrameType
<1> HIDE DEF top
<1>5. /\ Child(top) = Top.node.init
      /\ Passed(top) = {}
  BY <1>1, <1>4, ChildIs
<1>6. Top.node.init \in Looked(Top.node)
  BY <1>1, <1>3, LookedIs
<1>7. \A c \in Passed(top) : ~Refused[c]
  BY <1>3, <1>5
<1> QED
  BY <1>1, <1>2, <1>4, <1>5, <1>6, <1>7, CallRefusal DEF IsAddress

LEMMA ForCheckRefusal == IInv /\ RInv /\ ForCheck => RInv'
<1> SUFFICES ASSUME IInv, RInv, ForCheck PROVE RInv'
  OBVIOUS
<1> DEFINE top == [Top EXCEPT !.pc = "cond", !.m = next_reg]
<1>1. /\ phase = "generating" /\ stack # << >> /\ Top.node.kind = "NKSt_FOR" /\ Top.pc = "init"
      /\ phase' = phase /\ ast' = ast
  BY DEF ForCheck, At
<1>2. \E var : Call(top, Top.node.cond, var)
  BY Zenon DEF ForCheck
<1>3. Top.node \in Node /\ Settled(Top, ast) /\ Over(Child(Top), terminated)
  BY <1>1, TopSettled
<1>4. top.node = Top.node /\ top.pc = "cond"
  BY <1>1, TopType DEF FrameType
<1> HIDE DEF top
<1>5. /\ Child(top) = Top.node.cond
      /\ Passed(top) = Passed(Top) \cup {Child(Top)}
  BY <1>1, <1>4, ChildIs
<1>6. Top.node.cond \in Looked(Top.node)
  BY <1>1, <1>3, LookedIs
<1>7. \A c \in Passed(top) : ~Refused[c]
  BY <1>3, <1>5 DEF Settled, Over
<1> QED
  BY <1>1, <1>2, <1>4, <1>5, <1>6, <1>7, CallRefusal DEF IsAddress

LEMMA ForBodyRefusal == IInv /\ RInv /\ ForBody => RInv'
<1> SUFFICES ASSUME IInv, RInv, ForBody PROVE RInv'
  OBVIOUS
<1> DEFINE top == [Top EXCEPT !.pc = "body"]
<1>1. /\ phase = "generating" /\ stack # << >> /\ Top.node.kind = "NKSt_FOR" /\ Top.pc = "cond"
      /\ phase' = phase /\ ast' = ast
  BY DEF ForBody, LoopBody, At
<1>2. \E var : Call(top, Top.node.block, var)
  BY Zenon DEF ForBody, LoopBody
<1>3. Top.node \in Node /\ Settled(Top, ast) /\ Over(Child(Top), terminated)
  BY <1>1, TopSettled
<1>4. top.node = Top.node /\ top.pc = "body"
  BY <1>1, TopType DEF FrameType
<1> HIDE DEF top
<1>5. /\ Child(top) = Top.node.block
      /\ Passed(top) = Passed(Top) \cup {Child(Top)}
  BY <1>1, <1>4, ChildIs
<1>6. Top.node.block \in Looked(Top.node)
  BY <1>1, <1>3, LookedIs
<1>7. \A c \in Passed(top) : ~Refused[c]
  BY <1>3, <1>5 DEF Settled, Over
<1> QED
  BY <1>1, <1>2, <1>4, <1>5, <1>6, <1>7, CallRefusal DEF IsAddress

LEMMA ForPostRefusal == IInv /\ RInv /\ ForPost => RInv'
<1> SUFFICES ASSUME IInv, RInv, ForPost PROVE RInv'
  OBVIOUS
<1> DEFINE top == [Top EXCEPT !.pc = "post"]
<1>1. /\ phase = "generating" /\ stack # << >> /\ Top.node.kind = "NKSt_FOR" /\ Top.pc = "body"
      /\ phase' = phase /\ ast' = ast
      /\ ~terminated
  BY DEF ForPost, At
<1>2. \E var : Call(top, Top.node.post, var)
  BY Zenon DEF ForPost
<1>3. Top.node \in Node /\ Settled(Top, ast) /\ Over(Child(Top), terminated)
  BY <1>1, TopSettled
<1>4. top.node = Top.node /\ top.pc = "post"
  BY <1>1, TopType DEF FrameType
<1> HIDE DEF top
<1>5. /\ Child(top) = Top.node.post
      /\ Passed(top) = Passed(Top) \cup {Child(Top)}
  BY <1>1, <1>4, ChildIs
<1>6. ~Returns[Top.node.block]
  <2>1. Child(Top) = Top.node.block /\ Top.node.block \in Stmts(Node)
    BY <1>1, <1>3, ChildIs, Children
  <2> QED
    BY <1>1, <1>3, <2>1 DEF Over
<1>7. Top.node.post \in Looked(Top.node)
  BY <1>1, <1>3, <1>6, LookedIs
<1>8. \A c \in Passed(top) : ~Refused[c]
  BY <1>3, <1>5 DEF Settled, Over
<1> QED
  BY <1>1, <1>2, <1>4, <1>5, <1>6, <1>7, <1>8, CallRefusal DEF IsAddress

LEMMA WhileCheckRefusal == IInv /\ RInv /\ WhileCheck => RInv'
<1> SUFFICES ASSUME IInv, RInv, WhileCheck PROVE RInv'
  OBVIOUS
<1> DEFINE top == [Top EXCEPT !.pc = "cond", !.n = next_reg, !.m = next_reg + 1]
<1>1. /\ phase = "generating" /\ stack # << >> /\ Top.node.kind = "NKSt_FOR_WHILE" /\ Top.pc = "enter"
      /\ phase' = phase /\ ast' = ast
  BY DEF WhileCheck, At
<1>2. \E var : Call(top, Top.node.cond, var)
  BY Zenon DEF WhileCheck
<1>3. Top.node \in Node /\ Settled(Top, ast)
  BY <1>1, TopSettled
<1>4. top.node = Top.node /\ top.pc = "cond"
  BY <1>1, TopType DEF FrameType
<1> HIDE DEF top
<1>5. /\ Child(top) = Top.node.cond
      /\ Passed(top) = {}
  BY <1>1, <1>4, ChildIs
<1>6. Top.node.cond \in Looked(Top.node)
  BY <1>1, <1>3, LookedIs
<1>7. \A c \in Passed(top) : ~Refused[c]
  BY <1>3, <1>5
<1> QED
  BY <1>1, <1>2, <1>4, <1>5, <1>6, <1>7, CallRefusal DEF IsAddress

LEMMA WhileBodyRefusal == IInv /\ RInv /\ WhileBody => RInv'
<1> SUFFICES ASSUME IInv, RInv, WhileBody PROVE RInv'
  OBVIOUS
<1> DEFINE top == [Top EXCEPT !.pc = "body"]
<1>1. /\ phase = "generating" /\ stack # << >> /\ Top.node.kind = "NKSt_FOR_WHILE" /\ Top.pc = "cond"
      /\ phase' = phase /\ ast' = ast
  BY DEF WhileBody, LoopBody, At
<1>2. \E var : Call(top, Top.node.block, var)
  BY Zenon DEF WhileBody, LoopBody
<1>3. Top.node \in Node /\ Settled(Top, ast) /\ Over(Child(Top), terminated)
  BY <1>1, TopSettled
<1>4. top.node = Top.node /\ top.pc = "body"
  BY <1>1, TopType DEF FrameType
<1> HIDE DEF top
<1>5. /\ Child(top) = Top.node.block
      /\ Passed(top) = Passed(Top) \cup {Child(Top)}
  BY <1>1, <1>4, ChildIs
<1>6. Top.node.block \in Looked(Top.node)
  BY <1>1, <1>3, LookedIs
<1>7. \A c \in Passed(top) : ~Refused[c]
  BY <1>3, <1>5 DEF Settled, Over
<1> QED
  BY <1>1, <1>2, <1>4, <1>5, <1>6, <1>7, CallRefusal DEF IsAddress

LEMMA UnaopOperandRefusal == IInv /\ RInv /\ UnaopOperand => RInv'
<1> SUFFICES ASSUME IInv, RInv, UnaopOperand PROVE RInv'
  OBVIOUS
<1> DEFINE top == [Top EXCEPT !.pc = "operand", !.n = next_reg]
<1>1. /\ phase = "generating" /\ stack # << >> /\ Top.node.kind = "NKEx_UNAOP" /\ Top.pc = "enter"
      /\ phase' = phase /\ ast' = ast
      /\ Top.node.op # "UNAOP_ADDR"
  BY DEF UnaopOperand, At
<1>2. \E var : Call(top, Top.node.expr, var)
  BY Zenon DEF UnaopOperand
<1>3. Top.node \in Node /\ Settled(Top, ast)
  BY <1>1, TopSettled
<1>4. top.node = Top.node /\ top.pc = "operand"
  BY <1>1, TopType DEF FrameType
<1> HIDE DEF top
<1>5. /\ Child(top) = Top.node.expr
      /\ Passed(top) = {}
  BY <1>1, <1>4, ChildIs
<1>6. Top.node.expr \in Looked(Top.node)
  BY <1>1, <1>3, LookedIs
<1>7. \A c \in Passed(top) : ~Refused[c]
  BY <1>3, <1>5
<1> QED
  BY <1>1, <1>2, <1>4, <1>5, <1>6, <1>7, CallRefusal DEF IsAddress

LEMMA AssRightRefusal == IInv /\ RInv /\ AssRight => RInv'
<1> SUFFICES ASSUME IInv, RInv, AssRight PROVE RInv'
  OBVIOUS
<1> DEFINE top == [Top EXCEPT !.pc = "assigned", !.n = next_reg]
<1>1. /\ phase = "generating" /\ stack # << >> /\ Top.node.kind = "NKEx_BINOP" /\ Top.pc = "enter"
      /\ phase' = phase /\ ast' = ast
      /\ Top.node.op = "BINOP_ASS"
  BY DEF AssRight, At
<1>2. \E var : Call(top, Top.node.right, var)
  BY Zenon DEF AssRight
<1>3. Top.node \in Node /\ Settled(Top, ast)
  BY <1>1, TopSettled
<1>4. top.node = Top.node /\ top.pc = "assigned"
  BY <1>1, TopType DEF FrameType
<1> HIDE DEF top
<1>5. /\ Child(top) = Top.node.right
      /\ Passed(top) = {}
  BY <1>1, <1>4, ChildIs
<1>6. Top.node.right \in Looked(Top.node)
  BY <1>1, <1>3, LookedIs
<1>7. \A c \in Passed(top) : ~Refused[c]
  BY <1>3, <1>5
<1> QED
  BY <1>1, <1>2, <1>4, <1>5, <1>6, <1>7, CallRefusal DEF IsAddress

LEMMA BinopLeftRefusal == IInv /\ RInv /\ BinopLeft => RInv'
<1> SUFFICES ASSUME IInv, RInv, BinopLeft PROVE RInv'
  OBVIOUS
<1> DEFINE top == [Top EXCEPT !.pc = "left", !.n = next_reg]
<1>1. /\ phase = "generating" /\ stack # << >> /\ Top.node.kind = "NKEx_BINOP" /\ Top.pc = "enter"
      /\ phase' = phase /\ ast' = ast
      /\ Top.node.op # "BINOP_ASS"
  BY DEF BinopLeft, At
<1>2. \E var : Call(top, Top.node.left, var)
  BY Zenon DEF BinopLeft
<1>3. Top.node \in Node /\ Settled(Top, ast)
  BY <1>1, TopSettled
<1>4. top.node = Top.node /\ top.pc = "left"
  BY <1>1, TopType DEF FrameType
<1> HIDE DEF top
<1>5. /\ Child(top) = Top.node.left
      /\ Passed(top) = {}
  BY <1>1, <1>4, ChildIs
<1>6. Top.node.left \in Looked(Top.node)
  BY <1>1, <1>3, LookedIs
<1>7. \A c \in Passed(top) : ~Refused[c]
  BY <1>3, <1>5
<1> QED
  BY <1>1, <1>2, <1>4, <1>5, <1>6, <1>7, CallRefusal DEF IsAddress

LEMMA BinopRightRefusal == IInv /\ RInv /\ BinopRight => RInv'
<1> SUFFICES ASSUME IInv, RInv, BinopRight PROVE RInv'
  OBVIOUS
<1> DEFINE top == [Top EXCEPT !.pc = "right", !.m = next_reg]
<1>1. /\ phase = "generating" /\ stack # << >> /\ Top.node.kind = "NKEx_BINOP" /\ Top.pc = "left"
      /\ phase' = phase /\ ast' = ast
      /\ Top.node.op # "BINOP_ASS"
  BY TopType DEF BinopRight, FrameOK, At
<1>2. \E var : Call(top, Top.node.right, var)
  BY Zenon DEF BinopRight
<1>3. Top.node \in Node /\ Settled(Top, ast) /\ Over(Child(Top), terminated)
  BY <1>1, TopSettled
<1>4. top.node = Top.node /\ top.pc = "right"
  BY <1>1, TopType DEF FrameType
<1> HIDE DEF top
<1>5. /\ Child(top) = Top.node.right
      /\ Passed(top) = Passed(Top) \cup {Child(Top)}
  BY <1>1, <1>4, ChildIs
<1>6. Top.node.right \in Looked(Top.node)
  BY <1>1, <1>3, LookedIs
<1>7. \A c \in Passed(top) : ~Refused[c]
  BY <1>3, <1>5 DEF Settled, Over
<1> QED
  BY <1>1, <1>2, <1>4, <1>5, <1>6, <1>7, CallRefusal DEF IsAddress

-----------------------------------------------------------------------------
(***************************************************************************)
(* The actions that return.                                                *)
(***************************************************************************)
LEMMA BlockEndRefusal == IInv /\ RInv /\ BlockEnd => RInv'
<1> SUFFICES ASSUME IInv, RInv, BlockEnd PROVE RInv'
  OBVIOUS
<1> DEFINE list == Top.node.list
<1>1. /\ phase = "generating" /\ stack # << >> /\ Top.node.kind = "NKSt_BLOCK"
      /\ Top.pc \in {"enter", "list"} /\ Top.i = Len(list)
      /\ Top.pc = "list" => ~terminated
      /\ phase' = phase /\ ast' = ast /\ stack' = Front(stack) /\ terminated' = FALSE
  BY DEF BlockEnd, BlockGoesOn, LeaveStmt, At
<1>2. /\ Top.node \in Node /\ Settled(Top, ast) /\ Top.i \in Nat
      /\ Top.pc = "list" => Over(Child(Top), terminated)
  BY <1>1, TopSettled, TopType
<1>3. list \in Seq(Stmts(Node))
  BY <1>1, <1>2, Children
<1>4. \A k \in 1 .. Len(list) : ~Refused[list[k]] /\ ~Returns[list[k]]
  <2>1. CASE Top.pc = "enter"
    BY <1>1, <1>2, <2>1 DEF Settled
  <2>2. CASE Top.pc = "list"
    <3>1. Top.i \in 1 .. Len(list) /\ \A k \in 1 .. Top.i - 1 : ~Returns[list[k]]
      BY <1>2, <2>2 DEF Settled
    <3>2. \A k \in 1 .. Top.i - 1 : ~Refused[list[k]]
      BY <1>2, <2>2, ChildIs DEF Settled
    <3>3. list[Top.i] \in Stmts(Node)
      BY <1>3, <3>1, ElementOfSeq
    <3>4. ~Refused[list[Top.i]] /\ ~Returns[list[Top.i]]
      BY <1>1, <1>2, <2>2, <3>3, ChildIs DEF Over
    <3> QED
      BY <1>1, <3>1, <3>2, <3>4
  <2> QED
    BY <1>1, <2>1, <2>2
<1>5. ~IsAddress(Top.node) /\ \A c \in Looked(Top.node) : ~Refused[c]
  BY <1>1, <1>2, <1>4, LookedIs DEF IsAddress
<1>6. ~Refused[Top.node]
  BY <1>2, <1>5, RefusedIs
<1>7. Returns \in [Node -> BOOLEAN] /\ ~Returns[Top.node]
  BY <1>1, <1>2, <1>4, ReturnsAre
<1> QED
  BY <1>1, <1>2, <1>6, <1>7, LeaveRefusal

LEMMA BlockTerminatedRefusal == IInv /\ RInv /\ BlockTerminated => RInv'
<1> SUFFICES ASSUME IInv, RInv, BlockTerminated PROVE RInv'
  OBVIOUS
<1> DEFINE list == Top.node.list
<1>1. /\ phase = "generating" /\ stack # << >> /\ Top.node.kind = "NKSt_BLOCK"
      /\ Top.pc = "list" /\ terminated
      /\ phase' = phase /\ ast' = ast /\ stack' = Front(stack) /\ terminated' = TRUE
  BY DEF BlockTerminated, LeaveStmt, At
<1>2. /\ Top.node \in Node /\ Settled(Top, ast) /\ Over(Child(Top), terminated)
  BY <1>1, TopSettled
<1>3. Top.i \in 1 .. Len(list) /\ list \in Seq(Stmts(Node))
  BY <1>1, <1>2, Children DEF Settled
<1>4. list[Top.i] \in Stmts(Node) /\ Child(Top) = list[Top.i]
  BY <1>1, <1>3, ElementOfSeq, ChildIs
<1>5. ~Refused[list[Top.i]] /\ Returns[list[Top.i]]
  BY <1>1, <1>2, <1>4 DEF Over
<1>6. \A k \in 1 .. Top.i - 1 : ~Refused[list[k]]
  BY <1>1, <1>2, ChildIs DEF Settled
<1>7. \A c \in Looked(Top.node) : ~Refused[c]
  <2> SUFFICES ASSUME NEW k \in 1 .. Len(list), \A j \in 1 .. k - 1 : ~Returns[list[j]]
               PROVE  ~Refused[list[k]]
    BY <1>1, <1>2, LookedIs
  <2>1. k <= Top.i
    BY <1>3, <1>5
  <2> QED
    BY <1>3, <1>5, <1>6, <2>1
<1>8. ~Refused[Top.node]
  BY <1>1, <1>2, <1>7, RefusedIs DEF IsAddress
<1>9. Returns \in [Node -> BOOLEAN] /\ Returns[Top.node]
  BY <1>1, <1>2, <1>3, <1>5, ReturnsAre
<1> QED
  BY <1>1, <1>2, <1>8, <1>9, LeaveRefusal

LEMMA ReturnJumpRefusal == IInv /\ RInv /\ ReturnJump => RInv'
<1> SUFFICES ASSUME IInv, RInv, ReturnJump PROVE RInv'
  OBVIOUS
<1>1. /\ phase = "generating" /\ stack # << >> /\ Top.node.kind = "NKSt_RETURN" /\ Top.pc = "value"
      /\ phase' = phase /\ ast' = ast /\ stack' = Front(stack) /\ terminated' = TRUE
  BY DEF ReturnJump, LeaveStmt, At
<1>2. Top.node \in Node /\ Settled(Top, ast) /\ Over(Child(Top), terminated)
  BY <1>1, TopSettled
<1>3. \A c \in Looked(Top.node) : ~Refused[c]
  BY <1>1, <1>2, LookedIs, ChildIs DEF Settled, Over
<1>4. ~Refused[Top.node]
  BY <1>1, <1>2, <1>3, RefusedIs DEF IsAddress, Settled
<1>5. Returns \in [Node -> BOOLEAN] /\ Returns[Top.node]
  BY <1>1, <1>2, ReturnsAre
<1> QED
  BY <1>1, <1>2, <1>4, <1>5, LeaveRefusal

LEMMA StmtExprEndRefusal == IInv /\ RInv /\ StmtExprEnd => RInv'
<1> SUFFICES ASSUME IInv, RInv, StmtExprEnd PROVE RInv'
  OBVIOUS
<1>1. /\ phase = "generating" /\ stack # << >> /\ Top.node.kind = "NKSt_EXPR" /\ Top.pc = "value"
      /\ phase' = phase /\ ast' = ast /\ stack' = Front(stack) /\ terminated' = FALSE
  BY DEF StmtExprEnd, LeaveStmt, At
<1>2. Top.node \in Node /\ Settled(Top, ast) /\ Over(Child(Top), terminated)
  BY <1>1, TopSettled
<1>3. \A c \in Looked(Top.node) : ~Refused[c]
  BY <1>1, <1>2, LookedIs, ChildIs DEF Settled, Over
<1>4. ~Refused[Top.node]
  BY <1>1, <1>2, <1>3, RefusedIs DEF IsAddress, Settled
<1>5. Returns \in [Node -> BOOLEAN] /\ ~Returns[Top.node]
  BY <1>1, <1>2, ReturnsAre
<1> QED
  BY <1>1, <1>2, <1>4, <1>5, LeaveRefusal

LEMMA IfNoElseRefusal == IInv /\ RInv /\ IfNoElse => RInv'
<1> SUFFICES ASSUME IInv, RInv, IfNoElse PROVE RInv'
  OBVIOUS
<1>1. /\ phase = "generating" /\ stack # << >> /\ Top.node.kind = "NKSt_IF" /\ Top.pc = "then"
      /\ phase' = phase /\ ast' = ast /\ stack' = Front(stack) /\ terminated' = FALSE
      /\ Top.node.ifnot = NULL
  BY DEF IfNoElse, LeaveStmt, At
<1>2. Top.node \in Node /\ Settled(Top, ast) /\ Over(Child(Top), terminated)
  BY <1>1, TopSettled
<1>3. \A c \in Looked(Top.node) : ~Refused[c]
  BY <1>1, <1>2, LookedIs, ChildIs DEF Settled, Over
<1>4. ~Refused[Top.node]
  BY <1>1, <1>2, <1>3, RefusedIs DEF IsAddress, Settled
<1>5. Returns \in [Node -> BOOLEAN] /\ ~Returns[Top.node]
  BY <1>1, <1>2, ReturnsAre
<1> QED
  BY <1>1, <1>2, <1>4, <1>5, LeaveRefusal

LEMMA IfEndRefusal == IInv /\ RInv /\ IfEnd => RInv'
<1> SUFFICES ASSUME IInv, RInv, IfEnd PROVE RInv'
  OBVIOUS
<1>1. /\ phase = "generating" /\ stack # << >> /\ Top.node.kind = "NKSt_IF" /\ Top.pc = "else"
      /\ phase' = phase /\ ast' = ast /\ stack' = Front(stack) /\ terminated' = FALSE
  BY DEF IfEnd, LeaveStmt, At
<1>2. Top.node \in Node /\ Settled(Top, ast) /\ Over(Child(Top), terminated)
  BY <1>1, TopSettled
<1>3. \A c \in Looked(Top.node) : ~Refused[c]
  BY <1>1, <1>2, LookedIs, ChildIs DEF Settled, Over
<1>4. ~Refused[Top.node]
  BY <1>1, <1>2, <1>3, RefusedIs DEF IsAddress, Settled
<1>5. Returns \in [Node -> BOOLEAN] /\ ~Returns[Top.node]
  BY <1>1, <1>2, ReturnsAre
<1> QED
  BY <1>1, <1>2, <1>4, <1>5, LeaveRefusal

LEMMA ForRepeatRefusal == IInv /\ RInv /\ ForRepeat => RInv'
<1> SUFFICES ASSUME IInv, RInv, ForRepeat PROVE RInv'
  OBVIOUS
<1>1. /\ phase = "generating" /\ stack # << >> /\ Top.node.kind = "NKSt_FOR" /\ Top.pc = "post"
      /\ phase' = phase /\ ast' = ast /\ stack' = Front(stack) /\ terminated' = FALSE
  BY DEF ForRepeat, LeaveStmt, At
<1>2. Top.node \in Node /\ Settled(Top, ast) /\ Over(Child(Top), terminated)
  BY <1>1, TopSettled
<1>3. \A c \in Looked(Top.node) : ~Refused[c]
  BY <1>1, <1>2, LookedIs, ChildIs DEF Settled, Over
<1>4. ~Refused[Top.node]
  BY <1>1, <1>2, <1>3, RefusedIs DEF IsAddress, Settled
<1>5. Returns \in [Node -> BOOLEAN] /\ ~Returns[Top.node]
  BY <1>1, <1>2, ReturnsAre
<1> QED
  BY <1>1, <1>2, <1>4, <1>5, LeaveRefusal

LEMMA ForTerminatedRefusal == IInv /\ RInv /\ ForTerminated => RInv'
<1> SUFFICES ASSUME IInv, RInv, ForTerminated PROVE RInv'
  OBVIOUS
<1>1. /\ phase = "generating" /\ stack # << >> /\ Top.node.kind = "NKSt_FOR" /\ Top.pc = "body"
      /\ phase' = phase /\ ast' = ast /\ stack' = Front(stack) /\ terminated' = FALSE
      /\ terminated
  BY DEF ForTerminated, LeaveStmt, At
<1>2. Top.node \in Node /\ Settled(Top, ast) /\ Over(Child(Top), terminated)
  BY <1>1, TopSettled
<1>3. Returns[Top.node.block]
  <2>1. Child(Top) = Top.node.block /\ Top.node.block \in Stmts(Node)
    BY <1>1, <1>2, ChildIs, Children
  <2> QED
    BY <1>1, <1>2, <2>1 DEF Over
<1>4. \A c \in Looked(Top.node) : ~Refused[c]
  BY <1>1, <1>2, <1>3, LookedIs, ChildIs DEF Settled, Over
<1>5. ~Refused[Top.node]
  BY <1>1, <1>2, <1>4, RefusedIs DEF IsAddress, Settled
<1>6. Returns \in [Node -> BOOLEAN] /\ ~Returns[Top.node]
  BY <1>1, <1>2, ReturnsAre
<1> QED
  BY <1>1, <1>2, <1>5, <1>6, LeaveRefusal

LEMMA WhileEndRefusal == IInv /\ RInv /\ WhileEnd => RInv'
<1> SUFFICES ASSUME IInv, RInv, WhileEnd PROVE RInv'
  OBVIOUS
<1>1. /\ phase = "generating" /\ stack # << >> /\ Top.node.kind = "NKSt_FOR_WHILE" /\ Top.pc = "body"
      /\ phase' = phase /\ ast' = ast /\ stack' = Front(stack) /\ terminated' = FALSE
  BY DEF WhileEnd, LeaveStmt, At
<1>2. Top.node \in Node /\ Settled(Top, ast) /\ Over(Child(Top), terminated)
  BY <1>1, TopSettled
<1>3. \A c \in Looked(Top.node) : ~Refused[c]
  BY <1>1, <1>2, LookedIs, ChildIs DEF Settled, Over
<1>4. ~Refused[Top.node]
  BY <1>1, <1>2, <1>3, RefusedIs DEF IsAddress, Settled
<1>5. Returns \in [Node -> BOOLEAN] /\ ~Returns[Top.node]
  BY <1>1, <1>2, ReturnsAre
<1> QED
  BY <1>1, <1>2, <1>4, <1>5, LeaveRefusal

LEMMA ExprLitRefusal == IInv /\ RInv /\ ExprLit => RInv'
<1> SUFFICES ASSUME IInv, RInv, ExprLit PROVE RInv'
  OBVIOUS
<1>1. /\ phase = "generating" /\ stack # << >> /\ Top.node.kind = "NKEx_LIT" /\ Top.pc = "enter"
      /\ phase' = phase /\ ast' = ast /\ stack' = Front(stack)
  BY DEF ExprLit, LeaveExpr, At
<1>2. Top.node \in Node /\ Settled(Top, ast)
  BY <1>1, TopSettled
<1>3. \A c \in Looked(Top.node) : ~Refused[c]
  BY <1>1, <1>2, LookedIs, ChildIs
<1>4. ~Refused[Top.node]
  BY <1>1, <1>2, <1>3, RefusedIs DEF IsAddress
<1>5. Top.node \notin Stmts(Node)
  BY <1>1 DEF Stmts, StmtKinds
<1> QED
  BY <1>1, <1>4, <1>5, LeaveRefusal

LEMMA UnaopResultRefusal == IInv /\ RInv /\ UnaopResult => RInv'
<1> SUFFICES ASSUME IInv, RInv, UnaopResult PROVE RInv'
  OBVIOUS
<1>1. /\ phase = "generating" /\ stack # << >> /\ Top.node.kind = "NKEx_UNAOP" /\ Top.pc = "operand"
      /\ phase' = phase /\ ast' = ast /\ stack' = Front(stack)
  BY DEF UnaopResult, LeaveExpr, At
<1>2. Top.node \in Node /\ Settled(Top, ast) /\ Over(Child(Top), terminated)
  BY <1>1, TopSettled
<1>3. \A c \in Looked(Top.node) : ~Refused[c]
  BY <1>1, <1>2, LookedIs, ChildIs DEF Settled, Over
<1>4. ~Refused[Top.node]
  BY <1>1, <1>2, <1>3, RefusedIs DEF IsAddress, Settled
<1>5. Top.node \notin Stmts(Node)
  BY <1>1 DEF Stmts, StmtKinds
<1> QED
  BY <1>1, <1>4, <1>5, LeaveRefusal

LEMMA AssStoreRefusal == IInv /\ RInv /\ AssStore => RInv'
<1> SUFFICES ASSUME IInv, RInv, AssStore PROVE RInv'
  OBVIOUS
<1>1. /\ phase = "generating" /\ stack # << >> /\ Top.node.kind = "NKEx_BINOP" /\ Top.pc = "assigned"
      /\ phase' = phase /\ ast' = ast /\ stack' = Front(stack)
      /\ Top.node.op = "BINOP_ASS"
  BY TopType DEF AssStore, FrameOK, LeaveExpr, At
<1>2. Top.node \in Node /\ Settled(Top, ast) /\ Over(Child(Top), terminated)
  BY <1>1, TopSettled
<1>3. \A c \in Looked(Top.node) : ~Refused[c]
  BY <1>1, <1>2, LookedIs, ChildIs DEF Settled, Over
<1>4. ~Refused[Top.node]
  BY <1>1, <1>2, <1>3, RefusedIs DEF IsAddress, Settled
<1>5. Top.node \notin Stmts(Node)
  BY <1>1 DEF Stmts, StmtKinds
<1> QED
  BY <1>1, <1>4, <1>5, LeaveRefusal

LEMMA BinopResultRefusal == IInv /\ RInv /\ BinopResult => RInv'
<1> SUFFICES ASSUME IInv, RInv, BinopResult PROVE RInv'
  OBVIOUS
<1>1. /\ phase = "generating" /\ stack # << >> /\ Top.node.kind = "NKEx_BINOP" /\ Top.pc = "right"
      /\ phase' = phase /\ ast' = ast /\ stack' = Front(stack)
      /\ Top.node.op # "BINOP_ASS"
  BY TopType DEF BinopResult, FrameOK, LeaveExpr, At
<1>2. Top.node \in Node /\ Settled(Top, ast) /\ Over(Child(Top), terminated)
  BY <1>1, TopSettled
<1>3. \A c \in Looked(Top.node) : ~Refused[c]
  BY <1>1, <1>2, LookedIs, ChildIs DEF Settled, Over
<1>4. ~Refused[Top.node]
  BY <1>1, <1>2, <1>3, RefusedIs DEF IsAddress, Settled
<1>5. Top.node \notin Stmts(Node)
  BY <1>1 DEF Stmts, StmtKinds
<1> QED
  BY <1>1, <1>4, <1>5, LeaveRefusal

-----------------------------------------------------------------------------
(***************************************************************************)
(* The first step, the last one and the exit.                              *)
(***************************************************************************)
LEMMA InitRefusal == Init => RInv
<1> SUFFICES ASSUME Init PROVE RInv
  OBVIOUS
<1>1. phase = "called" /\ stack = << >> /\ 1 .. Len(stack) = {} /\ 1 .. Len(stack) - 1 = {}
  BY DEF Init
<1> QED
  BY <1>1 DEF RInv

LEMMA CodegenStartRefusal == IInv /\ CodegenStart => RInv'
<1> SUFFICES ASSUME IInv, CodegenStart PROVE RInv'
  OBVIOUS
<1> DEFINE root == Frame(ast, None)
<1>1. stack' = <<root>> /\ phase' = "generating" /\ ast' = ast
  BY DEF CodegenStart
<1>2. root.node = ast /\ root.pc = "enter" /\ root.i = 0
  BY DEF Frame
<1>3. Len(stack') = 1 /\ stack'[1] = root
  BY <1>1
<1> HIDE DEF root
<1>4. Settled(root, ast)
  BY <1>2, ChildIs DEF Settled
<1>5. stack' # << >> /\ Last(stack') = root /\ 1 .. Len(stack') - 1 = {}
  BY <1>1, <1>3 DEF Last
<1> QED
  BY <1>1, <1>2, <1>3, <1>4, <1>5 DEF RInv, Top

LEMMA CodegenEndRefusal == RInv /\ CodegenEnd => RInv'
BY DEF RInv, CodegenEnd

LEMMA UnaopAddrRefusal == IInv /\ RInv /\ UnaopAddr => RInv'
<1> SUFFICES ASSUME IInv, RInv, UnaopAddr PROVE RInv'
  OBVIOUS
<1>1. /\ phase = "generating" /\ stack # << >> /\ IsAddress(Top.node)
      /\ phase' = "error" /\ ast' = ast /\ stack' = stack
  BY DEF UnaopAddr, At, IsAddress
<1>2. Refused[Top.node]
  BY <1>1, TopSettled, RefusedIs
<1>3. Refused[ast]
  BY <1>1, <1>2, TopSettled DEF Settled
<1> QED
  BY <1>1, <1>3 DEF RInv

LEMMA StutterRefusal == RInv /\ UNCHANGED vars => RInv'
BY DEF RInv, vars, Top

-----------------------------------------------------------------------------
LEMMA NextRefusal == IInv /\ RInv /\ [Next]_vars => RInv'
<1>1. IInv /\ RInv /\ GenStmt => RInv'
  BY BlockNextRefusal, BlockEndRefusal, BlockTerminatedRefusal, ReturnValueRefusal,
     ReturnJumpRefusal, StmtExprValueRefusal, StmtExprEndRefusal, IfCondRefusal,
     IfThenRefusal, IfElseRefusal, IfNoElseRefusal, IfEndRefusal, ForInitRefusal,
     ForCheckRefusal, ForBodyRefusal, ForPostRefusal, ForRepeatRefusal,
     ForTerminatedRefusal, WhileCheckRefusal, WhileBodyRefusal, WhileEndRefusal
     DEF GenStmt
<1>2. IInv /\ RInv /\ GenExpr => RInv'
  BY ExprLitRefusal, UnaopOperandRefusal, UnaopResultRefusal, UnaopAddrRefusal,
     AssRightRefusal, AssStoreRefusal, BinopLeftRefusal, BinopRightRefusal,
     BinopResultRefusal DEF GenExpr
<1> QED
  BY <1>1, <1>2, CodegenStartRefusal, CodegenEndRefusal, StutterRefusal DEF Next

LEMMA InductiveRefusal == Spec => []RInv
<1>1. Init => RInv
  BY InitRefusal
<1>2. IInv /\ RInv /\ [Next]_vars => RInv'
  BY NextRefusal
<1> QED
  BY <1>1, <1>2, Inductive, PTL DEF Spec

(* On any tree, codegen writes the code of a tree that is not refused and
   exits on one that is: the address operators that it meets are those that
   no return comes before in their block. *)
THEOREM RefusesAddresses ==
  Spec => [](/\ phase = "done" => ~Refused[ast]
             /\ phase = "error" => Refused[ast])
<1>1. RInv => /\ phase = "done" => ~Refused[ast]
              /\ phase = "error" => Refused[ast]
  BY DEF RInv
<1> QED
  BY <1>1, InductiveRefusal, PTL
=============================================================================
