------------------------------- MODULE Syntax -------------------------------
(***************************************************************************)
(* The abstract syntax tree of Aleron: include/aleron.h, region ast, and   *)
(* the constructors of src/ast.c.                                          *)
(*                                                                         *)
(* A tree is a record whose field "kind" is the NodeKind and whose other   *)
(* fields are those of the union member that the kind selects.  The text   *)
(* of a literal is abstract: an identifier is any value, an integer is the *)
(* number it denotes.                                                      *)
(***************************************************************************)
EXTENDS Naturals, Sequences

ExprKinds == {"NKEx_LIT", "NKEx_BINOP", "NKEx_UNAOP"}

StmtKinds == {"NKSt_RETURN", "NKSt_BLOCK", "NKSt_IF",
              "NKSt_FOR_WHILE", "NKSt_FOR", "NKSt_EXPR"}

UnaopKind == {"UNAOP_NEG", "UNAOP_ADDR", "UNAOP_STAR"}
ArithKind == {"BINOP_ADD", "BINOP_SUB", "BINOP_MUL", "BINOP_DIV"}
BinopKind == ArithKind \cup {"BINOP_ASS"}

-----------------------------------------------------------------------------

NewLit(lit, str) == [kind |-> "NKEx_LIT", lit |-> lit, str |-> str]
NewUnary(op, inside) == [kind |-> "NKEx_UNAOP", op |-> op, expr |-> inside]
NewBinop(op, left, right) ==
  [kind |-> "NKEx_BINOP", op |-> op, left |-> left, right |-> right]

NewStReturn(expr) == [kind |-> "NKSt_RETURN", expr |-> expr]
NewStExpr(expr) == [kind |-> "NKSt_EXPR", expr |-> expr]
NewStBlock(list) == [kind |-> "NKSt_BLOCK", list |-> list]
NewStIf(cond, block, ifnot) ==
  [kind |-> "NKSt_IF", cond |-> cond, block |-> block, ifnot |-> ifnot]
NewStFor(init, cond, post, block) ==
  [kind |-> "NKSt_FOR", init |-> init, cond |-> cond, post |-> post,
   block |-> block]
NewStForWhile(cond, block) ==
  [kind |-> "NKSt_FOR_WHILE", cond |-> cond, block |-> block]

(* The null pointer that stands for a missing else branch. *)
NULL == [kind |-> "NULL"]

-----------------------------------------------------------------------------

Exprs(Node) == {n \in Node : n.kind \in ExprKinds}
Stmts(Node) == {n \in Node : n.kind \in StmtKinds}
Blocks(Node) == {n \in Node : n.kind = "NKSt_BLOCK"}

(***************************************************************************)
(* The shape of the trees the parser builds, for a set Node that is closed *)
(* under taking subtrees: the children of a node are in Node and are of    *)
(* the kinds parser.c puts there.                                          *)
(***************************************************************************)
WellFormed(n, Node) ==
  \/ n.kind = "NKEx_LIT" /\ n.lit = "LK_ID"
  \/ n.kind = "NKEx_LIT" /\ n.lit = "LK_INT" /\ n.str \in Nat
  \/ n.kind = "NKEx_UNAOP" /\ n.op \in UnaopKind /\ n.expr \in Exprs(Node)
  \/ /\ n.kind = "NKEx_BINOP"
     /\ n.op \in BinopKind
     /\ n.left \in Exprs(Node)
     /\ n.right \in Exprs(Node)
     /\ n.op = "BINOP_ASS" =>
          n.left.kind = "NKEx_LIT" /\ n.left.lit = "LK_ID"
  \/ n.kind \in {"NKSt_RETURN", "NKSt_EXPR"} /\ n.expr \in Exprs(Node)
  \/ n.kind = "NKSt_BLOCK" /\ n.list \in Seq(Stmts(Node))
  \/ /\ n.kind = "NKSt_IF"
     /\ n.cond \in Exprs(Node)
     /\ n.block \in Blocks(Node)
     /\ n.ifnot = NULL \/ n.ifnot \in Blocks(Node)
  \/ /\ n.kind = "NKSt_FOR"
     /\ {n.init, n.cond, n.post} \subseteq Exprs(Node)
     /\ n.block \in Blocks(Node)
  \/ /\ n.kind = "NKSt_FOR_WHILE"
     /\ n.cond \in Exprs(Node)
     /\ n.block \in Blocks(Node)
=============================================================================
