----------------------------- MODULE MCPrograms -----------------------------
(***************************************************************************)
(* Small sets of trees for model checking: all trees of a bounded shape,   *)
(* with the sets of expressions and statements they are built from as      *)
(* parameters.  Node is the set of all nodes that occur in a set of roots. *)
(***************************************************************************)
EXTENDS SequencesExt, Syntax

Num(v) == NewLit("LK_INT", v)
Id(x) == NewLit("LK_ID", x)
Ass(x, e) == NewBinop("BINOP_ASS", Id(x), e)
Add(l, r) == NewBinop("BINOP_ADD", l, r)
Sub(l, r) == NewBinop("BINOP_SUB", l, r)

(* Blocks of at most len statements. *)
BlocksOf(stmts, len) == {NewStBlock(list) : list \in SeqOf(stmts, len)}

(* The compound statements over some expressions and blocks. *)
IfsOf(exprs, blocks) ==
  {NewStIf(c, b, e) : c \in exprs, b \in blocks, e \in blocks \cup {NULL}}
WhilesOf(exprs, blocks) ==
  {NewStForWhile(c, b) : c \in exprs, b \in blocks}
ForsOf(inits, conds, posts, blocks) ==
  {NewStFor(i, c, p, b) :
     i \in inits, c \in conds, p \in posts, b \in blocks}

Children(n) ==
  CASE n.kind = "NKEx_LIT" -> {}
    [] n.kind \in {"NKEx_UNAOP", "NKSt_RETURN", "NKSt_EXPR"} -> {n.expr}
    [] n.kind = "NKEx_BINOP" -> {n.left, n.right}
    [] n.kind = "NKSt_BLOCK" -> ToSet(n.list)
    [] n.kind = "NKSt_IF" -> {n.cond, n.block, n.ifnot} \ {NULL}
    [] n.kind = "NKSt_FOR" -> {n.init, n.cond, n.post, n.block}
    [] n.kind = "NKSt_FOR_WHILE" -> {n.cond, n.block}

RECURSIVE NodesOf(_)
NodesOf(roots) ==
  IF roots = {} THEN {}
  ELSE roots \cup NodesOf(UNION {Children(n) : n \in roots})
=============================================================================
