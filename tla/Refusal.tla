------------------------------- MODULE Refusal -------------------------------
(***************************************************************************)
(* Which trees are refused, said without reference to the compiler.  The   *)
(* operator & is refused wherever it is written, unless what holds it      *)
(* follows a return in a block, or is the post expression of a for whose   *)
(* block returns: nothing looks there.                                     *)
(***************************************************************************)
EXTENDS Nodes

(* A return, or a block with a statement that returns. *)
Returns[n \in Node] ==
  \/ n.kind = "NKSt_RETURN"
  \/ n.kind = "NKSt_BLOCK" /\ \E k \in 1 .. Len(n.list) : Returns[n.list[k]]

(* The subtrees that are looked at. *)
Looked(n) ==
  CASE n.kind = "NKEx_LIT" -> {}
    [] n.kind \in {"NKEx_UNAOP", "NKSt_RETURN", "NKSt_EXPR"} -> {n.expr}
    [] n.kind = "NKEx_BINOP" /\ n.op = "BINOP_ASS" -> {n.right}
    [] n.kind = "NKEx_BINOP" /\ n.op # "BINOP_ASS" -> {n.left, n.right}
    [] n.kind = "NKSt_BLOCK" ->
         {n.list[k] : k \in {k \in 1 .. Len(n.list) :
                               \A j \in 1 .. k - 1 : ~Returns[n.list[j]]}}
    [] n.kind = "NKSt_IF" -> {n.cond, n.block, n.ifnot} \ {NULL}
    [] n.kind = "NKSt_FOR_WHILE" -> {n.cond, n.block}
    [] n.kind = "NKSt_FOR" ->
         {n.init, n.cond, n.block}
           \cup (IF Returns[n.block] THEN {} ELSE {n.post})

IsAddress(n) == n.kind = "NKEx_UNAOP" /\ n.op = "UNAOP_ADDR"

Refused[n \in Node] == IsAddress(n) \/ \E c \in Looked(n) : Refused[c]
=============================================================================
