-------------------------------- MODULE Dump --------------------------------
(***************************************************************************)
(* ast_dump of src/ast.c, which main -e=ast prints the tree with.          *)
(*                                                                         *)
(* The active dump functions are the variable todo: the texts and nodes    *)
(* that are still to be printed, in this order.  A text is one string of   *)
(* the source, a literal being <<kind, text>>; dump_indent prints nothing. *)
(***************************************************************************)
EXTENDS SequencesExt, Syntax

CONSTANT Programs   \* the trees that are dumped

VARIABLES
  ast,
  phase,   \* "dumping" or "done"
  todo,
  file     \* what has been printed

-----------------------------------------------------------------------------
BinopkToStr == [BINOP_ADD |-> "add", BINOP_SUB |-> "sub", BINOP_MUL |-> "mul",
                BINOP_DIV |-> "div", BINOP_ASS |-> "ass"]
UnaopkToStr == [UNAOP_NEG |-> "neg", UNAOP_ADDR |-> "addr", UNAOP_STAR |-> "star"]

Text(str) == [kind |-> "text", str |-> <<str>>]
Texts(n) == [kind |-> "text", str |-> <<n.lit, n.str>>]

(* Faulty: a block that does not close. *)
DumpStblockOpen(n) == <<Text("block{")>> \o n.list

DumpStblock(n) == <<Text("block{")>> \o n.list \o <<Text("}")>>
DumpStif(n) ==
  <<Text("if("), n.cond, Text(") "), n.block>>
    \o (IF n.ifnot = NULL THEN << >> ELSE <<Text(" else "), n.ifnot>>)

(* What dump_node does with a node: the texts it prints, and the nodes it
   calls dump_node on, in turn. *)
Pieces(n) ==
  CASE n.kind = "NKSt_BLOCK" -> DumpStblock(n)
    [] n.kind = "NKSt_RETURN" -> <<Text("return{"), n.expr, Text("}")>>
    [] n.kind = "NKSt_EXPR" -> <<Text("expr{"), n.expr, Text("}")>>
    [] n.kind = "NKSt_FOR" ->
         <<Text("for("), n.init, Text("; "), n.cond, Text("; "), n.post, Text(") "), n.block>>
    [] n.kind = "NKSt_FOR_WHILE" -> <<Text("while("), n.cond, Text(") "), n.block>>
    [] n.kind = "NKSt_IF" -> DumpStif(n)
    [] n.kind = "NKEx_LIT" -> <<Texts(n)>>
    [] n.kind = "NKEx_UNAOP" ->
         <<Text("unary("), Text(UnaopkToStr[n.op]), Text(","), n.expr, Text(")")>>
    [] n.kind = "NKEx_BINOP" ->
         <<Text("binary("), Text(BinopkToStr[n.op]), Text(","), n.left, Text(","), n.right,
           Text(")")>>

-----------------------------------------------------------------------------
Init ==
  /\ ast \in Programs
  /\ phase = "dumping"
  /\ todo = <<ast>>
  /\ file = << >>

Dumping == phase = "dumping" /\ todo # << >>

Fputs ==
  /\ Dumping
  /\ Head(todo).kind = "text"
  /\ file' = Append(file, Head(todo).str)
  /\ todo' = Tail(todo)
  /\ UNCHANGED <<ast, phase>>

(* The null pointer, which is no node, fails assert(node). *)
DumpNode ==
  /\ Dumping
  /\ Head(todo).kind \in ExprKinds \cup StmtKinds
  /\ todo' = Pieces(Head(todo)) \o Tail(todo)
  /\ UNCHANGED <<ast, phase, file>>

DumpEnd ==
  /\ phase = "dumping"
  /\ todo = << >>
  /\ phase' = "done"
  /\ UNCHANGED <<ast, todo, file>>

Next == Fputs \/ DumpNode \/ DumpEnd

=============================================================================
