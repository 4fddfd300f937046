------------------------------ MODULE TreeHeap ------------------------------
(***************************************************************************)
(* The life of a tree in main: the constructors of src/ast.c allocate its  *)
(* nodes with new_node in the order in which the parser meets them; under  *)
(* -e=ast the tree is dumped; and the cleanup of "Ast rca(ast)" at the end *)
(* of main destroys it, destroy_node calling crc_del on each field and     *)
(* crc_del calling destroy_node.                                           *)
(*                                                                         *)
(* A node is named by its path from the root, a sequence of steps          *)
(* <<field, index>>; so is the one reference there is to it, which the C   *)
(* locals of the parser hold until the parent's constructor stores it.     *)
(***************************************************************************)
EXTENDS SequencesExt, Syntax

CONSTANTS
  Programs,   \* the trees parse may return
  Place,      \* the nodes of these trees, each with the path to it
  Printable   \* nodes that what is printed is compared with, those trees among them

VARIABLES
  ast,     \* the tree
  todo,    \* the nodes the parser is in the middle of, innermost last, each
           \* with its path and the number of the field that comes next
  phase,   \* "running", "deleting", "returned"; "exited" by error(), "aborted"
  mem,     \* "unborn", "live" or "freed", for each path
  node,    \* the node that a constructor has stored there
  count,   \* struct CRC__Rc, field count
  dying,   \* the active calls of destroy_node: the path of the node, and the
           \* number of the field that comes next
  stage,   \* the stage main stops at, "ast" or "ir"
  dumping, pieces, file   \* of ast_dump

heap == <<todo, phase, mem, node, count, dying>>
dump == <<dumping, pieces, file>>
vars == <<ast, stage, heap, dump>>

D == INSTANCE Dump WITH phase <- dumping, todo <- pieces

-----------------------------------------------------------------------------
List(n) == [k \in 1 .. Len(n.list) |-> <<"list", k>>]
Child(n, step) == IF step[1] = "list" THEN n.list[step[2]] ELSE n[step[1]]

Steps(fields) == [k \in 1 .. Len(fields) |-> <<fields[k], 0>>]

(* The fields of a node in the order in which the parser builds them. *)
Built(n) ==
  CASE n.kind = "NKSt_BLOCK" -> List(n)
    [] n.kind \in {"NKSt_RETURN", "NKSt_EXPR", "NKEx_UNAOP"} -> Steps(<<"expr">>)
    [] n.kind = "NKSt_IF" ->
         Steps(IF n.ifnot = NULL THEN <<"cond", "block">> ELSE <<"cond", "block", "ifnot">>)
    [] n.kind = "NKSt_FOR" -> Steps(<<"init", "cond", "post", "block">>)
    [] n.kind = "NKSt_FOR_WHILE" -> Steps(<<"cond", "block">>)
    [] n.kind = "NKEx_BINOP" -> Steps(<<"left", "right">>)
    [] n.kind = "NKEx_LIT" -> << >>

(* Faulty: no "if (stif.ifnot)"; and a for whose post is forgotten. *)
DeletedUntested(n) ==
  IF n.kind = "NKSt_IF" THEN Steps(<<"block", "cond", "ifnot">>) ELSE Built(n)
DeletedNoPost(n) ==
  IF n.kind = "NKSt_FOR" THEN Steps(<<"cond", "init", "block">>) ELSE Built(n)

(* The fields that destroy_node deletes, in its order. *)
Deleted(n) ==
  CASE n.kind = "NKSt_IF" ->
         Steps(IF n.ifnot = NULL THEN <<"block", "cond">> ELSE <<"block", "cond", "ifnot">>)
    [] n.kind = "NKSt_FOR" -> Steps(<<"cond", "init", "post", "block">>)
    [] OTHER -> Built(n)

Root == << >>
Node == {x[1] : x \in Place}
Path == {x[2] : x \in Place}

FieldNames == {"list", "expr", "cond", "block", "ifnot", "init", "post", "left", "right"}

ASSUME PathAssumption == Path \subseteq Seq(FieldNames \X Nat)
ASSUME NodeAssumption == \A n \in Node : WellFormed(n, Node)
ASSUME PlaceAssumption ==
  /\ \A tree \in Programs : <<tree, Root>> \in Place
  /\ \A x \in Place : \A step \in ToSet(Built(x[1])) :
       <<Child(x[1], step), Append(x[2], step)>> \in Place

(* A node is what its constructor makes of its fields. *)
Constructed(n) ==
  CASE n.kind = "NKEx_LIT" -> n = NewLit(n.lit, n.str)
    [] n.kind = "NKEx_UNAOP" -> n = NewUnary(n.op, n.expr)
    [] n.kind = "NKEx_BINOP" -> n = NewBinop(n.op, n.left, n.right)
    [] n.kind = "NKSt_RETURN" -> n = NewStReturn(n.expr)
    [] n.kind = "NKSt_EXPR" -> n = NewStExpr(n.expr)
    [] n.kind = "NKSt_BLOCK" -> n = NewStBlock(n.list)
    [] n.kind = "NKSt_IF" -> n = NewStIf(n.cond, n.block, n.ifnot)
    [] n.kind = "NKSt_FOR" -> n = NewStFor(n.init, n.cond, n.post, n.block)
    [] n.kind = "NKSt_FOR_WHILE" -> n = NewStForWhile(n.cond, n.block)

ASSUME PrintableAssumption ==
  /\ Programs \subseteq Printable
  /\ \A n \in Printable : WellFormed(n, Printable) /\ Constructed(n)

-----------------------------------------------------------------------------
Begun(n, path) == [node |-> n, path |-> path, next |-> 1]

Init ==
  /\ ast \in Programs
  /\ todo = <<Begun(ast, Root)>>
  /\ phase = "running"
  /\ mem = [p \in Path |-> "unborn"]
  /\ node = [p \in Path |-> NULL]
  /\ count = [p \in Path |-> 0]
  /\ dying = << >>
  /\ stage \in {"ast", "ir"}
  /\ D!Init

Building == phase = "running" /\ todo # << >>

Inner == Last(todo)
Parts == Built(Inner.node)

(* The parser calls the function for the next part of the node. *)
Descend ==
  /\ Building
  /\ Inner.next <= Len(Parts)
  /\ LET step == Parts[Inner.next]
     IN  todo' = Append(Append(Front(todo), [Inner EXCEPT !.next = @ + 1]),
                        Begun(Child(Inner.node, step), Append(Inner.path, step)))
  /\ UNCHANGED <<ast, stage, phase, mem, node, count, dying, dump>>

(* The parts are there: the constructor, new_node and what is stored. *)
NewNode ==
  /\ Building
  /\ Inner.next > Len(Parts)
  /\ todo' = Front(todo)
  /\ mem' = [mem EXCEPT ![Inner.path] = "live"]
  /\ node' = [node EXCEPT ![Inner.path] = Inner.node]
  /\ count' = [count EXCEPT ![Inner.path] = 1]
  /\ UNCHANGED <<ast, stage, phase, dying, dump>>

Parsed == phase = "running" /\ todo = << >>

(* error(), in the parser or in the code generator: exit runs no cleanup. *)
Error ==
  /\ phase = "running"
  /\ Parsed => stage = "ir"
  /\ phase' = "exited"
  /\ UNCHANGED <<ast, stage, todo, mem, node, count, dying, dump>>

(* A step of ast_dump(ast, stdout). *)
AstDump ==
  /\ Parsed
  /\ stage = "ast"
  /\ D!Next
  /\ UNCHANGED <<stage, heap>>

(* Faulty: the count is compared before it is decremented. *)
CrcDelLate(p, active) ==
  /\ count' = [count EXCEPT ![p] = @ - 1]
  /\ dying' = IF count[p] <= 0 THEN Append(active, [path |-> p, next |-> 1]) ELSE active

(* crc_del up to the call of the deleter. *)
CrcDel(p, active) ==
  /\ count' = [count EXCEPT ![p] = @ - 1]
  /\ dying' = IF count'[p] <= 0 THEN Append(active, [path |-> p, next |-> 1]) ELSE active

(* crc__cleanup of ast, when main returns. *)
Cleanup ==
  /\ Parsed
  /\ stage = "ast" => dumping = "done"
  /\ phase' = "deleting"
  /\ CrcDel(Root, << >>)
  /\ UNCHANGED <<ast, stage, todo, mem, node, dump>>

Top == Last(dying)
Fields == Deleted(node[Top.path])

(* destroy_node deletes its next field; crc_del asserts that it is no null
   pointer. *)
DeleteField ==
  /\ phase = "deleting"
  /\ dying # << >>
  /\ Top.next <= Len(Fields)
  /\ IF Child(node[Top.path], Fields[Top.next]) = NULL
     THEN phase' = "aborted" /\ UNCHANGED <<count, dying>>
     ELSE /\ CrcDel(Append(Top.path, Fields[Top.next]),
                    Append(Front(dying), [Top EXCEPT !.next = @ + 1]))
          /\ UNCHANGED phase
  /\ UNCHANGED <<ast, stage, todo, mem, node, dump>>

(* The deleter has returned: CRC_free. *)
Free ==
  /\ phase = "deleting"
  /\ dying # << >>
  /\ Top.next > Len(Fields)
  /\ mem' = [mem EXCEPT ![Top.path] = "freed"]
  /\ dying' = Front(dying)
  /\ UNCHANGED <<ast, stage, todo, phase, node, count, dump>>

Return ==
  /\ phase = "deleting"
  /\ dying = << >>
  /\ phase' = "returned"
  /\ UNCHANGED <<ast, stage, todo, mem, node, count, dying, dump>>

Next == Descend \/ NewNode \/ Error \/ AstDump \/ Cleanup \/ DeleteField \/ Free \/ Return

Spec == Init /\ [][Next]_vars /\ WF_vars(Next)

-----------------------------------------------------------------------------
(***************************************************************************)
(* The tree as clients of the library: the reference to a node is held by  *)
(* main until the parent exists, then by the parent, and given up by the   *)
(* crc_del that makes the node die.                                        *)
(***************************************************************************)
Main == <<<<"main", 0>>>>
Nil == <<<<"nil", 0>>>>

Dying(p) == \E k \in 1 .. Len(dying) : dying[k].path = p

References == [p \in Path |-> IF mem[p] = "live" /\ ~Dying(p) THEN p ELSE Nil]
Holders ==
  [p \in Path |-> IF mem[p] # "live" \/ Dying(p) THEN Nil
                 ELSE IF p = Root \/ mem[Front(p)] = "unborn" THEN Main
                 ELSE Front(p)]
Destroyed == [t \in {Main} |-> [k \in 1 .. Len(dying) |-> dying[k].path]]

R == INSTANCE Rc WITH
       Thread <- {Main}, Object <- Path, Ref <- Path,
       to <- References, holder <- Holders, dying <- Destroyed

(* The constructors and destroy_node keep to the rules of the library: each
   step is a step of Rc, so that the theorems on Rc hold of every tree.  In
   particular a constructor stores references that the parser holds, and a
   node is freed only when it has given up all of its own: none is left. *)
ImplementsRc == R!Spec

(* main gets to its end, or exits by error: neither dump_node nor crc_del
   ever sees a null pointer, which they assert, although an if may lack its
   else. *)
Returns == <>(phase \in {"returned", "exited"})

-----------------------------------------------------------------------------
(* What ast_dump deals with, the nodes and the texts. *)
Piece == Printable \cup UNION {ToSet(D!Pieces(n)) : n \in Printable}

(* Spells(text)[<<p, k>>]: the pieces p are printed as the texts from text[k]
   on, to the last one. *)
Spells(text) ==
  LET Rest[x \in Seq(Piece) \X (1 .. Len(text) + 1)] ==
        LET p == x[1]
            k == x[2]
        IN  \/ p = << >> /\ k = Len(text) + 1
            \/ /\ p # << >> /\ Head(p).kind = "text"
               /\ k <= Len(text) /\ text[k] = Head(p).str
               /\ Rest[<<Tail(p), k + 1>>]
            \/ /\ p # << >> /\ Head(p).kind # "text"
               /\ Rest[<<D!Pieces(Head(p)) \o Tail(p), k>>]
  IN  Rest

(* The ast snapshots of the test harness can tell any two trees apart: no
   other tree is printed like this one, although nothing is put around an
   operand, an else or the parts of a list. *)
TellsTreesApart ==
  dumping = "done" => {tree \in Printable : Spells(file)[<<<<tree>>, 1>>]} = {ast}
=============================================================================
