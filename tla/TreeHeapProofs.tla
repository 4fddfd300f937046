--------------------------- MODULE TreeHeapProofs ---------------------------
(***************************************************************************)
(* The life of a tree, for any trees: the constructors and destroy_node    *)
(* are clients of crc.h that keep to its rules, and when main returns      *)
(* nothing is left of the tree.  And what ast_dump prints of it can be read *)
(* in one way only, however the trees are nested.                          *)
(***************************************************************************)
EXTENDS TreeHeap, SeqLemmas

Frame == [node : Node, path : Path, next : Nat \ {0}]
Call == [path : Path, next : Nat \ {0}]

HeapTyped ==
  /\ ast \in Programs
  /\ todo \in Seq(Frame)
  /\ \A k \in 1 .. Len(todo) : <<todo[k].node, todo[k].path>> \in Place
  /\ mem \in [Path -> {"unborn", "live", "freed"}]
  /\ node = [p \in Path |-> node[p]]
  /\ count \in [Path -> Int]
  /\ dying \in Seq(Call)

(* The part that call k of the parser is building, or the field that call k
   of destroy_node is deleting; in the innermost call, the one that is next. *)
Reached(calls, k) == IF k = Len(calls) THEN calls[k].next ELSE calls[k].next - 1

(* The frames of the parser: each inside the one below, none built yet. *)
Nested ==
  \A k \in 1 .. Len(todo) :
    /\ Len(todo[k].path) = k - 1
    /\ mem[todo[k].path] = "unborn"
    /\ Reached(todo, k) \in 1 .. Len(Built(todo[k].node)) + 1
    /\ k < Len(todo) =>
         /\ Reached(todo, k) <= Len(Built(todo[k].node))
         /\ todo[k + 1].path = Append(todo[k].path, Built(todo[k].node)[Reached(todo, k)])
         /\ todo[k + 1].node = Child(todo[k].node, Built(todo[k].node)[Reached(todo, k)])

(* The child of n, which is at p, is where it belongs. *)
There(n, p, step) ==
  mem[Append(p, step)] = "live" /\ node[Append(p, step)] = Child(n, step)

PartsThere ==
  \A k \in 1 .. Len(todo) : \A j \in 1 .. Reached(todo, k) - 1 :
    There(todo[k].node, todo[k].path, Built(todo[k].node)[j])

(* A node is part of another, or the parser is about to make it one. *)
Owned ==
  \A q \in Path : mem[q] = "live" /\ q # Root =>
    /\ Front(q) \in Path
    /\ \/ mem[Front(q)] = "live" /\ Last(q) \in ToSet(Built(node[Front(q)]))
       \/ \E k \in 1 .. Len(todo) :
            /\ Front(q) = todo[k].path
            /\ \E j \in 1 .. Reached(todo, k) - 1 : Last(q) = Built(todo[k].node)[j]

(* A node that is not being destroyed has all of its parts. *)
Whole ==
  \A p \in Path : mem[p] = "live" =>
    /\ <<node[p], p>> \in Place
    /\ count[p] = IF Dying(p) THEN 0 ELSE 1
    /\ ~Dying(p) => \A step \in ToSet(Built(node[p])) :
                      There(node[p], p, step) /\ ~Dying(Append(p, step))

(* A call of destroy_node: the fields up to the one that is being deleted are
   gone, those behind it are untouched. *)
CallAt(k) ==
  LET p == dying[k].path
      fields == Deleted(node[p])
  IN  /\ Len(p) = k - 1
      /\ mem[p] = "live"
      /\ Reached(dying, k) \in 1 .. Len(fields) + 1
      /\ k < Len(dying) => /\ Reached(dying, k) <= Len(fields)
                           /\ dying[k + 1].path = Append(p, fields[Reached(dying, k)])
      /\ \A j \in 1 .. Reached(dying, k) - 1 : mem[Append(p, fields[j])] # "live"
      /\ \A j \in dying[k].next .. Len(fields) :
           There(node[p], p, fields[j]) /\ ~Dying(Append(p, fields[j]))

Calls == \A k \in 1 .. Len(dying) : CallAt(k)

Phases ==
  /\ phase \in {"running", "deleting", "returned", "exited"}
  /\ phase # "deleting" => dying = << >>
  /\ phase \notin {"running", "exited"} => todo = << >>
  /\ phase = "running" => \A p \in Path : mem[p] # "freed"
  /\ phase = "running" /\ todo = << >> => mem[Root] = "live"
  /\ phase \in {"deleting", "returned"} /\ dying = << >> => mem[Root] # "live"

HeapInv == HeapTyped /\ Nested /\ PartsThere /\ Owned /\ Whole /\ Calls /\ Phases

(* When main returns, all that its tree took is given back. *)
NothingLeft == phase = "returned" => \A p \in Path : mem[p] # "live"

(* No assert of crc_del fails: the field of an if that may be null is tested. *)
NeverAborts == phase # "aborted"

-----------------------------------------------------------------------------
Step == FieldNames \X Nat

LEMMA FieldsAgree ==
  ASSUME NEW n \in Node
  PROVE  /\ Built(n) \in Seq(Step) /\ Deleted(n) \in Seq(Step)
         /\ ToSet(Deleted(n)) = ToSet(Built(n))
         /\ \A j, k \in 1 .. Len(Built(n)) : Built(n)[j] = Built(n)[k] => j = k
         /\ \A j, k \in 1 .. Len(Deleted(n)) : Deleted(n)[j] = Deleted(n)[k] => j = k
         /\ \A step \in ToSet(Built(n)) : Child(n, step) # NULL
<1>1. WellFormed(n, Node)
  BY NodeAssumption
<1>2. \A e \in Exprs(Node) \cup Stmts(Node) \cup Blocks(Node) : e # NULL
  BY DEF Exprs, Stmts, Blocks, ExprKinds, StmtKinds, NULL
<1>3. CASE n.kind = "NKSt_BLOCK"
  <2>1. n.list \in Seq(Stmts(Node)) /\ Len(n.list) \in Nat
    BY <1>1, <1>3 DEF WellFormed
  <2>2. Built(n) = List(n) /\ Deleted(n) = List(n)
    BY <1>3 DEF Built, Deleted
  <2>3. /\ List(n) \in Seq(Step) /\ Len(List(n)) = Len(n.list)
        /\ \A k \in 1 .. Len(n.list) : List(n)[k] = <<"list", k>>
    BY <2>1 DEF List, Step, FieldNames
  <2>4. \A j, k \in 1 .. Len(List(n)) : List(n)[j] = List(n)[k] => j = k
    BY <2>3
  <2>5. \A step \in ToSet(List(n)) : Child(n, step) # NULL
    <3> TAKE step \in ToSet(List(n))
    <3>1. PICK k \in DOMAIN List(n) : step = List(n)[k]
      BY DEF ToSet
    <3>2. k \in 1 .. Len(n.list) /\ step = <<"list", k>>
      BY <2>1, <2>3, <3>1 DEF List
    <3>3. n.list[k] \in Stmts(Node)
      BY <2>1, <3>2
    <3> QED
      BY <1>2, <3>2, <3>3 DEF Child
  <2> QED
    BY <2>2, <2>3, <2>4, <2>5
<1>4. CASE n.kind = "NKEx_LIT"
  BY <1>4 DEF Built, Deleted, ToSet
<1>5. CASE n.kind \in {"NKSt_RETURN", "NKSt_EXPR", "NKEx_UNAOP"}
  <2>1. n.expr \in Exprs(Node)
    BY <1>1, <1>5 DEF WellFormed
  <2>2. Built(n) = <<<<"expr", 0>>>> /\ Deleted(n) = <<<<"expr", 0>>>>
    BY <1>5 DEF Built, Deleted, Steps
  <2>3. Child(n, <<"expr", 0>>) = n.expr
    BY DEF Child
  <2> QED
    BY <1>2, <2>1, <2>2, <2>3 DEF ToSet, Step, FieldNames
<1>6. CASE n.kind = "NKEx_BINOP"
  <2>1. n.left \in Exprs(Node) /\ n.right \in Exprs(Node)
    BY <1>1, <1>6 DEF WellFormed
  <2>2. Built(n) = <<<<"left", 0>>, <<"right", 0>>>> /\ Deleted(n) = Built(n)
    BY <1>6 DEF Built, Deleted, Steps
  <2>3. Child(n, <<"left", 0>>) = n.left /\ Child(n, <<"right", 0>>) = n.right
    BY DEF Child
  <2> QED
    BY <1>2, <2>1, <2>2, <2>3 DEF ToSet, Step, FieldNames
<1>7. CASE n.kind = "NKSt_FOR_WHILE"
  <2>1. n.cond \in Exprs(Node) /\ n.block \in Blocks(Node)
    BY <1>1, <1>7 DEF WellFormed
  <2>2. Built(n) = <<<<"cond", 0>>, <<"block", 0>>>> /\ Deleted(n) = Built(n)
    BY <1>7 DEF Built, Deleted, Steps
  <2>3. Child(n, <<"cond", 0>>) = n.cond /\ Child(n, <<"block", 0>>) = n.block
    BY DEF Child
  <2> QED
    BY <1>2, <2>1, <2>2, <2>3 DEF ToSet, Step, FieldNames
<1>8. CASE n.kind = "NKSt_IF" /\ n.ifnot = NULL
  <2>1. n.cond \in Exprs(Node) /\ n.block \in Blocks(Node)
    BY <1>1, <1>8 DEF WellFormed
  <2>2. /\ Built(n) = <<<<"cond", 0>>, <<"block", 0>>>>
        /\ Deleted(n) = <<<<"block", 0>>, <<"cond", 0>>>>
    BY <1>8 DEF Built, Deleted, Steps
  <2>3. Child(n, <<"cond", 0>>) = n.cond /\ Child(n, <<"block", 0>>) = n.block
    BY DEF Child
  <2> QED
    BY <1>2, <2>1, <2>2, <2>3 DEF ToSet, Step, FieldNames
<1>9. CASE n.kind = "NKSt_IF" /\ n.ifnot # NULL
  <2>1. n.cond \in Exprs(Node) /\ n.block \in Blocks(Node)
    BY <1>1, <1>9 DEF WellFormed
  <2>2. /\ Built(n) = <<<<"cond", 0>>, <<"block", 0>>, <<"ifnot", 0>>>>
        /\ Deleted(n) = <<<<"block", 0>>, <<"cond", 0>>, <<"ifnot", 0>>>>
    BY <1>9 DEF Built, Deleted, Steps
  <2>3. /\ Child(n, <<"cond", 0>>) = n.cond /\ Child(n, <<"block", 0>>) = n.block
        /\ Child(n, <<"ifnot", 0>>) = n.ifnot
    BY DEF Child
  <2> QED
    BY <1>2, <1>9, <2>1, <2>2, <2>3 DEF ToSet, Step, FieldNames
<1>10. CASE n.kind = "NKSt_FOR"
  <2>1. {n.init, n.cond, n.post} \subseteq Exprs(Node) /\ n.block \in Blocks(Node)
    BY <1>1, <1>10 DEF WellFormed
  <2>2. /\ Built(n) = <<<<"init", 0>>, <<"cond", 0>>, <<"post", 0>>, <<"block", 0>>>>
        /\ Deleted(n) = <<<<"cond", 0>>, <<"init", 0>>, <<"post", 0>>, <<"block", 0>>>>
    BY <1>10 DEF Built, Deleted, Steps
  <2>3. /\ Child(n, <<"init", 0>>) = n.init /\ Child(n, <<"cond", 0>>) = n.cond
        /\ Child(n, <<"post", 0>>) = n.post /\ Child(n, <<"block", 0>>) = n.block
    BY DEF Child
  <2> QED
    BY <1>2, <2>1, <2>2, <2>3 DEF ToSet, Step, FieldNames
<1> QED
  BY <1>1, <1>3, <1>4, <1>5, <1>6, <1>7, <1>8, <1>9, <1>10 DEF WellFormed

(* Where the parts of a node are. *)
LEMMA PartPlace ==
  ASSUME NEW x \in Place, NEW step \in ToSet(Built(x[1]))
  PROVE  /\ x[1] \in Node /\ x[2] \in Path /\ x[2] \in Seq(Step) /\ step \in Step
         /\ Append(x[2], step) \in Path /\ Child(x[1], step) \in Node
         /\ <<Child(x[1], step), Append(x[2], step)>> \in Place
         /\ Append(x[2], step) # Root
         /\ Front(Append(x[2], step)) = x[2]
         /\ Last(Append(x[2], step)) = step
         /\ Len(Append(x[2], step)) = Len(x[2]) + 1
<1>1. x[1] \in Node /\ x[2] \in Path /\ x[2] \in Seq(Step)
  BY PathAssumption DEF Node, Path, Step
<1>2. step \in Step
  BY <1>1, FieldsAgree DEF ToSet
<1>3. <<Child(x[1], step), Append(x[2], step)>> \in Place
  BY PlaceAssumption
<1>4. Append(x[2], step) \in Path /\ Child(x[1], step) \in Node
  BY <1>3 DEF Path, Node
<1>5. Append(x[2], step) # Root /\ Len(Append(x[2], step)) = Len(x[2]) + 1
  BY <1>1, <1>2 DEF Root
<1>6. Front(Append(x[2], step)) = x[2] /\ Last(Append(x[2], step)) = step
  BY <1>1, <1>2 DEF Front, Last
<1> QED
  BY <1>1, <1>2, <1>3, <1>4, <1>5, <1>6

LEMMA RootIsPath == ASSUME ast \in Programs PROVE Root \in Path /\ <<ast, Root>> \in Place /\ ast \in Node
BY PlaceAssumption DEF Path, Node

LEMMA FrameStep ==
  ASSUME NEW f \in Frame
  PROVE  LET g == [f EXCEPT !.next = @ + 1]
         IN  g \in Frame /\ g.node = f.node /\ g.path = f.path /\ g.next = f.next + 1
BY DEF Frame

LEMMA FrameBegun ==
  ASSUME NEW n \in Node, NEW p \in Path
  PROVE  /\ Begun(n, p) \in Frame
         /\ Begun(n, p).node = n /\ Begun(n, p).path = p /\ Begun(n, p).next = 1
BY DEF Frame, Begun

(* The frame the parser is in. *)
LEMMA InnerFrame ==
  ASSUME HeapInv, todo # << >>
  PROVE  /\ Len(todo) \in Nat \ {0}
         /\ Inner = todo[Len(todo)]
         /\ Inner \in Frame
         /\ <<Inner.node, Inner.path>> \in Place
         /\ Len(Inner.path) = Len(todo) - 1
         /\ mem[Inner.path] = "unborn"
         /\ Parts \in Seq(Step)
         /\ Inner.next \in 1 .. Len(Parts) + 1
         /\ Front(todo) \in Seq(Frame)
         /\ Len(Front(todo)) = Len(todo) - 1
         /\ \A k \in 1 .. Len(todo) - 1 : Front(todo)[k] = todo[k]
<1>1. todo \in Seq(Frame)
  BY DEF HeapInv, HeapTyped
<1>2. /\ Len(todo) \in Nat \ {0} /\ Last(todo) = todo[Len(todo)]
      /\ Last(todo) \in Frame /\ Front(todo) \in Seq(Frame)
      /\ Len(Front(todo)) = Len(todo) - 1
      /\ \A k \in 1 .. Len(todo) - 1 : Front(todo)[k] = todo[k]
  BY <1>1, FrontType
<1>3. /\ <<Inner.node, Inner.path>> \in Place
      /\ Len(Inner.path) = Len(todo) - 1
      /\ mem[Inner.path] = "unborn"
      /\ Inner.next \in 1 .. Len(Parts) + 1
  BY <1>2 DEF HeapInv, HeapTyped, Nested, Reached, Inner, Parts
<1>4. Parts \in Seq(Step)
  BY <1>2, FieldsAgree DEF Parts, Inner, Frame
<1> QED
  BY <1>2, <1>3, <1>4 DEF Inner

(* The part the parser is about to build is not there yet. *)
LEMMA NextPart ==
  ASSUME HeapInv, Building, Inner.next <= Len(Parts)
  PROVE  LET step == Parts[Inner.next]
             q == Append(Inner.path, step)
         IN  /\ step \in ToSet(Parts)
             /\ q \in Path /\ Child(Inner.node, step) \in Node
             /\ <<Child(Inner.node, step), q>> \in Place
             /\ Len(q) = Len(todo)
             /\ mem[q] = "unborn"
<1> DEFINE step == Parts[Inner.next]
           q == Append(Inner.path, step)
<1>1. /\ Len(todo) \in Nat \ {0} /\ Inner = todo[Len(todo)] /\ Inner \in Frame
      /\ <<Inner.node, Inner.path>> \in Place /\ Len(Inner.path) = Len(todo) - 1
      /\ mem[Inner.path] = "unborn" /\ Parts \in Seq(Step)
      /\ Inner.next \in 1 .. Len(Parts) + 1
  BY InnerFrame DEF Building
<1>2. Inner.next \in 1 .. Len(Parts) /\ Inner.node \in Node
  BY <1>1 DEF Frame
<1>3. step \in ToSet(Parts)
  BY <1>1, <1>2 DEF ToSet
<1>4. step \in ToSet(Built(<<Inner.node, Inner.path>>[1]))
  BY <1>3 DEF Parts
<1>5. /\ q \in Path /\ Child(Inner.node, step) \in Node
      /\ <<Child(Inner.node, step), q>> \in Place
      /\ q # Root /\ Front(q) = Inner.path /\ Last(q) = step
      /\ Len(q) = Len(Inner.path) + 1
  <2> HIDE DEF step
  <2> QED
    BY <1>1, <1>4, PartPlace
<1> HIDE DEF step, q
<1>6. mem[q] # "live"
  <2> SUFFICES ASSUME mem[q] = "live"
               PROVE  FALSE
    OBVIOUS
  <2>1. PICK k \in 1 .. Len(todo) :
          /\ Inner.path = todo[k].path
          /\ \E j \in 1 .. Reached(todo, k) - 1 : step = Built(todo[k].node)[j]
    BY <1>1, <1>5 DEF HeapInv, Owned
  <2>2. k = Len(todo)
    BY <1>1, <2>1 DEF HeapInv, Nested
  <2>3. PICK j \in 1 .. Inner.next - 1 : step = Parts[j]
    BY <1>1, <2>1, <2>2 DEF Reached, Parts
  <2>4. j \in 1 .. Len(Parts) /\ j # Inner.next /\ Parts[j] = Parts[Inner.next]
    BY <1>2, <1>1, <2>3 DEF step
  <2> QED
    BY <1>2, <2>4, FieldsAgree DEF Parts
<1>7. mem[q] \in {"unborn", "live", "freed"} /\ mem[q] # "freed"
  BY <1>5 DEF HeapInv, HeapTyped, Phases, Building
<1> QED
  BY <1>1, <1>3, <1>5, <1>6, <1>7 DEF step, q

(* The count, the state and the deaths of the nodes are left alone. *)
LEMMA Stutter ==
  ASSUME UNCHANGED <<mem, count, dying>>
  PROVE  UNCHANGED R!vars
BY DEF R!vars, References, Holders, Destroyed, Dying

(* What of the invariant is about the tree that is there. *)
LEMMA SameTree ==
  ASSUME UNCHANGED <<mem, node, count, dying>>
  PROVE  Whole' = Whole /\ Calls' = Calls
<1>1. \A p : Dying(p)' = Dying(p)
  BY DEF Dying
<1>2. \A n, p, step : There(n, p, step)' = There(n, p, step)
  BY DEF There
<1>3. Whole' = Whole
  BY <1>1, <1>2 DEF Whole
<1>4. Calls' = Calls
  BY <1>1, <1>2 DEF Calls, CallAt
<1> QED
  BY <1>3, <1>4

LEMMA DescendKeeps ==
  ASSUME HeapInv, Descend
  PROVE  HeapInv' /\ UNCHANGED R!vars
<1>0. PICK n \in Nat \ {0} : n = Len(todo)
  BY InnerFrame DEF Descend, Building
<1> DEFINE step == Parts[Inner.next]
           q == Append(Inner.path, step)
           child == Child(Inner.node, step)
           top == [Inner EXCEPT !.next = @ + 1]
           new == Begun(child, q)
<1>1. /\ n \in Nat \ {0} /\ n = Len(todo) /\ Inner = todo[n] /\ Inner \in Frame
      /\ <<Inner.node, Inner.path>> \in Place /\ Len(Inner.path) = n - 1
      /\ Inner.next \in 1 .. Len(Parts) + 1
      /\ todo \in Seq(Frame) /\ todo # << >>
  BY <1>0, InnerFrame DEF Descend, Building, HeapInv, HeapTyped
<1>2. /\ q \in Path /\ child \in Node /\ <<child, q>> \in Place
      /\ Len(q) = n /\ mem[q] = "unborn"
  BY <1>0, NextPart DEF Descend
<1>3. /\ todo' = Append(Append(Front(todo), top), new)
      /\ Inner.next <= Len(Parts) /\ phase = "running"
      /\ UNCHANGED <<ast, phase, mem, node, count, dying>>
  BY DEF Descend, Building
<1>4. /\ top \in Frame /\ top.node = Inner.node /\ top.path = Inner.path
      /\ top.next = Inner.next + 1
      /\ new \in Frame /\ new.node = child /\ new.path = q /\ new.next = 1
  <2>1. /\ top \in Frame /\ top.node = Inner.node /\ top.path = Inner.path
        /\ top.next = Inner.next + 1
    BY <1>1, FrameStep
  <2> HIDE DEF child, q
  <2>2. new \in Frame /\ new.node = child /\ new.path = q /\ new.next = 1
    BY <1>2, FrameBegun
  <2> QED
    BY <2>1, <2>2
<1> HIDE DEF top, new
<1>5. /\ todo' \in Seq(Frame) /\ Len(todo') = n + 1
      /\ todo'[n] = top /\ todo'[n + 1] = new
      /\ \A k \in 1 .. n - 1 : todo'[k] = todo[k]
  <2>1. LET t == Append(Append(Front(todo), top), new)
        IN  /\ t \in Seq(Frame) /\ Len(t) = Len(todo) + 1
            /\ t[Len(todo)] = top /\ t[Len(todo) + 1] = new
            /\ \A k \in 1 .. Len(todo) - 1 : t[k] = todo[k]
    BY <1>1, <1>4, CallStack
  <2> QED
    BY <1>1, <1>3, <2>1
<1>6. /\ \A k \in 1 .. n : /\ todo'[k].node = todo[k].node
                           /\ todo'[k].path = todo[k].path
                           /\ Reached(todo', k) = Reached(todo, k)
      /\ Reached(todo', n + 1) = 1
  <2>1. /\ Reached(todo', n) = top.next - 1 /\ Reached(todo', n + 1) = new.next
        /\ \A k \in 1 .. n - 1 : Reached(todo', k) = todo'[k].next - 1
    BY <1>1, <1>5 DEF Reached
  <2>2. /\ Reached(todo, n) = Inner.next
        /\ \A k \in 1 .. n - 1 : Reached(todo, k) = todo[k].next - 1
    BY <1>1 DEF Reached
  <2>3. Inner.next \in Nat
    BY <1>1 DEF Frame
  <2>4. /\ todo'[n].node = todo[n].node /\ todo'[n].path = todo[n].path
        /\ Reached(todo', n) = Reached(todo, n)
    BY <1>1, <1>4, <1>5, <2>1, <2>2, <2>3
  <2>5. ASSUME NEW k \in 1 .. n - 1
        PROVE  /\ todo'[k].node = todo[k].node /\ todo'[k].path = todo[k].path
               /\ Reached(todo', k) = Reached(todo, k)
    <3>1. todo'[k] = todo[k]
      BY <1>5
    <3> QED
      BY <2>1, <2>2, <3>1
  <2>6. Reached(todo', n + 1) = 1
    BY <1>4, <2>1
  <2>7. \A k \in 1 .. n : k = n \/ k \in 1 .. n - 1
    BY <1>1
  <2> QED
    BY <2>4, <2>5, <2>6, <2>7
<1>7. Len(Built(child)) \in Nat
  BY <1>2, FieldsAgree
<1> HIDE DEF q, child
<1>8. HeapTyped'
  <2>1. \A k \in 1 .. n + 1 : <<todo'[k].node, todo'[k].path>> \in Place
    <3> TAKE k \in 1 .. n + 1
    <3>1. CASE k \in 1 .. n
      BY <1>1, <1>6, <3>1 DEF HeapInv, HeapTyped
    <3>2. CASE k = n + 1
      BY <1>2, <1>4, <1>5, <3>2
    <3> QED
      BY <1>1, <3>1, <3>2
  <2> QED
    BY <1>3, <1>5, <2>1 DEF HeapInv, HeapTyped
<1>9. Nested'
  <2> SUFFICES ASSUME NEW k \in 1 .. n + 1
               PROVE  /\ Len(todo'[k].path) = k - 1
                      /\ mem[todo'[k].path] = "unborn"
                      /\ Reached(todo', k) \in 1 .. Len(Built(todo'[k].node)) + 1
                      /\ k < n + 1 =>
                           /\ Reached(todo', k) <= Len(Built(todo'[k].node))
                           /\ todo'[k + 1].path =
                                Append(todo'[k].path, Built(todo'[k].node)[Reached(todo', k)])
                           /\ todo'[k + 1].node =
                                Child(todo'[k].node, Built(todo'[k].node)[Reached(todo', k)])
    BY <1>3, <1>5 DEF Nested
  <2>1. CASE k \in 1 .. n - 1
    <3>1. /\ k \in 1 .. n /\ k + 1 \in 1 .. n /\ k < n
      BY <1>1, <2>1
    <3>2. /\ Len(todo[k].path) = k - 1 /\ mem[todo[k].path] = "unborn"
          /\ Reached(todo, k) \in 1 .. Len(Built(todo[k].node)) + 1
          /\ Reached(todo, k) <= Len(Built(todo[k].node))
          /\ todo[k + 1].path = Append(todo[k].path, Built(todo[k].node)[Reached(todo, k)])
          /\ todo[k + 1].node = Child(todo[k].node, Built(todo[k].node)[Reached(todo, k)])
      BY <1>1, <3>1 DEF HeapInv, Nested
    <3> QED
      BY <1>6, <3>1, <3>2
  <2>2. CASE k = n
    <3>1. /\ Len(todo[n].path) = n - 1 /\ mem[todo[n].path] = "unborn"
          /\ Reached(todo, n) = Inner.next
      <4>1. n \in 1 .. Len(todo)
        BY <1>1
      <4>2. Reached(todo, n) = Inner.next
        BY <1>1 DEF Reached
      <4> QED
        BY <4>1, <4>2 DEF HeapInv, Nested
    <3>2. /\ todo'[n].node = Inner.node /\ todo'[n].path = Inner.path
          /\ Reached(todo', n) = Inner.next /\ n \in 1 .. n
      BY <1>1, <1>6, <3>1
    <3>3. todo'[n + 1].path = q /\ todo'[n + 1].node = child
      BY <1>4, <1>5
    <3>4. Inner.next \in 1 .. Len(Built(Inner.node)) + 1 /\ Inner.next <= Len(Built(Inner.node))
      BY <1>1, <1>3 DEF Parts
    <3> QED
      BY <1>1, <2>2, <3>1, <3>2, <3>3, <3>4 DEF q, child, Parts
  <2>3. CASE k = n + 1
    BY <1>1, <1>2, <1>4, <1>5, <1>6, <1>7, <2>3
  <2> QED
    BY <1>1, <2>1, <2>2, <2>3
<1>10. PartsThere'
  <2> SUFFICES ASSUME NEW k \in 1 .. n + 1, NEW j \in 1 .. Reached(todo', k) - 1
               PROVE  There(todo'[k].node, todo'[k].path, Built(todo'[k].node)[j])
    BY <1>3, <1>5 DEF PartsThere, There
  <2>1. k \in 1 .. n
    BY <1>1, <1>6
  <2>2. There(todo[k].node, todo[k].path, Built(todo[k].node)[j])
    BY <1>1, <1>6, <2>1 DEF HeapInv, PartsThere
  <2> QED
    BY <1>6, <2>1, <2>2
<1>11. Owned'
  <2> SUFFICES ASSUME NEW p \in Path, mem[p] = "live", p # Root
               PROVE  /\ Front(p) \in Path
                      /\ \/ /\ mem[Front(p)] = "live"
                            /\ Last(p) \in ToSet(Built(node[Front(p)]))
                         \/ \E k \in 1 .. n + 1 :
                              /\ Front(p) = todo'[k].path
                              /\ \E j \in 1 .. Reached(todo', k) - 1 :
                                   Last(p) = Built(todo'[k].node)[j]
    BY <1>3, <1>5 DEF Owned
  <2>1. /\ Front(p) \in Path
        /\ \/ /\ mem[Front(p)] = "live"
              /\ Last(p) \in ToSet(Built(node[Front(p)]))
           \/ \E k \in 1 .. n :
                /\ Front(p) = todo[k].path
                /\ \E j \in 1 .. Reached(todo, k) - 1 : Last(p) = Built(todo[k].node)[j]
    BY <1>1 DEF HeapInv, Owned
  <2>2. ASSUME NEW k \in 1 .. n, Front(p) = todo[k].path,
               NEW j \in 1 .. Reached(todo, k) - 1, Last(p) = Built(todo[k].node)[j]
        PROVE  /\ k \in 1 .. n + 1
               /\ Front(p) = todo'[k].path
               /\ j \in 1 .. Reached(todo', k) - 1
               /\ Last(p) = Built(todo'[k].node)[j]
    BY <1>1, <1>6, <2>2
  <2> QED
    BY <2>1, <2>2
<1>12. Whole' /\ Calls'
  BY <1>3, SameTree DEF HeapInv
<1>13. Phases'
  <2>1. todo' # << >>
    BY <1>1, <1>5
  <2> QED
    BY <1>3, <2>1 DEF HeapInv, Phases
<1> QED
  BY <1>3, <1>8, <1>9, <1>10, <1>11, <1>12, <1>13, Stutter DEF HeapInv

LEMMA FrameAt ==
  ASSUME HeapInv, NEW k \in 1 .. Len(todo)
  PROVE  todo[k] \in Frame
BY ElementOfSeq DEF HeapInv, HeapTyped

(* What is left to build once a node is there: the frames below it, the
   innermost of which has one more part. *)
LEMMA Popped ==
  ASSUME HeapInv, NewNode, NEW n \in Nat \ {0}, n = Len(todo)
  PROVE  /\ todo' \in Seq(Frame) /\ Len(todo') = n - 1
         /\ \A k \in 1 .. n - 1 : todo'[k] = todo[k]
         /\ \A k \in 1 .. n - 1 : Reached(todo, k) <= Reached(todo', k)
         /\ \A k \in 1 .. n - 2 : Reached(todo', k) = Reached(todo, k)
         /\ n > 1 => /\ Reached(todo', n - 1) = Reached(todo, n - 1) + 1
                     /\ Reached(todo, n - 1) \in 1 .. Len(Built(todo[n - 1].node))
                     /\ Inner.path = Append(todo[n - 1].path,
                                            Built(todo[n - 1].node)[Reached(todo, n - 1)])
                     /\ Inner.node = Child(todo[n - 1].node,
                                           Built(todo[n - 1].node)[Reached(todo, n - 1)])
         /\ \A k \in 1 .. n - 1 : todo[k].path # Inner.path
<1>1. /\ Front(todo) \in Seq(Frame) /\ Len(Front(todo)) = n - 1
      /\ \A k \in 1 .. n - 1 : Front(todo)[k] = todo[k]
      /\ Inner = todo[n] /\ Len(Inner.path) = n - 1
  BY InnerFrame DEF NewNode, Building
<1>2. todo' = Front(todo)
  BY DEF NewNode
<1>3. \A k \in 1 .. n - 1 : k \in 1 .. Len(todo) /\ k < Len(todo) /\ k # n
  OBVIOUS
<1>4. \A k \in 1 .. n - 1 : todo[k] \in Frame /\ todo[k].next \in Nat
  <2> TAKE k \in 1 .. n - 1
  <2>1. todo[k] \in Frame
    BY <1>3, FrameAt
  <2> QED
    BY <2>1 DEF Frame
<1>5. \A k \in 1 .. n - 1 : Reached(todo, k) = todo[k].next - 1
  BY <1>3 DEF Reached
<1>6. \A k \in 1 .. n - 2 : k \in 1 .. n - 1 /\ Reached(todo', k) = todo[k].next - 1
  BY <1>1, <1>2 DEF Reached
<1>7. n > 1 => n - 1 \in 1 .. n - 1 /\ Reached(todo', n - 1) = todo[n - 1].next
  BY <1>1, <1>2 DEF Reached
<1>8. \A k \in 1 .. n - 1 : Len(todo[k].path) = k - 1
  BY <1>3 DEF HeapInv, Nested
<1>9. n > 1 =>
        /\ Reached(todo, n - 1) \in 1 .. Len(Built(todo[n - 1].node))
        /\ Inner.path = Append(todo[n - 1].path,
                               Built(todo[n - 1].node)[Reached(todo, n - 1)])
        /\ Inner.node = Child(todo[n - 1].node,
                              Built(todo[n - 1].node)[Reached(todo, n - 1)])
  <2> SUFFICES ASSUME n > 1
               PROVE  /\ Reached(todo, n - 1) \in 1 .. Len(Built(todo[n - 1].node))
                      /\ todo[n].path = Append(todo[n - 1].path,
                               Built(todo[n - 1].node)[Reached(todo, n - 1)])
                      /\ todo[n].node = Child(todo[n - 1].node,
                               Built(todo[n - 1].node)[Reached(todo, n - 1)])
    BY <1>1
  <2> DEFINE m == n - 1
  <2>1. m \in 1 .. Len(todo) /\ m < Len(todo) /\ n = m + 1
    OBVIOUS
  <2> HIDE DEF m
  <2>2. /\ Reached(todo, m) \in 1 .. Len(Built(todo[m].node)) + 1
        /\ Reached(todo, m) <= Len(Built(todo[m].node))
        /\ todo[m + 1].path = Append(todo[m].path, Built(todo[m].node)[Reached(todo, m)])
        /\ todo[m + 1].node = Child(todo[m].node, Built(todo[m].node)[Reached(todo, m)])
    BY <2>1 DEF HeapInv, Nested
  <2>3. Len(Built(todo[m].node)) \in Nat
    <3>1. todo[m] \in Frame
      BY <2>1, FrameAt
    <3> QED
      BY <3>1, FieldsAgree DEF Frame
  <2>4. Reached(todo, m) \in 1 .. Len(Built(todo[m].node))
    BY <2>2, <2>3
  <2> QED
    BY <2>1, <2>2, <2>4 DEF m
<1>10. \A k \in 1 .. n - 1 : Reached(todo, k) <= Reached(todo', k)
  <2> TAKE k \in 1 .. n - 1
  <2>1. Reached(todo, k) = todo[k].next - 1 /\ todo[k].next \in Nat
    BY <1>4, <1>5
  <2>2. CASE k \in 1 .. n - 2
    BY <1>6, <2>1, <2>2
  <2>3. CASE k = n - 1 /\ n > 1
    BY <1>7, <2>1, <2>3
  <2> QED
    BY <2>2, <2>3
<1>11. n > 1 => Reached(todo', n - 1) = Reached(todo, n - 1) + 1
  BY <1>4, <1>5, <1>7
<1>12. \A k \in 1 .. n - 1 : todo[k].path # Inner.path
  <2> TAKE k \in 1 .. n - 1
  <2>1. Len(todo[k].path) # Len(Inner.path)
    BY <1>1, <1>8
  <2> QED
    BY <2>1
<1>13. \A k \in 1 .. n - 2 : Reached(todo', k) = Reached(todo, k)
  BY <1>5, <1>6
<1> QED
  BY <1>1, <1>2, <1>9, <1>10, <1>11, <1>12, <1>13

LEMMA NewNodeKeeps ==
  ASSUME HeapInv, NewNode
  PROVE  HeapInv'
<1>0. PICK n \in Nat \ {0} : n = Len(todo)
  BY InnerFrame DEF NewNode, Building
<1> DEFINE p == Inner.path
           m == Inner.node
<1>1. /\ Inner = todo[n] /\ m \in Node /\ p \in Path
      /\ <<m, p>> \in Place /\ Len(p) = n - 1 /\ mem[p] = "unborn"
      /\ Parts \in Seq(Step) /\ Inner.next \in 1 .. Len(Parts) + 1
  BY <1>0, InnerFrame DEF NewNode, Building, Frame
<1>2. /\ Inner.next > Len(Parts) /\ phase = "running" /\ dying = << >>
      /\ mem' = [mem EXCEPT ![p] = "live"]
      /\ node' = [node EXCEPT ![p] = m]
      /\ count' = [count EXCEPT ![p] = 1]
      /\ UNCHANGED <<ast, phase, dying>>
  BY DEF NewNode, Building, HeapInv, Phases
<1>3. /\ todo' \in Seq(Frame) /\ Len(todo') = n - 1
      /\ \A k \in 1 .. n - 1 : todo'[k] = todo[k]
      /\ \A k \in 1 .. n - 1 : Reached(todo, k) <= Reached(todo', k)
      /\ \A k \in 1 .. n - 2 : Reached(todo', k) = Reached(todo, k)
      /\ n > 1 => /\ Reached(todo', n - 1) = Reached(todo, n - 1) + 1
                  /\ Reached(todo, n - 1) \in 1 .. Len(Built(todo[n - 1].node))
                  /\ p = Append(todo[n - 1].path,
                                Built(todo[n - 1].node)[Reached(todo, n - 1)])
                  /\ m = Child(todo[n - 1].node,
                               Built(todo[n - 1].node)[Reached(todo, n - 1)])
      /\ \A k \in 1 .. n - 1 : todo[k].path # p
  BY <1>0, Popped
<1> HIDE DEF p, m
<1>4. /\ mem \in [Path -> {"unborn", "live", "freed"}]
      /\ node = [q \in Path |-> node[q]] /\ count \in [Path -> Int]
      /\ ast \in Programs /\ dying \in Seq(Call)
      /\ \A k \in 1 .. n : todo[k] \in Frame /\ <<todo[k].node, todo[k].path>> \in Place
  BY <1>0, FrameAt DEF HeapInv, HeapTyped
<1>5. /\ mem'[p] = "live" /\ node'[p] = m /\ count'[p] = 1
      /\ \A q \in Path : q # p => mem'[q] = mem[q] /\ node'[q] = node[q] /\ count'[q] = count[q]
      /\ \A q \in Path : mem[q] = "live" => mem'[q] = "live" /\ node'[q] = node[q] /\ q # p
  BY <1>1, <1>2, <1>4
<1>6. \A q : ~Dying(q) /\ ~Dying(q)'
  BY <1>2 DEF Dying
<1>7. HeapTyped'
  <2>1. \A k \in 1 .. n - 1 : <<todo'[k].node, todo'[k].path>> \in Place
    <3> TAKE k \in 1 .. n - 1
    <3>1. k \in 1 .. n
      OBVIOUS
    <3> QED
      BY <1>3, <1>4, <3>1
  <2>2. mem' \in [Path -> {"unborn", "live", "freed"}]
    BY <1>1, <1>2, <1>4
  <2>3. node' = [q \in Path |-> node'[q]]
    BY <1>1, <1>2, <1>4
  <2>4. count' \in [Path -> Int]
    BY <1>1, <1>2, <1>4
  <2> QED
    BY <1>2, <1>3, <1>4, <2>1, <2>2, <2>3, <2>4 DEF HeapTyped
<1>8. ASSUME NEW k \in 1 .. n - 1
      PROVE  /\ todo'[k] = todo[k] /\ k \in 1 .. n
             /\ todo[k].path \in Path /\ todo[k].node \in Node
             /\ Built(todo[k].node) \in Seq(Step) /\ todo[k].path \in Seq(Step)
             /\ Len(todo[k].path) = k - 1
             /\ mem[todo[k].path] = "unborn" /\ mem'[todo[k].path] = "unborn"
             /\ Reached(todo, k) \in 1 .. Len(Built(todo[k].node))
             /\ todo[k + 1].path = Append(todo[k].path, Built(todo[k].node)[Reached(todo, k)])
             /\ todo[k + 1].node = Child(todo[k].node, Built(todo[k].node)[Reached(todo, k)])
  <2>1. k \in 1 .. n /\ k < n
    OBVIOUS
  <2>2. todo[k].path \in Path /\ todo[k].node \in Node
    BY <1>4, <2>1 DEF Frame
  <2>3. Built(todo[k].node) \in Seq(Step) /\ todo[k].path \in Seq(Step)
    BY <2>2, FieldsAgree, PathAssumption DEF Step
  <2>4. /\ Len(todo[k].path) = k - 1 /\ mem[todo[k].path] = "unborn"
        /\ Reached(todo, k) \in 1 .. Len(Built(todo[k].node)) + 1
        /\ Reached(todo, k) <= Len(Built(todo[k].node))
        /\ todo[k + 1].path = Append(todo[k].path, Built(todo[k].node)[Reached(todo, k)])
        /\ todo[k + 1].node = Child(todo[k].node, Built(todo[k].node)[Reached(todo, k)])
    BY <1>0, <2>1 DEF HeapInv, Nested
  <2>5. mem'[todo[k].path] = "unborn"
    BY <1>3, <1>5, <2>2, <2>4
  <2>6. Len(Built(todo[k].node)) \in Nat
    BY <2>3
  <2> QED
    BY <1>3, <2>1, <2>2, <2>3, <2>4, <2>5, <2>6
<1>9. Nested'
  <2> SUFFICES ASSUME NEW k \in 1 .. n - 1
               PROVE  /\ Len(todo'[k].path) = k - 1
                      /\ mem'[todo'[k].path] = "unborn"
                      /\ Reached(todo', k) \in 1 .. Len(Built(todo'[k].node)) + 1
                      /\ k < n - 1 =>
                           /\ Reached(todo', k) <= Len(Built(todo'[k].node))
                           /\ todo'[k + 1].path =
                                Append(todo'[k].path, Built(todo'[k].node)[Reached(todo', k)])
                           /\ todo'[k + 1].node =
                                Child(todo'[k].node, Built(todo'[k].node)[Reached(todo', k)])
    BY <1>3 DEF Nested
  <2>0. Len(Built(todo[k].node)) \in Nat
    BY <1>8
  <2>1. CASE k \in 1 .. n - 2
    <3>1. k + 1 \in 1 .. n - 1
      BY <2>1
    <3>2. todo'[k + 1] = todo[k + 1] /\ Reached(todo', k) = Reached(todo, k)
      BY <1>3, <2>1, <3>1
    <3>3. /\ todo'[k] = todo[k] /\ Len(todo[k].path) = k - 1
          /\ mem'[todo[k].path] = "unborn"
          /\ Reached(todo, k) \in 1 .. Len(Built(todo[k].node))
          /\ todo[k + 1].path = Append(todo[k].path, Built(todo[k].node)[Reached(todo, k)])
          /\ todo[k + 1].node = Child(todo[k].node, Built(todo[k].node)[Reached(todo, k)])
      BY <1>8
    <3>4. /\ Reached(todo, k) \in 1 .. Len(Built(todo[k].node)) + 1
          /\ Reached(todo, k) <= Len(Built(todo[k].node))
      BY <2>0, <3>3
    <3> QED
      BY <3>2, <3>3, <3>4
  <2>2. CASE k = n - 1
    <3>1. n > 1 /\ ~(k < n - 1)
      BY <2>2
    <3>2. Reached(todo', k) = Reached(todo, k) + 1
      BY <1>3, <2>2, <3>1
    <3>3. Reached(todo', k) \in 1 .. Len(Built(todo[k].node)) + 1
      BY <1>8, <2>0, <3>2
    <3> QED
      BY <1>8, <3>1, <3>3
  <2> QED
    BY <2>1, <2>2
<1>10. PartsThere'
  <2> SUFFICES ASSUME NEW k \in 1 .. n - 1, NEW j \in 1 .. Reached(todo', k) - 1
               PROVE  LET q == Append(todo[k].path, Built(todo[k].node)[j])
                      IN  mem'[q] = "live" /\ node'[q] = Child(todo[k].node, Built(todo[k].node)[j])
    <3>1. \A k \in 1 .. n - 1 : todo'[k] = todo[k]
      BY <1>3
    <3>2. Len(todo') = n - 1
      BY <1>3
    <3> QED
      BY <3>1, <3>2 DEF PartsThere, There
  <2>1. CASE j \in 1 .. Reached(todo, k) - 1
    <3>1. j \in 1 .. Len(Built(todo[k].node))
      BY <1>8, <2>1
    <3>2. /\ Built(todo[k].node)[j] \in ToSet(Built(todo[k].node))
          /\ <<todo[k].node, todo[k].path>> \in Place
      BY <1>4, <1>8, <3>1 DEF ToSet
    <3>3. Append(todo[k].path, Built(todo[k].node)[j]) \in Path
      <4>1. Built(todo[k].node)[j] \in ToSet(Built(<<todo[k].node, todo[k].path>>[1]))
        BY <3>2
      <4> QED
        BY <3>2, <4>1, PartPlace
    <3>4. There(todo[k].node, todo[k].path, Built(todo[k].node)[j])
      BY <1>0, <1>8, <2>1 DEF HeapInv, PartsThere
    <3> QED
      BY <1>5, <3>3, <3>4 DEF There
  <2>2. CASE ~(j \in 1 .. Reached(todo, k) - 1)
    <3>1. k = n - 1 /\ n > 1 /\ j = Reached(todo, k)
      <4>1. ~(k \in 1 .. n - 2)
        BY <1>3, <2>2
      <4>2. k = n - 1 /\ n > 1
        BY <4>1
      <4>3. Reached(todo', k) = Reached(todo, k) + 1 /\ Reached(todo, k) \in Nat
        BY <1>3, <1>8, <4>2
      <4> QED
        BY <2>2, <4>2, <4>3
    <3> QED
      BY <1>3, <1>5, <3>1
  <2> QED
    BY <2>1, <2>2
<1>11. Owned'
  <2> SUFFICES ASSUME NEW q \in Path, mem'[q] = "live", q # Root
               PROVE  /\ Front(q) \in Path
                      /\ \/ /\ mem'[Front(q)] = "live"
                            /\ Last(q) \in ToSet(Built(node'[Front(q)]))
                         \/ \E k \in 1 .. n - 1 :
                              /\ Front(q) = todo'[k].path
                              /\ \E j \in 1 .. Reached(todo', k) - 1 :
                                   Last(q) = Built(todo'[k].node)[j]
    BY <1>3 DEF Owned
  <2>1. CASE q = p
    <3>1. n > 1
      <4>1. p \in Seq(Step)
        BY <1>1, PathAssumption DEF Step
      <4> QED
        BY <1>1, <2>1, <4>1, EmptySeq DEF Root
    <3>2. n - 1 \in 1 .. n - 1
      BY <3>1
    <3> DEFINE k == n - 1
    <3> HIDE DEF k
    <3>3. /\ k \in 1 .. n - 1 /\ todo[k].path \in Seq(Step) /\ todo[k].path \in Path
          /\ Built(todo[k].node) \in Seq(Step) /\ todo'[k] = todo[k]
          /\ Reached(todo, k) \in 1 .. Len(Built(todo[k].node))
          /\ Reached(todo', k) = Reached(todo, k) + 1
          /\ p = Append(todo[k].path, Built(todo[k].node)[Reached(todo, k)])
      BY <1>3, <1>8, <3>1, <3>2 DEF k
    <3>4. /\ Front(p) = todo[k].path
          /\ Last(p) = Built(todo[k].node)[Reached(todo, k)]
      BY <3>3 DEF Front, Last
    <3>5. Reached(todo, k) \in 1 .. Reached(todo', k) - 1
      BY <3>3
    <3> QED
      BY <2>1, <3>3, <3>4, <3>5
  <2>2. CASE q # p
    <3>1. mem[q] = "live"
      BY <1>5, <2>2
    <3>2. /\ Front(q) \in Path
          /\ \/ /\ mem[Front(q)] = "live"
                /\ Last(q) \in ToSet(Built(node[Front(q)]))
             \/ \E k \in 1 .. n :
                  /\ Front(q) = todo[k].path
                  /\ \E j \in 1 .. Reached(todo, k) - 1 : Last(q) = Built(todo[k].node)[j]
      BY <1>0, <3>1 DEF HeapInv, Owned
    <3>3. CASE mem[Front(q)] = "live" /\ Last(q) \in ToSet(Built(node[Front(q)]))
      BY <1>5, <3>2, <3>3
    <3>4. ASSUME NEW k \in 1 .. n, Front(q) = todo[k].path,
                 NEW j \in 1 .. Reached(todo, k) - 1, Last(q) = Built(todo[k].node)[j]
          PROVE  \/ /\ mem'[Front(q)] = "live"
                    /\ Last(q) \in ToSet(Built(node'[Front(q)]))
                 \/ \E i \in 1 .. n - 1 :
                      /\ Front(q) = todo'[i].path
                      /\ \E l \in 1 .. Reached(todo', i) - 1 :
                           Last(q) = Built(todo'[i].node)[l]
      <4>1. CASE k \in 1 .. n - 1
        <5>1. j \in 1 .. Reached(todo', k) - 1
          <6>1. Reached(todo, k) <= Reached(todo', k) /\ Reached(todo, k) \in Nat
            BY <1>3, <1>8, <4>1
          <6>2. Reached(todo', k) \in Nat
            <7>1. k \in 1 .. n - 2 \/ (k = n - 1 /\ n > 1)
              BY <4>1
            <7> QED
              BY <1>3, <6>1, <7>1
          <6> QED
            BY <6>1, <6>2
        <5>2. Front(q) = todo'[k].path /\ Last(q) = Built(todo'[k].node)[j]
          BY <1>8, <3>4, <4>1
        <5> QED
          BY <4>1, <5>1, <5>2
      <4>2. CASE k = n
        <5>1. Front(q) = p /\ Reached(todo, k) = Inner.next /\ Built(todo[k].node) = Parts
          BY <1>0, <1>1, <3>4, <4>2 DEF Reached, Parts, p
        <5>2. j \in 1 .. Len(Parts) /\ Last(q) = Parts[j]
          BY <1>1, <3>4, <5>1
        <5>3. Last(q) \in ToSet(Parts)
          BY <1>1, <5>2 DEF ToSet
        <5> QED
          BY <1>5, <5>1, <5>3 DEF Parts, m
      <4> QED
        BY <4>1, <4>2
    <3> QED
      BY <3>2, <3>3, <3>4
  <2> QED
    BY <2>1, <2>2
<1>12. Whole'
  <2> SUFFICES ASSUME NEW q \in Path, mem'[q] = "live"
               PROVE  /\ <<node'[q], q>> \in Place
                      /\ count'[q] = 1
                      /\ \A step \in ToSet(Built(node'[q])) :
                           /\ mem'[Append(q, step)] = "live"
                           /\ node'[Append(q, step)] = Child(node'[q], step)
    <3>1. \A q : ~Dying(q)'
      BY <1>6
    <3> QED
      BY <3>1 DEF Whole, There
  <2>1. CASE q = p
    <3> SUFFICES ASSUME NEW step \in ToSet(Built(m))
                 PROVE  /\ mem'[Append(p, step)] = "live"
                        /\ node'[Append(p, step)] = Child(m, step)
      BY <1>1, <1>5, <2>1 DEF There
    <3>1. PICK j \in 1 .. Len(Parts) : step = Parts[j]
      BY <1>1 DEF ToSet, Parts, m
    <3>2. j \in 1 .. Reached(todo, n) - 1
      BY <1>0, <1>1, <1>2, <3>1 DEF Reached
    <3>3. There(todo[n].node, todo[n].path, Built(todo[n].node)[j])
      BY <1>0, <3>2 DEF HeapInv, PartsThere
    <3>4. There(m, p, step)
      BY <1>1, <3>1, <3>3 DEF Parts, m, p
    <3>5. Append(p, step) \in Path
      <4>1. step \in ToSet(Built(<<m, p>>[1]))
        OBVIOUS
      <4> QED
        BY <1>1, <4>1, PartPlace
    <3> QED
      BY <1>5, <3>4, <3>5 DEF There
  <2>2. CASE q # p
    <3>1. mem[q] = "live" /\ node'[q] = node[q] /\ count'[q] = count[q]
      BY <1>5, <2>2
    <3>2. /\ <<node[q], q>> \in Place /\ count[q] = 1
          /\ \A step \in ToSet(Built(node[q])) : There(node[q], q, step)
      BY <1>6, <3>1 DEF HeapInv, Whole
    <3>3. ASSUME NEW step \in ToSet(Built(node[q]))
          PROVE  /\ mem'[Append(q, step)] = "live"
                 /\ node'[Append(q, step)] = Child(node[q], step)
      <4>1. Append(q, step) \in Path
        <5>1. step \in ToSet(Built(<<node[q], q>>[1]))
          OBVIOUS
        <5> QED
          BY <3>2, <5>1, PartPlace
      <4> QED
        BY <1>5, <3>2, <4>1 DEF There
    <3> QED
      BY <3>1, <3>2, <3>3 DEF There
  <2> QED
    BY <2>1, <2>2
<1>13. Calls'
  BY <1>2 DEF Calls
<1>14. Phases'
  <2>1. \A q \in Path : mem'[q] # "freed"
    BY <1>2, <1>5 DEF HeapInv, Phases
  <2>2. todo' = << >> => mem'[Root] = "live"
    <3> SUFFICES ASSUME todo' = << >>
                 PROVE  p = Root
      BY <1>5
    <3>1. p \in Seq(Step) /\ Len(p) = 0
      BY <1>0, <1>1, <1>3, PathAssumption DEF Step
    <3> QED
      BY <3>1, EmptySeq DEF Root
  <2> QED
    BY <1>2, <2>1, <2>2 DEF Phases
<1> QED
  BY <1>7, <1>9, <1>10, <1>11, <1>12, <1>13, <1>14 DEF HeapInv

(* main is no node, nor is Nil. *)
LEMMA Apart == Main \notin Path /\ Nil \notin Path /\ Main # Nil
<1>1. \A p \in Path : p \in Seq(FieldNames \X Nat)
  BY PathAssumption
<1>2. Main # Nil
  BY DEF Main, Nil
<1>3. ASSUME NEW s, s \notin FieldNames
      PROVE  <<<<s, 0>>>> \notin Path
  <2> SUFFICES ASSUME <<<<s, 0>>>> \in Seq(FieldNames \X Nat)
               PROVE  FALSE
    BY <1>1
  <2>1. <<s, 0>> \in FieldNames \X Nat
    OBVIOUS
  <2> QED
    BY <1>3, <2>1
<1>4. "main" \notin FieldNames /\ "nil" \notin FieldNames
  BY DEF FieldNames
<1>5. <<<<"main", 0>>>> \notin Path /\ <<<<"nil", 0>>>> \notin Path
  BY <1>3, <1>4
<1> QED
  BY <1>2, <1>5 DEF Main, Nil

(* The constructor takes over the references the parser holds to the parts. *)
LEMMA NewNodeIsNew ==
  ASSUME HeapInv, NewNode
  PROVE  R!Next
<1> DEFINE p == Inner.path
           kids == {q \in Path : mem[q] = "live" /\ q # Root /\ Front(q) = p}
<1>0. PICK n \in Nat \ {0} : n = Len(todo)
  BY InnerFrame DEF NewNode, Building
<1>1. /\ Inner = todo[n] /\ p \in Path /\ Len(p) = n - 1 /\ mem[p] = "unborn"
      /\ p \in Seq(Step)
  BY <1>0, InnerFrame, PathAssumption DEF NewNode, Building, Frame, Step
<1>2. /\ dying = << >> /\ dying' = << >>
      /\ mem' = [mem EXCEPT ![p] = "live"]
      /\ count' = [count EXCEPT ![p] = 1]
  BY DEF NewNode, Building, HeapInv, Phases
<1>3. mem \in [Path -> {"unborn", "live", "freed"}]
  BY DEF HeapInv, HeapTyped
<1>4. \A q : ~Dying(q) /\ ~Dying(q)'
  BY <1>2 DEF Dying
<1>5. p = Root \/ (p # Root /\ Front(p) \in Path /\ Front(p) # p /\ mem[Front(p)] = "unborn")
  <2> SUFFICES ASSUME p # Root
               PROVE  Front(p) \in Path /\ Front(p) # p /\ mem[Front(p)] = "unborn"
    OBVIOUS
  <2>1. n > 1
    BY <1>1, EmptySeq DEF Root
  <2> DEFINE k == n - 1
  <2>2. k \in 1 .. Len(todo) /\ k < Len(todo) /\ k + 1 = n
    BY <1>0, <2>1
  <2> HIDE DEF k
  <2>3. /\ Len(todo[k].path) = k - 1 /\ mem[todo[k].path] = "unborn"
        /\ todo[k + 1].path = Append(todo[k].path, Built(todo[k].node)[Reached(todo, k)])
        /\ Reached(todo, k) \in 1 .. Len(Built(todo[k].node)) + 1
        /\ Reached(todo, k) <= Len(Built(todo[k].node))
    BY <2>2 DEF HeapInv, Nested
  <2>4. /\ todo[k].path \in Path /\ todo[k].path \in Seq(Step)
        /\ Built(todo[k].node) \in Seq(Step)
    BY <2>2, FrameAt, PathAssumption, FieldsAgree DEF Frame, Step
  <2>5. Reached(todo, k) \in 1 .. Len(Built(todo[k].node))
    BY <2>3, <2>4
  <2>6. Built(todo[k].node)[Reached(todo, k)] \in Step
    BY <2>4, <2>5
  <2>7. Front(p) = todo[k].path
    <3> HIDE DEF p
    <3>1. p = Append(todo[k].path, Built(todo[k].node)[Reached(todo, k)])
      BY <1>1, <2>2, <2>3 DEF p
    <3> QED
      BY <2>4, <2>6, <3>1 DEF Front
  <2> QED
    BY <1>0, <1>1, <2>2, <2>3, <2>4, <2>7
<1> HIDE DEF p
<1>6. \A q \in Path : /\ mem'[q] = IF q = p THEN "live" ELSE mem[q]
                      /\ mem[q] = "live" /\ q # Root => Front(q) \in Path
  BY <1>1, <1>2, <1>3 DEF HeapInv, Owned
<1>7. \A q \in Path : References[q] = IF mem[q] = "live" THEN q ELSE Nil
  BY <1>4 DEF References
<1>8. \A q \in Path :
        Holders[q] = IF mem[q] # "live" THEN Nil
                     ELSE IF q = Root \/ mem[Front(q)] = "unborn" THEN Main
                     ELSE Front(q)
  BY <1>4 DEF Holders
<1>9. References' = [References EXCEPT ![p] = p]
  <2>1. References' = [q \in Path |-> IF mem'[q] = "live" THEN q ELSE Nil]
    BY <1>4 DEF References
  <2>2. References = [q \in Path |-> IF mem[q] = "live" THEN q ELSE Nil]
    BY <1>4 DEF References
  <2> QED
    BY <1>1, <1>6, <2>1, <2>2
<1>10. Holders' = [q \in Path |-> IF q = p THEN Main ELSE IF q \in kids THEN p ELSE Holders[q]]
  <2>1. Holders' = [q \in Path |-> IF mem'[q] # "live" THEN Nil
                                   ELSE IF q = Root \/ mem'[Front(q)] = "unborn" THEN Main
                                   ELSE Front(q)]
    BY <1>4 DEF Holders
  <2>2. ASSUME NEW q \in Path
        PROVE  (IF mem'[q] # "live" THEN Nil
                ELSE IF q = Root \/ mem'[Front(q)] = "unborn" THEN Main
                ELSE Front(q))
                 = IF q = p THEN Main ELSE IF q \in kids THEN p ELSE Holders[q]
    <3>1. CASE q = p
      BY <1>1, <1>5, <1>6, <3>1
    <3>2. CASE q # p /\ mem[q] # "live"
      <4>1. mem'[q] # "live" /\ q \notin kids /\ Holders[q] = Nil
        BY <1>6, <1>8, <3>2
      <4> QED
        BY <3>2, <4>1
    <3>3. CASE q # p /\ mem[q] = "live" /\ q = Root
      <4>1. mem'[q] = "live" /\ q \notin kids /\ Holders[q] = Main
        BY <1>6, <1>8, <3>3
      <4> QED
        BY <3>3, <4>1
    <3>4. CASE q # p /\ mem[q] = "live" /\ q # Root /\ Front(q) = p
      <4>1. mem'[q] = "live" /\ q \in kids /\ mem'[Front(q)] = "live"
        BY <1>1, <1>6, <3>4
      <4> QED
        BY <3>4, <4>1
    <3>5. CASE q # p /\ mem[q] = "live" /\ q # Root /\ Front(q) # p
      <4>1. mem'[q] = "live" /\ q \notin kids /\ mem'[Front(q)] = mem[Front(q)]
        BY <1>6, <3>5
      <4> QED
        BY <1>8, <3>5, <4>1
    <3> QED
      BY <3>1, <3>2, <3>3, <3>4, <3>5
  <2> QED
    BY <2>1, <2>2
<1>11. kids \subseteq R!HeldBy(Main)
  <2> SUFFICES ASSUME NEW q \in kids
               PROVE  q \in Path /\ Holders[q] = Main
    BY DEF R!HeldBy
  <2>1. q \in Path /\ mem[q] = "live" /\ q # Root /\ mem[Front(q)] = "unborn"
    BY <1>1
  <2> QED
    BY <1>8, <2>1
<1>12. /\ Destroyed[Main] = << >> /\ UNCHANGED Destroyed
  BY <1>2 DEF Destroyed
<1>13. R!New(Main, p, p, kids)
  <2>1. R!Idle(Main)
    BY <1>12 DEF R!Idle
  <2>2. References[p] = Nil
    BY <1>1, <1>7
  <2> HIDE DEF kids
  <2> QED
    BY <1>1, <1>2, <1>9, <1>10, <1>11, <1>12, <2>1, <2>2 DEF R!New
<1> HIDE DEF kids
<1> QED
  BY <1>1, <1>11, <1>13 DEF R!Next, R!Client

-----------------------------------------------------------------------------
(* crc_del on the last reference to a node, which then begins to die. *)
LEMMA CrcDelIsDecrement ==
  ASSUME HeapInv, NEW q \in Path, mem[q] = "live", count[q] = 1, ~Dying(q),
         UNCHANGED mem, count' = [count EXCEPT ![q] = 0],
         \A p \in Path : Dying(p)' <=> Dying(p) \/ p = q,
         Destroyed' = [Destroyed EXCEPT ![Main] = Append(@, q)]
  PROVE  R!Decrement(Main, q)
<1>1. References[q] = q
  BY DEF References
<1>2. References' = [References EXCEPT ![q] = Nil]
  <2>1. References' = [p \in Path |-> IF mem[p] = "live" /\ ~Dying(p)' THEN p ELSE Nil]
    BY DEF References
  <2>2. References' = [p \in Path |-> IF mem[p] = "live" /\ ~(Dying(p) \/ p = q) THEN p ELSE Nil]
    BY <2>1
  <2> QED
    BY <2>2 DEF References
<1>3. Holders' = [Holders EXCEPT ![q] = Nil]
  <2>1. Holders' = [p \in Path |->
                      IF mem[p] # "live" \/ Dying(p)' THEN Nil
                      ELSE IF p = Root \/ mem[Front(p)] = "unborn" THEN Main ELSE Front(p)]
    BY DEF Holders
  <2>2. Holders' = [p \in Path |->
                      IF mem[p] # "live" \/ Dying(p) \/ p = q THEN Nil
                      ELSE IF p = Root \/ mem[Front(p)] = "unborn" THEN Main ELSE Front(p)]
    BY <2>1
  <2> QED
    BY <2>2 DEF Holders
<1>4. count' = [count EXCEPT ![References[q]] = @ - 1]
  <2>1. count[q] - 1 = 0
    OBVIOUS
  <2> QED
    BY <1>1, <2>1
<1>5. count[References[q]] <= 1
  BY <1>1
<1> QED
  BY <1>1, <1>2, <1>3, <1>4, <1>5 DEF R!Decrement

LEMMA CallBegun ==
  ASSUME NEW p \in Path
  PROVE  LET c == [path |-> p, next |-> 1]
         IN  c \in Call /\ c.path = p /\ c.next = 1
BY DEF Call

LEMMA CallStep ==
  ASSUME NEW c \in Call
  PROVE  LET d == [c EXCEPT !.next = @ + 1]
         IN  d \in Call /\ d.path = c.path /\ d.next = c.next + 1
BY DEF Call

(* When the whole tree is there, main deletes it. *)
LEMMA CleanupKeeps ==
  ASSUME HeapInv, Cleanup
  PROVE  HeapInv' /\ R!Next
<1> DEFINE first == [path |-> Root, next |-> 1]
<1>1. /\ phase = "running" /\ todo = << >> /\ dying = << >> /\ mem[Root] = "live"
      /\ Root \in Path
  BY RootIsPath DEF Cleanup, Parsed, HeapInv, Phases, HeapTyped
<1>2. /\ count \in [Path -> Int] /\ count[Root] = 1 /\ <<node[Root], Root>> \in Place
      /\ \A p : ~Dying(p)
      /\ \A step \in ToSet(Built(node[Root])) : There(node[Root], Root, step)
  BY <1>1 DEF HeapInv, HeapTyped, Whole, Dying
<1>3. /\ count' = [count EXCEPT ![Root] = @ - 1] /\ count'[Root] = 0
      /\ dying' = Append(<< >>, first)
      /\ phase' = "deleting" /\ UNCHANGED <<ast, todo, mem, node>>
  BY <1>1, <1>2 DEF Cleanup, CrcDel
<1>4. first \in Call /\ first.path = Root /\ first.next = 1
  BY <1>1, CallBegun
<1> HIDE DEF first
<1>5. dying' \in Seq(Call) /\ Len(dying') = 1 /\ dying'[1] = first /\ dying' # << >>
  BY <1>3, <1>4
<1>6. \A p : Dying(p)' <=> p = Root
  BY <1>4, <1>5 DEF Dying
<1>7. ASSUME NEW p, NEW step, <<node[p], p>> \in Place, step \in ToSet(Built(node[p]))
      PROVE  Append(p, step) # Root
  <2>1. step \in ToSet(Built(<<node[p], p>>[1]))
    BY <1>7
  <2> QED
    BY <1>7, <2>1, PartPlace
<1>8. HeapTyped'
  BY <1>1, <1>3, <1>5 DEF HeapInv, HeapTyped
<1>9. Nested' /\ PartsThere' /\ Owned'
  BY <1>1, <1>3 DEF HeapInv, Nested, PartsThere, Owned
<1>10. Whole'
  <2> SUFFICES ASSUME NEW p \in Path, mem[p] = "live"
               PROVE  /\ <<node[p], p>> \in Place
                      /\ count'[p] = IF p = Root THEN 0 ELSE 1
                      /\ p # Root =>
                           \A step \in ToSet(Built(node[p])) :
                             There(node[p], p, step) /\ Append(p, step) # Root
    BY <1>3, <1>6 DEF Whole, There
  <2>1. /\ <<node[p], p>> \in Place /\ count[p] = 1
        /\ \A step \in ToSet(Built(node[p])) : There(node[p], p, step)
    BY <1>2 DEF HeapInv, Whole
  <2> QED
    BY <1>2, <1>3, <1>7, <2>1
<1>11. Calls'
  <2>1. /\ Deleted(node[Root]) \in Seq(Step)
        /\ ToSet(Deleted(node[Root])) = ToSet(Built(node[Root]))
    BY <1>2, FieldsAgree DEF Node
  <2>2. \A j \in 1 .. Len(Deleted(node[Root])) :
          There(node[Root], Root, Deleted(node[Root])[j])
            /\ Append(Root, Deleted(node[Root])[j]) # Root
    <3> TAKE j \in 1 .. Len(Deleted(node[Root]))
    <3>1. Deleted(node[Root])[j] \in ToSet(Built(node[Root]))
      <4>1. Deleted(node[Root])[j] \in ToSet(Deleted(node[Root]))
        BY <2>1 DEF ToSet
      <4> QED
        BY <2>1, <4>1
    <3> QED
      BY <1>2, <1>7, <3>1
  <2>3. Reached(dying', 1) = 1
    BY <1>4, <1>5 DEF Reached
  <2>4. Len(Root) = 0
    BY DEF Root
  <2> SUFFICES CallAt(1)'
    BY <1>5 DEF Calls
  <2>5. PICK fields : fields = Deleted(node[Root])
    OBVIOUS
  <2>6. /\ dying'[1].path = Root /\ dying'[1].next = 1
        /\ UNCHANGED <<mem, node>> /\ fields = Deleted(node'[Root])
        /\ Len(fields) \in Nat
    BY <1>3, <1>4, <1>5, <2>1, <2>5
  <2>7. \A j \in 1 .. Len(fields) :
          There(node[Root], Root, fields[j])' /\ ~Dying(Append(Root, fields[j]))'
    BY <1>6, <2>2, <2>5, <2>6 DEF There
  <2> QED
    BY <1>1, <1>5, <2>3, <2>4, <2>6, <2>7 DEF CallAt
<1>12. Phases'
  BY <1>1, <1>3, <1>5 DEF Phases
<1>13. R!Del(Main, Root)
  <2>1. /\ Destroyed = [t \in {Main} |-> << >>]
        /\ Destroyed' = [t \in {Main} |-> <<Root>>]
    <3>1. [k \in 1 .. Len(dying) |-> dying[k].path] = << >>
      BY <1>1
    <3>2. [k \in 1 .. Len(dying') |-> dying'[k].path] = <<Root>>
      BY <1>4, <1>5
    <3> QED
      BY <3>1, <3>2 DEF Destroyed
  <2>2. R!Idle(Main) /\ Holders[Root] = Main
    BY <1>1, <1>2, <2>1 DEF R!Idle, Holders
  <2>3. Destroyed' = [Destroyed EXCEPT ![Main] = Append(@, Root)]
    BY <2>1
  <2>4. count' = [count EXCEPT ![Root] = 0]
    BY <1>1, <1>2, <1>3
  <2>5. \A p \in Path : Dying(p)' <=> Dying(p) \/ p = Root
    BY <1>2, <1>6
  <2>6. R!Decrement(Main, Root)
    BY <1>1, <1>2, <1>3, <2>3, <2>4, <2>5, CrcDelIsDecrement
  <2> QED
    BY <2>2, <2>6 DEF R!Del
<1> QED
  BY <1>1, <1>8, <1>9, <1>10, <1>11, <1>12, <1>13 DEF HeapInv, R!Next, R!Client

(* Where the fields of a node in the tree are, in the order of destroy_node. *)
FieldsPlaced(n, p, fields) ==
  /\ n \in Node /\ p \in Path /\ p \in Seq(Step)
  /\ fields \in Seq(Step) /\ Len(fields) \in Nat
  /\ ToSet(fields) = ToSet(Built(n))
  /\ \A i, j \in 1 .. Len(fields) : fields[i] = fields[j] => i = j
  /\ \A j \in 1 .. Len(fields) :
       /\ fields[j] \in ToSet(Built(n))
       /\ Child(n, fields[j]) # NULL
       /\ Append(p, fields[j]) \in Path
       /\ Append(p, fields[j]) # Root
       /\ Front(Append(p, fields[j])) = p
       /\ Last(Append(p, fields[j])) = fields[j]
       /\ Len(Append(p, fields[j])) = Len(p) + 1

LEMMA FieldPlace ==
  ASSUME NEW n, NEW p, <<n, p>> \in Place,
         NEW fields, fields = Deleted(n)
  PROVE  FieldsPlaced(n, p, fields)
<1>1. n \in Node /\ p \in Path
  BY DEF Node, Path
<1>2. p \in Seq(Step)
  BY <1>1, PathAssumption DEF Step
<1>3. /\ fields \in Seq(Step) /\ Len(fields) \in Nat
      /\ ToSet(fields) = ToSet(Built(n))
      /\ \A i, j \in 1 .. Len(fields) : fields[i] = fields[j] => i = j
      /\ \A step \in ToSet(Built(n)) : Child(n, step) # NULL
  BY <1>1, FieldsAgree
<1>4. ASSUME NEW j \in 1 .. Len(fields)
      PROVE  fields[j] \in ToSet(Built(n))
  <2>1. fields[j] \in ToSet(fields)
    BY <1>3 DEF ToSet
  <2> QED
    BY <1>3, <2>1
<1>5. ASSUME NEW j \in 1 .. Len(fields)
      PROVE  /\ Append(p, fields[j]) \in Path
             /\ Append(p, fields[j]) # Root
             /\ Front(Append(p, fields[j])) = p
             /\ Last(Append(p, fields[j])) = fields[j]
             /\ Len(Append(p, fields[j])) = Len(p) + 1
  <2>1. fields[j] \in ToSet(Built(<<n, p>>[1]))
    BY <1>4
  <2> QED
    BY <2>1, PartPlace
<1> QED
  BY <1>1, <1>2, <1>3, <1>4, <1>5 DEF FieldsPlaced

(* An active call of destroy_node. *)
Active(k, p, fields) ==
  /\ dying[k] \in Call /\ dying[k].next \in Nat \ {0}
  /\ <<node[p], p>> \in Place
  /\ p \in Path /\ Len(p) = k - 1 /\ mem[p] = "live" /\ Dying(p) /\ count[p] = 0
  /\ Reached(dying, k) \in 1 .. Len(fields) + 1
  /\ Reached(dying, k) = dying[k].next \/ Reached(dying, k) = dying[k].next - 1
  /\ k < Len(dying) => /\ Reached(dying, k) <= Len(fields)
                       /\ dying[k + 1].path = Append(p, fields[Reached(dying, k)])
  /\ \A j \in 1 .. Reached(dying, k) - 1 : mem[Append(p, fields[j])] # "live"
  /\ \A j \in dying[k].next .. Len(fields) :
       There(node[p], p, fields[j]) /\ ~Dying(Append(p, fields[j]))

LEMMA ActiveCall ==
  ASSUME HeapInv, NEW k \in 1 .. Len(dying),
         NEW p, p = dying[k].path, NEW fields, fields = Deleted(node[p])
  PROVE  Active(k, p, fields)
<1>1. dying \in Seq(Call)
  BY DEF HeapInv, HeapTyped
<1>2. dying[k] \in Call
  BY <1>1, ElementOfSeq
<1>3. dying[k].next \in Nat \ {0} /\ p \in Path
  BY <1>2 DEF Call
<1>4. CallAt(k)
  BY DEF HeapInv, Calls
<1>5. mem[p] = "live" /\ Len(p) = k - 1 /\ Dying(p)
  BY <1>4 DEF CallAt, Dying
<1>6. <<node[p], p>> \in Place /\ count[p] = 0
  BY <1>3, <1>5 DEF HeapInv, Whole
<1>7. Reached(dying, k) = dying[k].next \/ Reached(dying, k) = dying[k].next - 1
  BY DEF Reached
<1> QED
  BY <1>2, <1>3, <1>4, <1>5, <1>6, <1>7 DEF CallAt, Active

(* The nodes that are being destroyed, as the library sees them. *)
PathsOf(calls) == [k \in 1 .. Len(calls) |-> calls[k].path]

LEMMA PathsType ==
  ASSUME NEW s \in Seq(Call)
  PROVE  /\ PathsOf(s) \in Seq(Path)
         /\ Len(PathsOf(s)) = Len(s) /\ Len(s) \in Nat
         /\ \A k \in 1 .. Len(s) : PathsOf(s)[k] = s[k].path
<1>1. \A k \in 1 .. Len(s) : s[k].path \in Path
  <2> TAKE k \in 1 .. Len(s)
  <2>1. s[k] \in Call
    BY ElementOfSeq
  <2> QED
    BY <2>1 DEF Call
<1>2. Len(s) \in Nat
  BY LenProperties
<1> QED
  BY <1>1, <1>2 DEF PathsOf

LEMMA PathsPushed ==
  ASSUME NEW s \in Seq(Call), NEW t \in Seq(Call), NEW q \in Path,
         Len(t) = Len(s) + 1, t[Len(s) + 1].path = q,
         \A k \in 1 .. Len(s) : t[k].path = s[k].path
  PROVE  PathsOf(t) = Append(PathsOf(s), q)
<1> DEFINE d == PathsOf(s)
           e == PathsOf(t)
<1>1. /\ d \in Seq(Path) /\ Len(d) = Len(s) /\ Len(s) \in Nat
      /\ \A k \in 1 .. Len(s) : d[k] = s[k].path
  BY PathsType
<1>2. /\ e \in Seq(Path) /\ Len(e) = Len(t)
      /\ \A k \in 1 .. Len(t) : e[k] = t[k].path
  BY PathsType
<1> HIDE DEF d, e
<1>3. /\ Append(d, q) \in Seq(Path) /\ Len(Append(d, q)) = Len(s) + 1
      /\ \A k \in 1 .. Len(s) : Append(d, q)[k] = d[k]
      /\ Append(d, q)[Len(s) + 1] = q
  BY <1>1
<1>4. ASSUME NEW k \in 1 .. Len(e)
      PROVE  e[k] = Append(d, q)[k]
  <2>1. k \in 1 .. Len(s) \/ k = Len(s) + 1
    BY <1>1, <1>2
  <2>2. e[k] = t[k].path
    BY <1>2
  <2> QED
    BY <1>1, <1>3, <2>1, <2>2
<1>5. Len(e) = Len(Append(d, q))
  BY <1>2, <1>3
<1>6. e = Append(d, q)
  BY <1>2, <1>3, <1>4, <1>5, SeqEqual
<1> QED
  BY <1>6 DEF d, e

LEMMA PathsTop ==
  ASSUME NEW s \in Seq(Call), s # << >>
  PROVE  PathsOf(s) # << >> /\ R!Last(PathsOf(s)) = Last(s).path
<1>1. Len(s) \in Nat \ {0} /\ Last(s) = s[Len(s)]
  BY FrontType
<1>2. /\ PathsOf(s) \in Seq(Path) /\ Len(PathsOf(s)) = Len(s)
      /\ \A k \in 1 .. Len(s) : PathsOf(s)[k] = s[k].path
  BY PathsType
<1> QED
  BY <1>1, <1>2 DEF R!Last


-----------------------------------------------------------------------------
(* The next field is there, its count is 1, and it is no null pointer. *)
LEMMA DeleteFieldKeeps ==
  ASSUME HeapInv, DeleteField
  PROVE  HeapInv' /\ R!Next
<1>0. dying \in Seq(Call) /\ dying # << >> /\ phase = "deleting" /\ Top.next <= Len(Fields)
  BY DEF DeleteField, HeapInv, HeapTyped
<1>1. PICK n \in Nat \ {0} : n = Len(dying) /\ Top = dying[n] /\ n \in 1 .. Len(dying)
  <2>1. Len(dying) \in Nat \ {0} /\ Last(dying) = dying[Len(dying)]
    BY <1>0, FrontType
  <2> QED
    BY <2>1 DEF Top
<1>2. PICK p, fields, i : p = Top.path /\ fields = Deleted(node[p]) /\ i = Top.next
  OBVIOUS
<1>3. /\ Top \in Call /\ i \in Nat \ {0} /\ p \in Path /\ <<node[p], p>> \in Place
      /\ Len(p) = n - 1 /\ mem[p] = "live" /\ Dying(p) /\ Reached(dying, n) = i
      /\ \A j \in i .. Len(fields) :
           There(node[p], p, fields[j]) /\ ~Dying(Append(p, fields[j]))
  <2>1. p = dying[n].path
    BY <1>1, <1>2
  <2>2. Reached(dying, n) = i
    BY <1>1, <1>2 DEF Reached
  <2>3. Active(n, p, fields)
    BY <1>1, <1>2, <2>1, ActiveCall
  <2> QED
    BY <1>1, <1>2, <2>2, <2>3 DEF Active
<1>4. /\ p \in Seq(Step) /\ fields \in Seq(Step) /\ Len(fields) \in Nat
      /\ \A j, k \in 1 .. Len(fields) : fields[j] = fields[k] => j = k
      /\ \A j \in 1 .. Len(fields) :
           /\ Child(node[p], fields[j]) # NULL
           /\ Append(p, fields[j]) \in Path /\ Append(p, fields[j]) # Root
           /\ Front(Append(p, fields[j])) = p
           /\ Last(Append(p, fields[j])) = fields[j]
           /\ Len(Append(p, fields[j])) = Len(p) + 1
  <2>1. FieldsPlaced(node[p], p, fields)
    BY <1>2, <1>3, FieldPlace
  <2> QED
    BY <2>1 DEF FieldsPlaced
<1>5. i \in 1 .. Len(fields)
  BY <1>0, <1>2, <1>3, <1>4 DEF Fields
<1>6. PICK q : q = Append(p, fields[i])
  OBVIOUS
<1>7. /\ q \in Path /\ q # Root /\ Front(q) = p /\ Len(q) = n
      /\ mem[q] = "live" /\ node[q] = Child(node[p], fields[i]) /\ ~Dying(q)
      /\ Child(node[p], fields[i]) # NULL
  <2>1. There(node[p], p, fields[i]) /\ ~Dying(Append(p, fields[i]))
    BY <1>3, <1>4, <1>5
  <2> QED
    BY <1>3, <1>4, <1>5, <1>6, <2>1 DEF There
<1>8. /\ <<node[q], q>> \in Place /\ count[q] = 1
      /\ \A step \in ToSet(Built(node[q])) :
           There(node[q], q, step) /\ ~Dying(Append(q, step))
  BY <1>7 DEF HeapInv, Whole
<1>9. PICK top, new : /\ top = [Top EXCEPT !.next = @ + 1]
                      /\ new = [path |-> q, next |-> 1]
  OBVIOUS
<1>10. /\ top \in Call /\ top.path = p /\ top.next = i + 1
       /\ new \in Call /\ new.path = q /\ new.next = 1
  <2>1. top \in Call /\ top.path = p /\ top.next = i + 1
    BY <1>2, <1>3, <1>9, CallStep
  <2>2. new \in Call /\ new.path = q /\ new.next = 1
    BY <1>7, <1>9, CallBegun
  <2> QED
    BY <2>1, <2>2
<1>11. /\ count' = [count EXCEPT ![q] = 0]
       /\ dying' = Append(Append(Front(dying), top), new)
       /\ UNCHANGED <<ast, todo, phase, mem, node>>
  <2>1. /\ CrcDel(q, Append(Front(dying), top))
        /\ UNCHANGED <<ast, todo, phase, mem, node>>
    BY <1>2, <1>6, <1>7, <1>9 DEF DeleteField, Fields
  <2>2. count \in [Path -> Int]
    BY DEF HeapInv, HeapTyped
  <2>3. count' = [count EXCEPT ![q] = 0]
    BY <1>8, <2>1 DEF CrcDel
  <2>4. count'[q] <= 0
    BY <1>7, <2>2, <2>3
  <2> QED
    BY <1>9, <2>1, <2>3, <2>4 DEF CrcDel
<1>12. /\ dying' \in Seq(Call) /\ Len(dying') = n + 1
       /\ dying'[n] = top /\ dying'[n + 1] = new
       /\ \A k \in 1 .. n - 1 : dying'[k] = dying[k]
  <2>1. LET t == Append(Append(Front(dying), top), new)
        IN  /\ t \in Seq(Call) /\ Len(t) = Len(dying) + 1
            /\ t[Len(dying)] = top /\ t[Len(dying) + 1] = new
            /\ \A k \in 1 .. Len(dying) - 1 : t[k] = dying[k]
    BY <1>0, <1>10, CallStack
  <2> QED
    BY <1>1, <1>11, <2>1
<1>13. /\ \A k \in 1 .. n : /\ dying'[k].path = dying[k].path
                            /\ Reached(dying', k) = Reached(dying, k)
       /\ Reached(dying', n + 1) = 1
  <2>1. Reached(dying', n) = i /\ Reached(dying', n + 1) = 1
    BY <1>3, <1>10, <1>12 DEF Reached
  <2>2. \A k \in 1 .. n - 1 : Reached(dying', k) = dying[k].next - 1
    BY <1>12 DEF Reached
  <2>3. \A k \in 1 .. n - 1 : Reached(dying, k) = dying[k].next - 1
    BY <1>1 DEF Reached
  <2>4. \A k \in 1 .. n : k = n \/ k \in 1 .. n - 1
    OBVIOUS
  <2>5. dying'[n].path = dying[n].path
    BY <1>1, <1>2, <1>10, <1>12
  <2> QED
    BY <1>3, <1>12, <2>1, <2>2, <2>3, <2>4, <2>5
<1>14. \A x : Dying(x)' <=> Dying(x) \/ x = q
  <2> TAKE x
  <2>1. Dying(x)' <=> \E k \in 1 .. n + 1 : dying'[k].path = x
    BY <1>12 DEF Dying
  <2>2. Dying(x) <=> \E k \in 1 .. n : dying[k].path = x
    BY <1>1 DEF Dying
  <2>3. \A k : k \in 1 .. n + 1 <=> k \in 1 .. n \/ k = n + 1
    OBVIOUS
  <2> QED
    BY <1>10, <1>12, <1>13, <2>1, <2>2, <2>3
<1>15. HeapTyped'
  <2>1. count' \in [Path -> Int]
    <3>1. count \in [Path -> Int]
      BY DEF HeapInv, HeapTyped
    <3>2. count' = [count EXCEPT ![q] = 0]
      BY <1>11
    <3> QED
      BY <1>7, <3>1, <3>2
  <2> QED
    BY <1>11, <1>12, <2>1 DEF HeapInv, HeapTyped
<1>16. Nested' /\ PartsThere' /\ Owned'
  BY <1>11 DEF HeapInv, Nested, PartsThere, Owned, There
<1>17. Whole'
  <2> SUFFICES ASSUME NEW x \in Path, mem[x] = "live"
               PROVE  /\ <<node[x], x>> \in Place
                      /\ count'[x] = IF Dying(x) \/ x = q THEN 0 ELSE 1
                      /\ ~(Dying(x) \/ x = q) =>
                           \A step \in ToSet(Built(node[x])) :
                             /\ There(node[x], x, step)
                             /\ ~(Dying(Append(x, step)) \/ Append(x, step) = q)
    BY <1>11, <1>14 DEF Whole, There
  <2>1. /\ <<node[x], x>> \in Place
        /\ count[x] = IF Dying(x) THEN 0 ELSE 1
        /\ ~Dying(x) => \A step \in ToSet(Built(node[x])) :
                          There(node[x], x, step) /\ ~Dying(Append(x, step))
    BY DEF HeapInv, Whole
  <2>2. count'[x] = IF Dying(x) \/ x = q THEN 0 ELSE 1
    <3>1. count \in [Path -> Int]
      BY DEF HeapInv, HeapTyped
    <3> QED
      BY <1>11, <2>1, <3>1
  <2>3. ASSUME ~Dying(x), NEW step \in ToSet(Built(node[x]))
        PROVE  Append(x, step) # q
    <3>1. step \in ToSet(Built(<<node[x], x>>[1]))
      OBVIOUS
    <3>2. Front(Append(x, step)) = x
      BY <2>1, <3>1, PartPlace
    <3> QED
      BY <1>3, <1>7, <2>3, <3>2
  <2> QED
    BY <2>1, <2>2, <2>3
<1>18. Calls'
  <2> SUFFICES ASSUME NEW k \in 1 .. n + 1
               PROVE  CallAt(k)'
    BY <1>12 DEF Calls
  <2>1. CASE k \in 1 .. n
    <3>1. PICK x, f : x = dying[k].path /\ f = Deleted(node[x])
      OBVIOUS
    <3>2. /\ dying[k] \in Call /\ dying[k].next \in Nat \ {0}
          /\ <<node[x], x>> \in Place
          /\ x \in Path /\ Len(x) = k - 1 /\ mem[x] = "live"
          /\ Reached(dying, k) \in 1 .. Len(f) + 1
          /\ k < Len(dying) => /\ Reached(dying, k) <= Len(f)
                               /\ dying[k + 1].path = Append(x, f[Reached(dying, k)])
          /\ \A j \in 1 .. Reached(dying, k) - 1 : mem[Append(x, f[j])] # "live"
          /\ \A j \in dying[k].next .. Len(f) :
               There(node[x], x, f[j]) /\ ~Dying(Append(x, f[j]))
      <4>1. k \in 1 .. Len(dying)
        BY <1>1, <2>1
      <4>2. Active(k, x, f)
        BY <3>1, <4>1, ActiveCall
      <4> QED
        BY <4>2 DEF Active
    <3>3. /\ Len(f) \in Nat
          /\ \A j \in 1 .. Len(f) : Len(Append(x, f[j])) = k
      <4>1. /\ Len(f) \in Nat
            /\ \A j \in 1 .. Len(f) : Len(Append(x, f[j])) = Len(x) + 1
        <5>1. FieldsPlaced(node[x], x, f)
          BY <3>1, <3>2, FieldPlace
        <5> QED
          BY <5>1 DEF FieldsPlaced
      <4> QED
        BY <3>2, <4>1
    <3>4. k < n + 1 => /\ Reached(dying, k) <= Len(f)
                       /\ dying'[k + 1].path = Append(x, f[Reached(dying, k)])
      <4>1. CASE k = n
        <5>1. x = p /\ f = fields
          BY <1>1, <1>2, <3>1, <4>1
        <5> QED
          BY <1>3, <1>5, <1>6, <1>10, <1>12, <4>1, <5>1
      <4>2. CASE k # n
        <5>1. k + 1 \in 1 .. n /\ k < Len(dying)
          BY <1>1, <2>1, <4>2
        <5> QED
          BY <1>13, <3>2, <5>1
      <4> QED
        BY <4>1, <4>2
    <3>5. dying'[k].next >= dying[k].next /\ dying'[k].next \in Nat \ {0}
      <4>1. CASE k = n
        BY <1>1, <1>2, <1>3, <1>10, <1>12, <4>1
      <4>2. CASE k # n
        <5>1. k \in 1 .. n - 1
          BY <2>1, <4>2
        <5>2. dying'[k] = dying[k]
          BY <1>12, <5>1
        <5> QED
          BY <3>2, <5>2
      <4> QED
        BY <4>1, <4>2
    <3>6. ASSUME NEW j \in dying'[k].next .. Len(f)
          PROVE  There(node[x], x, f[j]) /\ ~Dying(Append(x, f[j])) /\ Append(x, f[j]) # q
      <4>1. j \in dying[k].next .. Len(f) /\ j \in 1 .. Len(f)
        BY <3>2, <3>3, <3>5
      <4>2. CASE k = n
        <5>1. x = p /\ f = fields /\ dying'[k].next = i + 1
          BY <1>1, <1>2, <1>10, <1>12, <3>1, <4>2
        <5>2. j # i
          BY <1>3, <5>1
        <5>3. fields[j] # fields[i]
          BY <1>4, <1>5, <4>1, <5>1, <5>2
        <5>4. Append(x, f[j]) # q
          <6>1. Last(Append(p, fields[j])) = fields[j] /\ Last(q) = fields[i]
            BY <1>4, <1>5, <1>6, <4>1, <5>1
          <6> QED
            BY <5>1, <5>3, <6>1
        <5> QED
          BY <3>2, <4>1, <5>4
      <4>3. CASE k # n
        <5>1. Len(Append(x, f[j])) # Len(q)
          BY <1>7, <3>3, <4>1, <4>3
        <5> QED
          BY <3>2, <4>1, <5>1
      <4> QED
        BY <4>2, <4>3
    <3>7. /\ dying'[k].path = x /\ Reached(dying', k) = Reached(dying, k)
          /\ f = Deleted(node'[x]) /\ UNCHANGED <<mem, node>> /\ Len(dying') = n + 1
      BY <1>11, <1>12, <1>13, <2>1, <3>1
    <3>8. \A j \in dying'[k].next .. Len(f) :
            There(node[x], x, f[j])' /\ ~Dying(Append(x, f[j]))'
      BY <1>14, <3>6, <3>7 DEF There
    <3> QED
      BY <3>2, <3>4, <3>7, <3>8 DEF CallAt
  <2>2. CASE k = n + 1
    <3>1. PICK f : f = Deleted(node[q])
      OBVIOUS
    <3>2. /\ Len(f) \in Nat
          /\ \A j \in 1 .. Len(f) :
               f[j] \in ToSet(Built(node[q])) /\ Len(Append(q, f[j])) = n + 1
      <4>1. /\ Len(f) \in Nat
            /\ \A j \in 1 .. Len(f) :
                 f[j] \in ToSet(Built(node[q])) /\ Len(Append(q, f[j])) = Len(q) + 1
        <5>1. FieldsPlaced(node[q], q, f)
          BY <1>8, <3>1, FieldPlace
        <5> QED
          BY <5>1 DEF FieldsPlaced
      <4> QED
        BY <1>7, <4>1
    <3>3. \A j \in 1 .. Len(f) :
            /\ There(node[q], q, f[j]) /\ ~Dying(Append(q, f[j]))
            /\ Append(q, f[j]) # q
      <4> TAKE j \in 1 .. Len(f)
      <4>1. Len(Append(q, f[j])) # Len(q)
        BY <1>7, <3>2
      <4> QED
        BY <1>8, <3>2, <4>1
    <3>4. /\ dying'[n + 1].path = q /\ dying'[n + 1].next = 1
          /\ f = Deleted(node'[q]) /\ UNCHANGED <<mem, node>> /\ Len(dying') = n + 1
      BY <1>10, <1>11, <1>12, <3>1
    <3>5. \A j \in 1 .. Len(f) :
            There(node[q], q, f[j])' /\ ~Dying(Append(q, f[j]))'
      BY <1>14, <3>3, <3>4 DEF There
    <3> QED
      BY <1>7, <1>13, <2>2, <3>2, <3>4, <3>5 DEF CallAt
  <2>3. k \in 1 .. n \/ k = n + 1
    OBVIOUS
  <2> QED
    BY <2>1, <2>2, <2>3
<1>19. Phases'
  <2>1. dying' # << >>
    BY <1>12
  <2> QED
    BY <1>0, <1>11, <2>1 DEF HeapInv, Phases
<1>20. R!DeleterDel(Main, q)
  <2>1. PathsOf(dying) # << >> /\ R!Last(PathsOf(dying)) = p
    BY <1>0, <1>2, PathsTop DEF Top
  <2>2. PathsOf(dying') = Append(PathsOf(dying), q)
    <3>1. /\ Len(dying') = Len(dying) + 1 /\ dying'[Len(dying) + 1].path = q
          /\ \A k \in 1 .. Len(dying) : dying'[k].path = dying[k].path
      BY <1>1, <1>10, <1>12, <1>13
    <3> QED
      BY <1>0, <1>7, <1>12, <3>1, PathsPushed
  <2>3. /\ Destroyed = [t \in {Main} |-> PathsOf(dying)]
        /\ Destroyed' = [t \in {Main} |-> PathsOf(dying')]
    BY DEF Destroyed, PathsOf
  <2>4. Destroyed' = [Destroyed EXCEPT ![Main] = Append(@, q)]
    BY <2>2, <2>3
  <2>5. R!Decrement(Main, q)
    BY <1>7, <1>8, <1>11, <1>14, <2>4, CrcDelIsDecrement
  <2>6. Holders[q] = p
    BY <1>3, <1>7 DEF Holders
  <2> QED
    BY <2>1, <2>3, <2>5, <2>6 DEF R!DeleterDel, R!Idle
<1> QED
  BY <1>7, <1>15, <1>16, <1>17, <1>18, <1>19, <1>20 DEF HeapInv, R!Next, R!Destroy

(* What remains of a stack of calls when the top one returns. *)
LEMMA PathsPopped ==
  ASSUME NEW s \in Seq(Call), s # << >>
  PROVE  PathsOf(Front(s)) = R!Front(PathsOf(s))
<1> DEFINE d == PathsOf(s)
           n == Len(s) - 1
<1>1. /\ Front(s) \in Seq(Call) /\ Len(Front(s)) = n /\ Len(s) \in Nat \ {0}
      /\ \A k \in 1 .. n : Front(s)[k] = s[k]
  BY FrontType
<1>2. /\ d \in Seq(Path) /\ Len(d) = Len(s) /\ \A k \in 1 .. Len(s) : d[k] = s[k].path
  BY PathsType
<1>3. d # << >>
  BY <1>1, <1>2
<1> HIDE DEF d
<1>4. /\ Front(d) \in Seq(Path) /\ Len(Front(d)) = n
      /\ \A k \in 1 .. n : Front(d)[k] = d[k]
  BY <1>2, <1>3, FrontType
<1>5. /\ PathsOf(Front(s)) \in Seq(Path) /\ Len(PathsOf(Front(s))) = n
      /\ \A k \in 1 .. n : PathsOf(Front(s))[k] = Front(s)[k].path
  BY <1>1, PathsType
<1>6. \A k \in 1 .. n : PathsOf(Front(s))[k] = Front(d)[k]
  <2> TAKE k \in 1 .. n
  <2>1. k \in 1 .. Len(s)
    BY <1>1
  <2> QED
    BY <1>1, <1>2, <1>4, <1>5, <2>1
<1>7. PathsOf(Front(s)) = Front(d)
  BY <1>4, <1>5, <1>6, SeqEqual
<1> QED
  BY <1>7 DEF d, Front, R!Front

(* The node has given up all of its parts. *)
LEMMA FreeKeeps ==
  ASSUME HeapInv, Free
  PROVE  HeapInv' /\ R!Next
<1>0. /\ dying \in Seq(Call) /\ dying # << >> /\ phase = "deleting" /\ todo = << >>
      /\ Top.next > Len(Fields)
  BY DEF Free, HeapInv, HeapTyped, Phases
<1>1. PICK n \in Nat \ {0} : n = Len(dying) /\ Top = dying[n] /\ n \in 1 .. Len(dying)
  <2>1. Len(dying) \in Nat \ {0} /\ Last(dying) = dying[Len(dying)]
    BY <1>0, FrontType
  <2> QED
    BY <2>1 DEF Top
<1>2. PICK p, fields : p = Top.path /\ fields = Deleted(node[p])
  OBVIOUS
<1>3. /\ Top \in Call /\ p \in Path /\ <<node[p], p>> \in Place
      /\ Len(p) = n - 1 /\ mem[p] = "live" /\ Dying(p)
      /\ Reached(dying, n) = Top.next
      /\ \A j \in 1 .. Top.next - 1 : mem[Append(p, fields[j])] # "live"
  <2>1. p = dying[n].path
    BY <1>1, <1>2
  <2>2. Reached(dying, n) = Top.next
    BY <1>1 DEF Reached
  <2>3. Active(n, p, fields)
    BY <1>1, <1>2, <2>1, ActiveCall
  <2> QED
    BY <1>1, <1>2, <2>2, <2>3 DEF Active
<1>4. /\ p \in Seq(Step) /\ fields \in Seq(Step) /\ Len(fields) \in Nat
      /\ ToSet(fields) = ToSet(Built(node[p]))
  <2>1. FieldsPlaced(node[p], p, fields)
    BY <1>2, <1>3, FieldPlace
  <2> QED
    BY <2>1 DEF FieldsPlaced
<1>5. \A j \in 1 .. Len(fields) : mem[Append(p, fields[j])] # "live"
  <2>1. Top.next \in Nat /\ Top.next > Len(fields)
    BY <1>0, <1>2, <1>3 DEF Call, Fields
  <2> QED
    BY <1>3, <1>4, <2>1
<1>6. ASSUME NEW q \in Path, mem[q] = "live", q # Root
      PROVE  /\ Front(q) \in Path /\ Front(q) # p
             /\ mem[Front(q)] = "live" /\ Last(q) \in ToSet(Built(node[Front(q)]))
  <2>1. /\ Front(q) \in Path
        /\ mem[Front(q)] = "live" /\ Last(q) \in ToSet(Built(node[Front(q)]))
    BY <1>0, <1>6 DEF HeapInv, Owned
  <2>2. ASSUME Front(q) = p
        PROVE  FALSE
    <3>1. PICK j \in 1 .. Len(fields) : Last(q) = fields[j]
      <4>1. Last(q) \in ToSet(fields)
        BY <1>4, <2>1, <2>2
      <4> QED
        BY <1>4, <4>1 DEF ToSet
    <3>2. q = Append(p, fields[j])
      <4>1. q \in Seq(Step)
        BY PathAssumption DEF Step
      <4>2. q = Append(Front(q), Last(q))
        BY <1>6, <4>1, FrontLast DEF Root
      <4> QED
        BY <2>2, <3>1, <4>2
    <3> QED
      BY <1>5, <1>6, <3>1, <3>2
  <2> QED
    BY <2>1, <2>2
<1>7. /\ mem' = [mem EXCEPT ![p] = "freed"] /\ dying' = Front(dying)
      /\ UNCHANGED <<ast, todo, phase, node, count>>
  BY <1>2 DEF Free
<1>8. mem \in [Path -> {"unborn", "live", "freed"}]
  BY DEF HeapInv, HeapTyped
<1>9. \A q \in Path : mem'[q] = IF q = p THEN "freed" ELSE mem[q]
  BY <1>3, <1>7, <1>8
<1>10. /\ dying' \in Seq(Call) /\ Len(dying') = n - 1
       /\ \A k \in 1 .. n - 1 : dying'[k] = dying[k]
  <2>1. /\ Front(dying) \in Seq(Call) /\ Len(Front(dying)) = Len(dying) - 1
        /\ \A k \in 1 .. Len(dying) - 1 : Front(dying)[k] = dying[k]
    BY <1>0, FrontType
  <2> QED
    BY <1>1, <1>7, <2>1
<1>11. \A k \in 1 .. n : Len(dying[k].path) = k - 1
  BY <1>1, ActiveCall DEF Active
<1>12. \A x : Dying(x)' <=> Dying(x) /\ x # p
  <2> TAKE x
  <2>1. Dying(x)' <=> \E k \in 1 .. n - 1 : dying[k].path = x
    BY <1>10 DEF Dying
  <2>2. Dying(x) <=> \E k \in 1 .. n : dying[k].path = x
    BY <1>1 DEF Dying
  <2>3. \A k \in 1 .. n - 1 : dying[k].path # p
    <3> TAKE k \in 1 .. n - 1
    <3>1. Len(dying[k].path) # Len(p)
      BY <1>3, <1>11
    <3> QED
      BY <3>1
  <2>4. dying[n].path = p
    BY <1>1, <1>2
  <2>5. \A k : k \in 1 .. n <=> k \in 1 .. n - 1 \/ k = n
    OBVIOUS
  <2> QED
    BY <2>1, <2>2, <2>3, <2>4, <2>5
<1>13. HeapTyped'
  <2>1. mem' \in [Path -> {"unborn", "live", "freed"}]
    BY <1>7, <1>8
  <2> QED
    BY <1>7, <1>10, <2>1 DEF HeapInv, HeapTyped
<1>14. Nested' /\ PartsThere'
  BY <1>0, <1>7 DEF Nested, PartsThere
<1>15. Owned'
  <2> SUFFICES ASSUME NEW q \in Path, mem'[q] = "live", q # Root
               PROVE  /\ Front(q) \in Path
                      /\ mem'[Front(q)] = "live"
                      /\ Last(q) \in ToSet(Built(node[Front(q)]))
    BY <1>7 DEF Owned
  <2>1. mem[q] = "live"
    BY <1>9
  <2> QED
    BY <1>6, <1>9, <2>1
<1>16. Whole'
  <2> SUFFICES ASSUME NEW x \in Path, mem'[x] = "live"
               PROVE  /\ <<node[x], x>> \in Place
                      /\ count[x] = IF Dying(x) /\ x # p THEN 0 ELSE 1
                      /\ ~(Dying(x) /\ x # p) =>
                           \A step \in ToSet(Built(node[x])) :
                             /\ mem'[Append(x, step)] = "live"
                             /\ node[Append(x, step)] = Child(node[x], step)
                             /\ ~Dying(Append(x, step))
    BY <1>7, <1>12 DEF Whole, There
  <2>1. mem[x] = "live" /\ x # p
    BY <1>9
  <2>2. /\ <<node[x], x>> \in Place
        /\ count[x] = IF Dying(x) THEN 0 ELSE 1
        /\ ~Dying(x) => \A step \in ToSet(Built(node[x])) :
                          There(node[x], x, step) /\ ~Dying(Append(x, step))
    BY <2>1 DEF HeapInv, Whole
  <2>3. ASSUME ~Dying(x), NEW step \in ToSet(Built(node[x]))
        PROVE  mem'[Append(x, step)] = "live"
    <3>1. step \in ToSet(Built(<<node[x], x>>[1]))
      OBVIOUS
    <3>2. Append(x, step) \in Path
      BY <2>2, <3>1, PartPlace
    <3>3. mem[Append(x, step)] = "live" /\ Append(x, step) # p
      BY <1>3, <2>2, <2>3 DEF There
    <3> QED
      BY <1>9, <3>2, <3>3
  <2> QED
    BY <2>1, <2>2, <2>3 DEF There
<1>17. Calls'
  <2> SUFFICES ASSUME NEW k \in 1 .. n - 1
               PROVE  CallAt(k)'
    BY <1>10 DEF Calls
  <2>1. PICK x, f : x = dying[k].path /\ f = Deleted(node[x])
    OBVIOUS
  <2>2. /\ dying[k] \in Call /\ dying[k].next \in Nat \ {0}
        /\ <<node[x], x>> \in Place
        /\ x \in Path /\ Len(x) = k - 1 /\ mem[x] = "live"
        /\ Reached(dying, k) \in 1 .. Len(f) + 1
        /\ Reached(dying, k) <= Len(f)
        /\ dying[k + 1].path = Append(x, f[Reached(dying, k)])
        /\ \A j \in 1 .. Reached(dying, k) - 1 : mem[Append(x, f[j])] # "live"
        /\ \A j \in dying[k].next .. Len(f) :
             There(node[x], x, f[j]) /\ ~Dying(Append(x, f[j]))
    <3>1. k \in 1 .. Len(dying)
      BY <1>1
    <3>2. PICK m \in 1 .. Len(dying) : m = k
      BY <3>1
    <3>3. /\ dying[m] \in Call /\ dying[m].next \in Nat \ {0}
          /\ <<node[x], x>> \in Place
          /\ x \in Path /\ Len(x) = m - 1 /\ mem[x] = "live"
          /\ Reached(dying, m) \in 1 .. Len(f) + 1
          /\ m < Len(dying) => /\ Reached(dying, m) <= Len(f)
                               /\ dying[m + 1].path = Append(x, f[Reached(dying, m)])
          /\ \A j \in 1 .. Reached(dying, m) - 1 : mem[Append(x, f[j])] # "live"
          /\ \A j \in dying[m].next .. Len(f) :
               There(node[x], x, f[j]) /\ ~Dying(Append(x, f[j]))
      <4>1. Active(m, x, f)
        BY <2>1, <3>2, ActiveCall
      <4> QED
        BY <4>1 DEF Active
    <3>4. k < Len(dying)
      BY <1>1
    <3> QED
      BY <3>2, <3>3, <3>4
  <2>3. Reached(dying, k) = dying[k].next - 1
    BY <1>1 DEF Reached
  <2>4. Len(f) \in Nat /\ \A j \in 1 .. Len(f) : Append(x, f[j]) \in Path
    <3>1. FieldsPlaced(node[x], x, f)
      BY <2>1, <2>2, FieldPlace
    <3> QED
      BY <3>1 DEF FieldsPlaced
  <2>5. dying'[k].path = x /\ dying'[k].next = dying[k].next
    BY <1>10, <2>1
  <2>6. mem'[x] = "live"
    <3>1. Len(x) # Len(p)
      BY <1>3, <2>2
    <3> QED
      BY <1>9, <2>2, <3>1
  <2>7. ASSUME NEW j \in 1 .. Len(f), mem[Append(x, f[j])] # "live"
        PROVE  mem'[Append(x, f[j])] # "live"
    BY <1>9, <2>4, <2>7
  <2>8. \A j \in dying[k].next .. Len(f) :
          /\ mem'[Append(x, f[j])] = "live"
          /\ node[Append(x, f[j])] = Child(node[x], f[j])
          /\ ~Dying(Append(x, f[j]))
    <3> TAKE j \in dying[k].next .. Len(f)
    <3>1. j \in 1 .. Len(f)
      BY <2>2, <2>4
    <3>2. There(node[x], x, f[j]) /\ ~Dying(Append(x, f[j]))
      BY <2>2
    <3> QED
      BY <1>3, <1>9, <2>4, <3>1, <3>2 DEF There
  <2>9. /\ Reached(dying', k) \in 1 .. Len(f) + 1
        /\ k < n - 1 => /\ Reached(dying', k) <= Len(f)
                        /\ dying'[k + 1].path = Append(x, f[Reached(dying', k)])
        /\ \A j \in 1 .. Reached(dying', k) - 1 : mem'[Append(x, f[j])] # "live"
    <3>1. CASE k < n - 1
      <4>1. k + 1 \in 1 .. n - 1 /\ k # n - 1
        BY <3>1
      <4>2. Reached(dying', k) = Reached(dying, k) /\ dying'[k + 1] = dying[k + 1]
        BY <1>10, <2>3, <2>5, <4>1 DEF Reached
      <4>3. \A j \in 1 .. Reached(dying', k) - 1 : j \in 1 .. Len(f)
        BY <2>2, <2>4, <4>2
      <4> QED
        BY <2>2, <2>7, <4>2, <4>3
    <3>2. CASE k = n - 1
      <4>1. Reached(dying', k) = dying[k].next
        BY <1>10, <2>5, <3>2 DEF Reached
      <4>2. Reached(dying', k) = Reached(dying, k) + 1
        BY <2>2, <2>3, <4>1
      <4>3. Append(x, f[Reached(dying, k)]) = p
        BY <1>1, <1>2, <2>2, <3>2
      <4>4. ASSUME NEW j \in 1 .. Reached(dying', k) - 1
            PROVE  mem'[Append(x, f[j])] # "live"
        <5>1. j \in 1 .. Len(f)
          BY <2>2, <2>4, <4>2
        <5>2. CASE j = Reached(dying, k)
          BY <1>3, <1>9, <4>3, <5>2
        <5>3. CASE j # Reached(dying, k)
          <6>1. j \in 1 .. Reached(dying, k) - 1
            BY <2>2, <4>2, <5>3
          <6> QED
            BY <2>2, <2>7, <5>1, <6>1
        <5> QED
          BY <5>2, <5>3
      <4>5. Reached(dying', k) \in 1 .. Len(f) + 1 /\ ~(k < n - 1)
        BY <2>2, <2>4, <3>2, <4>2
      <4> QED
        BY <4>4, <4>5
    <3>3. k < n - 1 \/ k = n - 1
      OBVIOUS
    <3> QED
      BY <3>1, <3>2, <3>3
  <2>10. /\ \A j \in dying'[k].next .. Len(f) :
              There(node[x], x, f[j])' /\ ~Dying(Append(x, f[j]))'
         /\ f = Deleted(node'[x])
    BY <1>7, <1>12, <2>1, <2>5, <2>8 DEF There
  <2> QED
    BY <1>10, <2>2, <2>5, <2>6, <2>9, <2>10 DEF CallAt
<1>18. Phases'
  <2>1. dying' = << >> => mem'[Root] # "live"
    <3> SUFFICES ASSUME dying' = << >>
                 PROVE  p = Root
      BY <1>3, <1>9
    <3>1. Len(p) = 0
      BY <1>3, <1>10
    <3> QED
      BY <1>4, <3>1, EmptySeq DEF Root
  <2> QED
    BY <1>0, <1>7, <2>1 DEF HeapInv, Phases
<1>19. R!HeldBy(p) = {}
  <2> SUFFICES ASSUME NEW q \in Path, Holders[q] = p
               PROVE  FALSE
    BY DEF R!HeldBy
  <2>1. p # Nil /\ p # Main
    BY <1>3, Apart
  <2>2. mem[q] = "live" /\ q # Root /\ Front(q) = p
    BY <2>1 DEF Holders
  <2> QED
    BY <1>6, <2>2
<1>20. References' = References /\ Holders' = Holders
  <2>1. \A q \in Path : (mem'[q] = "live" /\ ~Dying(q)') <=> (mem[q] = "live" /\ ~Dying(q))
    BY <1>3, <1>9, <1>12
  <2>2. References' = References
    BY <2>1 DEF References
  <2>3. ASSUME NEW q \in Path
        PROVE  (IF mem'[q] # "live" \/ Dying(q)' THEN Nil
                ELSE IF q = Root \/ mem'[Front(q)] = "unborn" THEN Main ELSE Front(q))
                 = Holders[q]
    <3>1. CASE mem[q] = "live" /\ q # Root
      <4>1. Front(q) \in Path /\ Front(q) # p
        BY <1>6, <3>1
      <4>2. mem'[Front(q)] = mem[Front(q)]
        BY <1>9, <4>1
      <4> QED
        BY <2>1, <4>2 DEF Holders
    <3>2. CASE mem[q] # "live" \/ q = Root
      BY <2>1, <3>2 DEF Holders
    <3> QED
      BY <3>1, <3>2
  <2>4. Holders' = [q \in Path |->
                      IF mem'[q] # "live" \/ Dying(q)' THEN Nil
                      ELSE IF q = Root \/ mem'[Front(q)] = "unborn" THEN Main ELSE Front(q)]
    BY DEF Holders
  <2>5. Holders = [q \in Path |-> Holders[q]]
    BY DEF Holders
  <2> QED
    BY <2>2, <2>3, <2>4, <2>5
<1>21. R!Free(Main)
  <2>1. PathsOf(dying) # << >> /\ R!Last(PathsOf(dying)) = p
    BY <1>0, <1>2, PathsTop DEF Top
  <2>2. PathsOf(dying') = R!Front(PathsOf(dying))
    BY <1>0, <1>7, PathsPopped
  <2>3. /\ Destroyed = [t \in {Main} |-> PathsOf(dying)]
        /\ Destroyed' = [t \in {Main} |-> PathsOf(dying')]
    BY DEF Destroyed, PathsOf
  <2>4. Destroyed' = [Destroyed EXCEPT ![Main] = R!Front(@)]
    BY <2>2, <2>3
  <2> QED
    BY <1>7, <1>19, <1>20, <2>1, <2>3, <2>4 DEF R!Free, R!Idle
<1> QED
  BY <1>13, <1>14, <1>15, <1>16, <1>17, <1>18, <1>21 DEF HeapInv, R!Next, R!Destroy

(* The steps that leave the tree alone. *)
LEMMA OthersKeep ==
  ASSUME HeapInv, Error \/ AstDump \/ Return \/ UNCHANGED vars
  PROVE  HeapInv' /\ UNCHANGED R!vars
<1>1. UNCHANGED <<ast, todo, mem, node, count, dying>>
  <2>1. CASE Error \/ Return
    BY <2>1 DEF Error, Return
  <2>2. CASE AstDump
    <3>1. ast' = ast
      BY <2>2 DEF AstDump, D!Next, D!Fputs, D!DumpNode, D!DumpEnd
    <3>2. UNCHANGED heap
      BY <2>2 DEF AstDump
    <3> QED
      BY <3>1, <3>2 DEF heap
  <2>3. CASE UNCHANGED vars
    BY <2>3 DEF vars, heap
  <2> QED
    BY <2>1, <2>2, <2>3
<1>2. HeapTyped' /\ Nested' /\ PartsThere' /\ Owned'
  <2>1. HeapTyped'
    BY <1>1 DEF HeapInv, HeapTyped
  <2>2. Nested' /\ PartsThere'
    BY <1>1 DEF HeapInv, Nested, PartsThere, There
  <2>3. Owned'
    BY <1>1 DEF HeapInv, Owned
  <2> QED
    BY <2>1, <2>2, <2>3
<1>3. Whole' /\ Calls'
  BY <1>1, SameTree DEF HeapInv
<1>4. Phases'
  <2>1. \/ phase' = phase
        \/ phase = "running" /\ phase' = "exited"
        \/ phase = "deleting" /\ phase' = "returned" /\ dying = << >>
    BY DEF Error, AstDump, Return, vars, heap, HeapInv, Phases
  <2>2. Phases
    BY DEF HeapInv
  <2> QED
    BY <1>1, <2>1, <2>2 DEF Phases
<1> QED
  BY <1>1, <1>2, <1>3, <1>4, Stutter DEF HeapInv

(* Before the parser has made a node there is none. *)
LEMMA HeapStarts ==
  ASSUME Init
  PROVE  HeapInv /\ R!Init
<1> DEFINE first == Begun(ast, Root)
<1>1. /\ ast \in Programs /\ todo = <<first>> /\ phase = "running" /\ dying = << >>
      /\ mem = [p \in Path |-> "unborn"] /\ node = [p \in Path |-> NULL]
      /\ count = [p \in Path |-> 0]
  BY DEF Init
<1>2. Root \in Path /\ <<ast, Root>> \in Place /\ ast \in Node
  BY <1>1, RootIsPath
<1>3. first \in Frame /\ first.node = ast /\ first.path = Root /\ first.next = 1
  BY <1>2, FrameBegun
<1>4. Len(Built(ast)) \in Nat
  BY <1>2, FieldsAgree
<1> HIDE DEF first
<1>5. /\ todo \in Seq(Frame) /\ Len(todo) = 1 /\ todo[1] = first
      /\ Reached(todo, 1) = 1 /\ todo # << >>
  BY <1>1, <1>3 DEF Reached
<1>6. \A p \in Path : mem[p] = "unborn" /\ count[p] = 0
  BY <1>1
<1>7. HeapTyped
  BY <1>1, <1>2, <1>3, <1>5 DEF HeapTyped
<1>8. Nested /\ PartsThere
  <2>1. Len(Root) = 0
    BY DEF Root
  <2> QED
    BY <1>2, <1>3, <1>4, <1>5, <1>6, <2>1 DEF Nested, PartsThere
<1>9. Owned /\ Whole
  BY <1>6 DEF Owned, Whole
<1>10. Calls
  BY <1>1 DEF Calls
<1>11. Phases
  BY <1>1, <1>5, <1>6 DEF Phases
<1>12. R!Init
  <2>1. References = [p \in Path |-> Nil] /\ Holders = [p \in Path |-> Nil]
    BY <1>6 DEF References, Holders
  <2>2. Destroyed = [t \in {Main} |-> << >>]
    <3>1. [k \in 1 .. Len(dying) |-> dying[k].path] = << >>
      BY <1>1
    <3> QED
      BY <3>1 DEF Destroyed
  <2> QED
    BY <1>1, <2>1, <2>2 DEF R!Init
<1> QED
  BY <1>7, <1>8, <1>9, <1>10, <1>11, <1>12 DEF HeapInv

(* One step of any kind. *)
LEMMA HeapStep ==
  ASSUME HeapInv, [Next]_vars
  PROVE  HeapInv' /\ [R!Next]_(R!vars)
<1>1. CASE Descend
  BY <1>1, DescendKeeps
<1>2. CASE NewNode
  BY <1>2, NewNodeKeeps, NewNodeIsNew
<1>3. CASE Cleanup
  BY <1>3, CleanupKeeps
<1>4. CASE DeleteField
  BY <1>4, DeleteFieldKeeps
<1>5. CASE Free
  BY <1>5, FreeKeeps
<1>6. CASE Error \/ AstDump \/ Return \/ UNCHANGED vars
  BY <1>6, OthersKeep
<1> QED
  BY <1>1, <1>2, <1>3, <1>4, <1>5, <1>6 DEF Next

(* The constructors and destroy_node keep to the rules of crc.h, whatever the
   tree: each of their steps is one of the library, so what LibraryProofs
   shows of the library holds of the trees. *)
THEOREM HeapKeepsRules == Spec => R!Init /\ [][R!Next]_(R!vars)
<1>1. Init => HeapInv /\ R!Init
  BY HeapStarts
<1>2. HeapInv /\ [Next]_vars => HeapInv' /\ [R!Next]_(R!vars)
  BY HeapStep
<1> QED
  BY <1>1, <1>2, PTL DEF Spec

(* A path leads from every node that is live up to the root. *)
LEMMA LiveRoot ==
  ASSUME HeapInv, todo = << >>, NEW p \in Path, mem[p] = "live"
  PROVE  mem[Root] = "live"
<1> DEFINE Lens == {Len(q) : q \in {q \in Path : mem[q] = "live"}}
<1>1. \A q \in Path : q \in Seq(Step) /\ Len(q) \in Nat
  BY PathAssumption DEF Step
<1>2. Lens \in SUBSET Nat /\ Lens # {}
  BY <1>1
<1>3. PICK n \in Lens : \A m \in Lens : n <= m
  <2> HIDE DEF Lens
  <2> QED
    BY <1>2, LeastNat
<1>4. PICK q \in Path : mem[q] = "live" /\ n = Len(q)
  OBVIOUS
<1>5. CASE q # Root
  <2>1. Front(q) \in Path /\ mem[Front(q)] = "live"
    BY <1>4, <1>5 DEF HeapInv, Owned
  <2>2. Len(Front(q)) = Len(q) - 1 /\ Len(q) \in Nat
    BY <1>1, <1>5, FrontType DEF Root
  <2>3. Len(Front(q)) \in Lens
    BY <2>1
  <2> HIDE DEF Lens
  <2>4. n <= Len(Front(q))
    BY <1>3, <2>3
  <2> QED
    BY <1>4, <2>2, <2>4
<1> QED
  BY <1>4, <1>5

(* When main returns, no node is live: nothing leaks, however deep the tree
   is and whatever its ifs lack. *)
THEOREM TreeIsFreed == Spec => []NothingLeft
<1>1. Init => HeapInv
  BY HeapStarts
<1>2. HeapInv /\ [Next]_vars => HeapInv'
  BY HeapStep
<1>3. HeapInv => NothingLeft
  <2> SUFFICES ASSUME HeapInv, phase = "returned", NEW p \in Path, mem[p] = "live"
               PROVE  FALSE
    BY DEF NothingLeft
  <2>1. todo = << >> /\ mem[Root] # "live"
    BY DEF HeapInv, Phases
  <2> QED
    BY <2>1, LiveRoot
<1> QED
  BY <1>1, <1>2, <1>3, PTL DEF Spec

(* No destroy_node hands crc_del a null pointer, which asserts on it: the one
   field of a node that may be null is tested first. *)
THEOREM NullIsNotDeleted == Spec => []NeverAborts
<1>1. Init => HeapInv
  BY HeapStarts
<1>2. HeapInv /\ [Next]_vars => HeapInv'
  BY HeapStep
<1>3. HeapInv => NeverAborts
  BY DEF HeapInv, Phases, NeverAborts
<1> QED
  BY <1>1, <1>2, <1>3, PTL DEF Spec

-----------------------------------------------------------------------------
(***************************************************************************)
(* What dump_node prints, read again from the first text to the last.      *)
(***************************************************************************)

(* The texts that are printed. *)
Word == {p.str : p \in {q \in Piece : q.kind = "text"}}

Reads(F, p, k) == Spells(F)[<<p, k>>]

LEMMA Printables ==
  ASSUME NEW n \in Printable
  PROVE  /\ WellFormed(n, Printable) /\ Constructed(n)
         /\ n.kind \in ExprKinds \cup StmtKinds
         /\ n.kind # "text"
         /\ n \in Piece
<1>1. WellFormed(n, Printable) /\ Constructed(n)
  BY PrintableAssumption
<1>2. n.kind \in ExprKinds \cup StmtKinds /\ n.kind # "text"
  BY <1>1 DEF WellFormed, ExprKinds, StmtKinds
<1> QED
  BY <1>1, <1>2 DEF Piece

LEMMA ChildrenOf ==
  /\ \A e \in Exprs(Printable) : e \in Printable /\ e \in Piece /\ e.kind \in ExprKinds
  /\ \A e \in Stmts(Printable) : e \in Printable /\ e \in Piece /\ e.kind \in StmtKinds
  /\ \A e \in Blocks(Printable) : e \in Printable /\ e \in Piece /\ e.kind = "NKSt_BLOCK"
BY Printables DEF Exprs, Stmts, Blocks

-----------------------------------------------------------------------------
(* Sequences by their first element. *)
LEMMA ConsType ==
  ASSUME NEW S, NEW a \in S, NEW r \in Seq(S)
  PROVE  /\ <<a>> \o r \in Seq(S)
         /\ <<a>> \o r # << >>
         /\ Head(<<a>> \o r) = a
         /\ Tail(<<a>> \o r) = r
<1>1. /\ <<a>> \o r \in Seq(S) /\ Len(<<a>> \o r) = 1 + Len(r)
      /\ (<<a>> \o r)[1] = a
      /\ \A k \in 1 .. Len(r) : (<<a>> \o r)[1 + k] = r[k]
  <2>1. <<a>> \in Seq(S) /\ Len(<<a>>) = 1 /\ <<a>>[1] = a
    OBVIOUS
  <2> QED
    BY <2>1, ConcatType
<1> DEFINE s == <<a>> \o r
<1>2. s \in Seq(S) /\ Len(s) = 1 + Len(r) /\ Len(r) \in Nat
  BY <1>1
<1> HIDE DEF s
<1>3. s # << >>
  BY <1>2
<1>4. Tail(s) \in Seq(S) /\ Len(Tail(s)) = Len(r) /\ \A k \in 1 .. Len(r) : Tail(s)[k] = s[k + 1]
  BY <1>2, <1>3
<1>5. Tail(s) = r
  BY <1>1, <1>2, <1>4, SeqEqual DEF s
<1>6. Head(s) = s[1]
  OBVIOUS
<1> QED
  BY <1>1, <1>2, <1>3, <1>5, <1>6 DEF s

LEMMA HeadOf ==
  ASSUME NEW S, NEW s \in Seq(S), s # << >>
  PROVE  Head(s) \in S /\ Tail(s) \in Seq(S) /\ s = <<Head(s)>> \o Tail(s)
<1>1. /\ Head(s) \in S /\ Tail(s) \in Seq(S) /\ Head(s) = s[1]
      /\ Len(s) \in Nat \ {0} /\ Len(Tail(s)) = Len(s) - 1
      /\ \A k \in 1 .. Len(s) - 1 : Tail(s)[k] = s[k + 1]
  OBVIOUS
<1> DEFINE t == <<Head(s)>> \o Tail(s)
<1>2. /\ t \in Seq(S) /\ Len(t) = Len(s) /\ t[1] = s[1]
      /\ \A k \in 1 .. Len(s) - 1 : t[1 + k] = s[k + 1]
  <2>1. <<Head(s)>> \in Seq(S) /\ Len(<<Head(s)>>) = 1 /\ <<Head(s)>>[1] = s[1]
    BY <1>1
  <2> QED
    BY <1>1, <2>1, ConcatType
<1> HIDE DEF t
<1>3. \A k \in 1 .. Len(s) : t[k] = s[k]
  <2> TAKE k \in 1 .. Len(s)
  <2>1. CASE k = 1
    BY <1>2, <2>1
  <2>2. CASE k # 1
    <3>1. k - 1 \in 1 .. Len(s) - 1 /\ 1 + (k - 1) = k /\ (k - 1) + 1 = k
      BY <1>1, <2>2
    <3> QED
      BY <1>2, <3>1
  <2> QED
    BY <2>1, <2>2
<1>4. s = t
  BY <1>2, <1>3, SeqEqual
<1> QED
  BY <1>1, <1>4 DEF t

(* The texts that stand around the parts of a node. *)
OpenBlock == D!Text("block{")
OpenReturn == D!Text("return{")
OpenExpr == D!Text("expr{")
OpenFor == D!Text("for(")
OpenWhile == D!Text("while(")
OpenIf == D!Text("if(")
OpenUnary == D!Text("unary(")
OpenBinary == D!Text("binary(")
Else == D!Text(" else ")
Close == D!Text("}")
Semicolon == D!Text("; ")
Then == D!Text(") ")
Comma == D!Text(",")
End == D!Text(")")
Unary(n) == D!Text(D!UnaopkToStr[n.op])
Binary(n) == D!Text(D!BinopkToStr[n.op])

(* A text or a node; and a sequence of these. *)
Good(q) == q.kind = "text" \/ q \in Printable
AllGood(P) == \E U : P \in Seq(U) /\ \A q \in U : Good(q)

LEMMA TextsGood == \A s : Good(D!Text(s))
BY DEF Good, D!Text

LEMMA Good1 ==
  ASSUME NEW a,
         Good(a)
  PROVE  AllGood(<<a>>)
<1> DEFINE U == {a}
<1>1. <<a>> \in Seq(U)
  OBVIOUS
<1>2. \A q \in U : Good(q)
  OBVIOUS
<1> HIDE DEF U
<1> QED
  BY <1>1, <1>2 DEF AllGood

LEMMA Good2 ==
  ASSUME NEW a, NEW b,
         Good(a), Good(b)
  PROVE  AllGood(<<a, b>>)
<1> DEFINE U == {a, b}
<1>1. <<a, b>> \in Seq(U)
  OBVIOUS
<1>2. \A q \in U : Good(q)
  OBVIOUS
<1> HIDE DEF U
<1> QED
  BY <1>1, <1>2 DEF AllGood

LEMMA Good3 ==
  ASSUME NEW a, NEW b, NEW c,
         Good(a), Good(b), Good(c)
  PROVE  AllGood(<<a, b, c>>)
<1> DEFINE U == {a, b, c}
<1>1. <<a, b, c>> \in Seq(U)
  OBVIOUS
<1>2. \A q \in U : Good(q)
  OBVIOUS
<1> HIDE DEF U
<1> QED
  BY <1>1, <1>2 DEF AllGood

LEMMA Good4 ==
  ASSUME NEW a, NEW b, NEW c, NEW d,
         Good(a), Good(b), Good(c), Good(d)
  PROVE  AllGood(<<a, b, c, d>>)
<1> DEFINE U == {a, b, c, d}
<1>1. <<a, b, c, d>> \in Seq(U)
  OBVIOUS
<1>2. \A q \in U : Good(q)
  OBVIOUS
<1> HIDE DEF U
<1> QED
  BY <1>1, <1>2 DEF AllGood

LEMMA Good5 ==
  ASSUME NEW a, NEW b, NEW c, NEW d, NEW e,
         Good(a), Good(b), Good(c), Good(d), Good(e)
  PROVE  AllGood(<<a, b, c, d, e>>)
<1> DEFINE U == {a, b, c, d, e}
<1>1. <<a, b, c, d, e>> \in Seq(U)
  OBVIOUS
<1>2. \A q \in U : Good(q)
  OBVIOUS
<1> HIDE DEF U
<1> QED
  BY <1>1, <1>2 DEF AllGood

LEMMA Good7 ==
  ASSUME NEW a, NEW b, NEW c, NEW d, NEW e, NEW f, NEW g,
         Good(a), Good(b), Good(c), Good(d), Good(e), Good(f), Good(g)
  PROVE  AllGood(<<a, b, c, d, e, f, g>>)
<1> DEFINE U == {a, b, c, d, e, f, g}
<1>1. <<a, b, c, d, e, f, g>> \in Seq(U)
  OBVIOUS
<1>2. \A q \in U : Good(q)
  OBVIOUS
<1> HIDE DEF U
<1> QED
  BY <1>1, <1>2 DEF AllGood

LEMMA Good8 ==
  ASSUME NEW a, NEW b, NEW c, NEW d, NEW e, NEW f, NEW g, NEW h,
         Good(a), Good(b), Good(c), Good(d), Good(e), Good(f), Good(g), Good(h)
  PROVE  AllGood(<<a, b, c, d, e, f, g, h>>)
<1> DEFINE U == {a, b, c, d, e, f, g, h}
<1>1. <<a, b, c, d, e, f, g, h>> \in Seq(U)
  OBVIOUS
<1>2. \A q \in U : Good(q)
  OBVIOUS
<1> HIDE DEF U
<1> QED
  BY <1>1, <1>2 DEF AllGood

LEMMA GoodConcat ==
  ASSUME NEW P, NEW Q, AllGood(P), AllGood(Q)
  PROVE  AllGood(P \o Q)
<1>1. PICK U : P \in Seq(U) /\ \A q \in U : Good(q)
  BY DEF AllGood
<1>2. PICK V : Q \in Seq(V) /\ \A q \in V : Good(q)
  BY DEF AllGood
<1> DEFINE W == U \cup V
<1>3. P \in Seq(W) /\ Q \in Seq(W)
  <2>1. U \subseteq W /\ V \subseteq W
    OBVIOUS
  <2> HIDE DEF W
  <2> QED
    BY <1>1, <1>2, <2>1, SeqMonotonic
<1>4. \A q \in W : Good(q)
  BY <1>1, <1>2
<1> HIDE DEF W
<1>5. P \o Q \in Seq(W)
  BY <1>3, ConcatType
<1> QED
  BY <1>4, <1>5 DEF AllGood

LEMMA NoNode == D!NULL = NULL
BY DEF D!NULL, NULL

(* What dump_node does with a node of each kind. *)
LEMMA PiecesAre ==
  ASSUME NEW n \in Printable
  PROVE  /\ n.kind = "NKEx_LIT" => D!Pieces(n) = <<D!Texts(n)>>
         /\ n.kind = "NKEx_UNAOP" =>
              D!Pieces(n) = <<OpenUnary, Unary(n), Comma, n.expr, End>>
         /\ n.kind = "NKEx_BINOP" =>
              D!Pieces(n) = <<OpenBinary, Binary(n), Comma, n.left, Comma, n.right, End>>
         /\ n.kind = "NKSt_RETURN" => D!Pieces(n) = <<OpenReturn, n.expr, Close>>
         /\ n.kind = "NKSt_EXPR" => D!Pieces(n) = <<OpenExpr, n.expr, Close>>
         /\ n.kind = "NKSt_BLOCK" => D!Pieces(n) = <<OpenBlock>> \o n.list \o <<Close>>
         /\ n.kind = "NKSt_IF" /\ n.ifnot = NULL =>
              D!Pieces(n) = <<OpenIf, n.cond, Then, n.block>> \o << >>
         /\ n.kind = "NKSt_IF" /\ n.ifnot # NULL =>
              D!Pieces(n) = <<OpenIf, n.cond, Then, n.block>> \o <<Else, n.ifnot>>
         /\ n.kind = "NKSt_FOR" =>
              D!Pieces(n) = <<OpenFor, n.init, Semicolon, n.cond, Semicolon, n.post, Then, n.block>>
         /\ n.kind = "NKSt_FOR_WHILE" => D!Pieces(n) = <<OpenWhile, n.cond, Then, n.block>>
<1>1. CASE n.kind = "NKEx_LIT"
  BY <1>1 DEF D!Pieces
<1>2. CASE n.kind = "NKEx_UNAOP"
  BY <1>2 DEF D!Pieces, OpenUnary, Unary, Comma, End
<1>3. CASE n.kind = "NKEx_BINOP"
  BY <1>3 DEF D!Pieces, OpenBinary, Binary, Comma, End
<1>4. CASE n.kind = "NKSt_RETURN"
  BY <1>4 DEF D!Pieces, OpenReturn, Close
<1>5. CASE n.kind = "NKSt_EXPR"
  BY <1>5 DEF D!Pieces, OpenExpr, Close
<1>6. CASE n.kind = "NKSt_BLOCK"
  BY <1>6 DEF D!Pieces, D!DumpStblock, OpenBlock, Close
<1>7. CASE n.kind = "NKSt_IF"
  <2>1. D!Pieces(n) = D!DumpStif(n)
    BY <1>7 DEF D!Pieces
  <2>2. n.ifnot = NULL => D!DumpStif(n) = <<OpenIf, n.cond, Then, n.block>> \o << >>
    BY NoNode, Zenon DEF D!DumpStif, OpenIf, Then
  <2>3. n.ifnot # NULL =>
          D!DumpStif(n) = <<OpenIf, n.cond, Then, n.block>> \o <<Else, n.ifnot>>
    BY NoNode, Zenon DEF D!DumpStif, OpenIf, Then, Else
  <2> QED
    BY <1>7, <2>1, <2>2, <2>3
<1>8. CASE n.kind = "NKSt_FOR"
  BY <1>8 DEF D!Pieces, OpenFor, Semicolon, Then
<1>9. CASE n.kind = "NKSt_FOR_WHILE"
  BY <1>9 DEF D!Pieces, OpenWhile, Then
<1>10. n.kind \in ExprKinds \cup StmtKinds
  BY Printables
<1> QED
  BY <1>1, <1>2, <1>3, <1>4, <1>5, <1>6, <1>7, <1>8, <1>9, <1>10 DEF ExprKinds, StmtKinds

(* The texts of PiecesAre are texts. *)
LEMMA TextsAre ==
  /\ Good(OpenBlock) /\ Good(OpenReturn) /\ Good(OpenExpr) /\ Good(OpenFor) /\ Good(OpenWhile)
  /\ Good(OpenIf) /\ Good(OpenUnary) /\ Good(OpenBinary) /\ Good(Else) /\ Good(Close)
  /\ Good(Semicolon) /\ Good(Then) /\ Good(Comma) /\ Good(End)
  /\ \A n : Good(D!Texts(n)) /\ Good(Unary(n)) /\ Good(Binary(n))
<1>1. \A n : Good(D!Texts(n))
  BY DEF Good, D!Texts
<1>2. \A n : Good(Unary(n)) /\ Good(Binary(n))
  BY TextsGood DEF Unary, Binary
<1> QED
  BY <1>1, <1>2, TextsGood, Zenon
       DEF OpenBlock, OpenReturn, OpenExpr, OpenFor, OpenWhile, OpenIf, OpenUnary,
       OpenBinary, Else, Close, Semicolon, Then, Comma, End

LEMMA PiecesType ==
  ASSUME NEW n \in Printable
  PROVE  /\ D!Pieces(n) \in Seq(Piece)
         /\ \A k \in 1 .. Len(D!Pieces(n)) : Good(D!Pieces(n)[k])
<1> DEFINE P == D!Pieces(n)
<1>1. WellFormed(n, Printable)
  BY Printables
<1>2. \A e \in Exprs(Printable) \cup Blocks(Printable) : Good(e)
  BY DEF Exprs, Blocks, Good
<1>3. AllGood(P)
  <2>1. CASE n.kind = "NKEx_LIT"
    BY <2>1, PiecesAre, TextsAre, Good1
  <2>2. CASE n.kind = "NKEx_UNAOP"
    <3>1. Good(n.expr)
      BY <1>1, <1>2, <2>2 DEF WellFormed
    <3> QED
      BY <2>2, <3>1, PiecesAre, TextsAre, Good5
  <2>3. CASE n.kind = "NKEx_BINOP"
    <3>1. Good(n.left) /\ Good(n.right)
      BY <1>1, <1>2, <2>3 DEF WellFormed
    <3> QED
      BY <2>3, <3>1, PiecesAre, TextsAre, Good7
  <2>4. CASE n.kind \in {"NKSt_RETURN", "NKSt_EXPR"}
    <3>1. Good(n.expr)
      BY <1>1, <1>2, <2>4 DEF WellFormed
    <3> QED
      BY <2>4, <3>1, PiecesAre, TextsAre, Good3
  <2>5. CASE n.kind = "NKSt_BLOCK"
    <3>1. n.list \in Seq(Stmts(Printable)) /\ \A q \in Stmts(Printable) : Good(q)
      BY <1>1, <2>5 DEF WellFormed, Stmts, Good
    <3>2. AllGood(n.list)
      BY <3>1 DEF AllGood
    <3>3. AllGood(<<OpenBlock>>) /\ AllGood(<<Close>>)
      BY TextsAre, Good1
    <3>4. AllGood(<<OpenBlock>> \o n.list)
      BY <3>2, <3>3, GoodConcat
    <3> QED
      BY <2>5, <3>3, <3>4, PiecesAre, GoodConcat
  <2>6. CASE n.kind = "NKSt_IF"
    <3>1. Good(n.cond) /\ Good(n.block) /\ (n.ifnot = NULL \/ Good(n.ifnot))
      BY <1>1, <1>2, <2>6 DEF WellFormed
    <3>2. AllGood(<<OpenIf, n.cond, Then, n.block>>)
      BY <3>1, TextsAre, Good4
    <3>3. CASE n.ifnot = NULL
      <4>1. AllGood(<< >>)
        <5> DEFINE U == {}
        <5>1. << >> \in Seq(U) /\ \A q \in U : Good(q)
          OBVIOUS
        <5> HIDE DEF U
        <5> QED
          BY <5>1 DEF AllGood
      <4> QED
        BY <2>6, <3>2, <3>3, <4>1, PiecesAre, GoodConcat
    <3>4. CASE n.ifnot # NULL
      <4>1. AllGood(<<Else, n.ifnot>>)
        BY <3>1, <3>4, TextsAre, Good2
      <4> QED
        BY <2>6, <3>2, <3>4, <4>1, PiecesAre, GoodConcat
    <3> QED
      BY <3>3, <3>4
  <2>7. CASE n.kind = "NKSt_FOR"
    <3>1. Good(n.init) /\ Good(n.cond) /\ Good(n.post) /\ Good(n.block)
      BY <1>1, <1>2, <2>7 DEF WellFormed
    <3> QED
      BY <2>7, <3>1, PiecesAre, TextsAre, Good8
  <2>8. CASE n.kind = "NKSt_FOR_WHILE"
    <3>1. Good(n.cond) /\ Good(n.block)
      BY <1>1, <1>2, <2>8 DEF WellFormed
    <3> QED
      BY <2>8, <3>1, PiecesAre, TextsAre, Good4
  <2> QED
    BY <1>1, <2>1, <2>2, <2>3, <2>4, <2>5, <2>6, <2>7, <2>8 DEF WellFormed
<1>4. PICK U : P \in Seq(U) /\ \A q \in U : Good(q)
  BY <1>3 DEF AllGood
<1> HIDE DEF P
<1>5. \A k \in 1 .. Len(P) : P[k] \in U /\ P[k] \in ToSet(P)
  BY <1>4, ElementOfSeq DEF ToSet
<1>6. ToSet(P) \subseteq Piece
  BY DEF Piece, P
<1>7. P \in [1 .. Len(P) -> Piece] /\ Len(P) \in Nat
  BY <1>4, <1>5, <1>6
<1>8. P \in Seq(Piece)
  BY <1>7
<1> QED
  BY <1>4, <1>5, <1>8 DEF P

(* Whatever is dealt with is a text or a node, and not both. *)
LEMMA PieceKinds ==
  ASSUME NEW q \in Piece
  PROVE  \/ q.kind = "text" /\ q.str \in Word
         \/ q.kind # "text" /\ q \in Printable
<1>1. q.kind = "text" \/ q \in Printable
  <2>1. CASE q \notin Printable
    <3>1. PICK n \in Printable : q \in ToSet(D!Pieces(n))
      BY <2>1 DEF Piece
    <3>2. PICK k \in 1 .. Len(D!Pieces(n)) : q = D!Pieces(n)[k]
      BY <3>1, PiecesType DEF ToSet
    <3> QED
      BY <3>2, PiecesType DEF Good
  <2> QED
    BY <2>1
<1>2. q.kind = "text" => q.str \in Word
  BY DEF Word
<1> QED
  BY <1>1, <1>2, Printables

-----------------------------------------------------------------------------
(* The recursion of Spells, with f in the place of the function. *)
SpellsBody(F, f, x) ==
  \/ x[1] = << >> /\ x[2] = Len(F) + 1
  \/ /\ x[1] # << >> /\ Head(x[1]).kind = "text"
     /\ x[2] <= Len(F) /\ F[x[2]] = Head(x[1]).str
     /\ f[<<Tail(x[1]), x[2] + 1>>]
  \/ /\ x[1] # << >> /\ Head(x[1]).kind # "text"
     /\ f[<<D!Pieces(Head(x[1])) \o Tail(x[1]), x[2]>>]

Places(F) == Seq(Piece) \X (1 .. Len(F) + 1)

IsSpells(F, f) == f = [x \in Places(F) |-> SpellsBody(F, f, x)]

LEMMA SpellsExists ==
  ASSUME NEW F, Len(F) \in Nat
  PROVE  \E f : IsSpells(F, f)
<1> DEFINE S == Places(F)
           A == {x \in S : x[1] = << >> /\ x[2] = Len(F) + 1}
           After(x) == IF Head(x[1]).kind = "text" THEN <<Tail(x[1]), x[2] + 1>>
                       ELSE <<D!Pieces(Head(x[1])) \o Tail(x[1]), x[2]>>
           Goes(x) == /\ x[1] # << >>
                      /\ Head(x[1]).kind = "text" => x[2] <= Len(F) /\ F[x[2]] = Head(x[1]).str
           V == [x \in S |-> {y \in S : Goes(x) /\ y = After(x)}]
<1>1. A \in SUBSET S
  OBVIOUS
<1>2. V \in [S -> SUBSET S]
  OBVIOUS
<1>3. PICK f : Solves(f, S, A, V)
  <2> HIDE DEF S, A, V
  <2> QED
    BY <1>1, <1>2, Solution
<1>4. ASSUME NEW x \in S, Goes(x)
      PROVE  After(x) \in S
  <2> DEFINE p == x[1]
             k == x[2]
  <2>1. p \in Seq(Piece) /\ k \in 1 .. Len(F) + 1 /\ p # << >>
    BY <1>4 DEF Places
  <2>2. Head(p) \in Piece /\ Tail(p) \in Seq(Piece)
    BY <2>1, HeadOf
  <2>3. CASE Head(p).kind = "text"
    <3>1. k + 1 \in 1 .. Len(F) + 1
      BY <1>4, <2>1, <2>3
    <3> HIDE DEF p, k
    <3>2. <<Tail(p), k + 1>> \in S
      BY <2>2, <3>1 DEF Places
    <3> QED
      BY <2>3, <3>2 DEF p, k
  <2>4. CASE Head(p).kind # "text"
    <3>1. Head(p) \in Printable
      BY <2>2, <2>4, PieceKinds
    <3>2. D!Pieces(Head(p)) \o Tail(p) \in Seq(Piece)
      BY <2>2, <3>1, PiecesType, ConcatType
    <3> HIDE DEF p, k
    <3>3. <<D!Pieces(Head(p)) \o Tail(p), k>> \in S
      BY <2>1, <3>2 DEF Places
    <3> QED
      BY <2>4, <3>3 DEF p, k
  <2> QED
    BY <2>3, <2>4
<1>5. \A x \in S : (x \in A \/ \E c \in V[x] : f[c]) = SpellsBody(F, f, x)
  <2> TAKE x \in S
  <2> DEFINE P == x \in A \/ \E c \in V[x] : f[c]
             Q == SpellsBody(F, f, x)
  <2>1. P \in BOOLEAN /\ Q \in BOOLEAN
    BY DEF SpellsBody
  <2>2. (\E c \in V[x] : f[c]) <=> Goes(x) /\ f[After(x)]
    <3> HIDE DEF Goes, After, S
    <3> QED
      BY <1>4
  <2>3. Goes(x) /\ f[After(x)] <=>
          \/ /\ x[1] # << >> /\ Head(x[1]).kind = "text"
             /\ x[2] <= Len(F) /\ F[x[2]] = Head(x[1]).str
             /\ f[<<Tail(x[1]), x[2] + 1>>]
          \/ /\ x[1] # << >> /\ Head(x[1]).kind # "text"
             /\ f[<<D!Pieces(Head(x[1])) \o Tail(x[1]), x[2]>>]
    BY Zenon
  <2>4. x \in A <=> x[1] = << >> /\ x[2] = Len(F) + 1
    OBVIOUS
  <2>5. P <=> Q
    <3> HIDE DEF A, V, Goes, After, S
    <3> QED
      BY <2>2, <2>3, <2>4 DEF SpellsBody
  <2> HIDE DEF P, Q
  <2>6. P = Q
    BY <2>1, <2>5, BoolEq
  <2> QED
    BY <2>6 DEF P, Q
<1> HIDE DEF A, V
<1>6. f = [x \in S |-> SpellsBody(F, f, x)]
  BY <1>3, <1>5 DEF Solves
<1> QED
  BY <1>6 DEF IsSpells

LEMMA SpellsIs ==
  ASSUME NEW F, Len(F) \in Nat
  PROVE  IsSpells(F, Spells(F))
<1>1. Spells(F) = CHOOSE f : IsSpells(F, f)
  BY Zenon DEF Spells, IsSpells, Places, SpellsBody
<1> QED
  BY <1>1, SpellsExists

(* Reading piece by piece. *)
LEMMA ReadsAs ==
  ASSUME NEW F \in Seq(Word), NEW k \in 1 .. Len(F) + 1, NEW r \in Seq(Piece)
  PROVE  /\ Reads(F, << >>, k) <=> k = Len(F) + 1
         /\ \A t \in Piece : t.kind = "text" =>
              (Reads(F, <<t>> \o r, k) <=> k <= Len(F) /\ F[k] = t.str /\ Reads(F, r, k + 1))
         /\ \A n \in Printable : Reads(F, <<n>> \o r, k) <=> Reads(F, D!Pieces(n) \o r, k)
<1>1. Len(F) \in Nat
  BY LenProperties
<1>2. \A x \in Places(F) : Spells(F)[x] <=> SpellsBody(F, Spells(F), x)
  <2>1. Spells(F) = [x \in Places(F) |-> SpellsBody(F, Spells(F), x)]
    BY <1>1, SpellsIs DEF IsSpells
  <2> QED
    BY <2>1, Zenon
<1>3. \A p \in Seq(Piece) : Reads(F, p, k) <=> SpellsBody(F, Spells(F), <<p, k>>)
  BY <1>2 DEF Places, Reads
<1>4. Reads(F, << >>, k) <=> k = Len(F) + 1
  <2>1. << >> \in Seq(Piece)
    OBVIOUS
  <2>2. SpellsBody(F, Spells(F), <<<< >>, k>>) <=> k = Len(F) + 1
    BY DEF SpellsBody
  <2> QED
    BY <1>3, <2>1, <2>2
<1>5. ASSUME NEW t \in Piece, t.kind = "text"
      PROVE  Reads(F, <<t>> \o r, k) <=> k <= Len(F) /\ F[k] = t.str /\ Reads(F, r, k + 1)
  <2> DEFINE p == <<t>> \o r
  <2>1. p \in Seq(Piece) /\ p # << >> /\ Head(p) = t /\ Tail(p) = r
    BY ConsType
  <2> HIDE DEF p
  <2>2. SpellsBody(F, Spells(F), <<p, k>>) <=>
          k <= Len(F) /\ F[k] = t.str /\ Spells(F)[<<r, k + 1>>]
    BY <1>5, <2>1 DEF SpellsBody
  <2> QED
    BY <1>3, <2>1, <2>2 DEF p, Reads
<1>6. ASSUME NEW n \in Printable
      PROVE  Reads(F, <<n>> \o r, k) <=> Reads(F, D!Pieces(n) \o r, k)
  <2> DEFINE p == <<n>> \o r
  <2>1. p \in Seq(Piece) /\ p # << >> /\ Head(p) = n /\ Tail(p) = r /\ n.kind # "text"
    BY ConsType, Printables
  <2> HIDE DEF p
  <2>2. SpellsBody(F, Spells(F), <<p, k>>) <=> Spells(F)[<<D!Pieces(n) \o r, k>>]
    BY <2>1 DEF SpellsBody
  <2> QED
    BY <1>3, <2>1, <2>2 DEF p, Reads
<1> QED
  BY <1>4, <1>5, <1>6

-----------------------------------------------------------------------------
(* s \o r, for proofs that take no interest in what it is. *)
Glue(s, r) == s \o r

LEMMA GlueCons ==
  ASSUME NEW S, NEW a \in S, NEW t \in Seq(S), NEW r \in Seq(S)
  PROVE  Glue(<<a>> \o t, r) = Cons(a, Glue(t, r))
<1>1. <<a>> \in Seq(S)
  OBVIOUS
<1>2. (<<a>> \o t) \o r = <<a>> \o (t \o r)
  BY <1>1, ConcatAssociative
<1> QED
  BY <1>2, Zenon DEF Cons, Glue

LEMMA GlueOne ==
  ASSUME NEW S, NEW a, <<a>> \in Seq(S), NEW r
  PROVE  a \in S /\ Glue(<<a>>, r) = Cons(a, r)
<1>1. Len(<<a>>) = 1 /\ <<a>>[1] = a
  OBVIOUS
<1>2. a \in S
  BY <1>1
<1> QED
  BY <1>2, Zenon DEF Cons, Glue

LEMMA Glue2 ==
  ASSUME NEW S, NEW a, NEW b, <<a, b>> \in Seq(S), NEW r \in Seq(S)
  PROVE  a \in S /\ b \in S /\ Glue(<<a, b>>, r) = Cons(a, Cons(b, r))
<1>1. a \in S /\ b \in S
  <2>1. Len(<<a, b>>) = 2 /\ \A k \in 1 .. 2 : <<a, b>>[k] \in S
    OBVIOUS
  <2> QED
    BY <2>1
<1> DEFINE s1 == <<b>>
           s2 == <<a, b>>
<1>2. s1 \in Seq(S)
  BY <1>1
<1>3. s2 = <<a>> \o s1
  BY <1>1, ConcatTuples
<1>4. Glue(s1, r) = Cons(b, r)
  BY <1>2, GlueOne
<1> HIDE DEF s1, s2
<1>5. Glue(s2, r) = Cons(a, Glue(s1, r))
  BY <1>1, <1>2, <1>3, GlueCons
<1> QED
  BY <1>1, <1>4, <1>5, Zenon DEF s2

LEMMA Glue3 ==
  ASSUME NEW S, NEW a, NEW b, NEW c,
         <<a, b, c>> \in Seq(S), NEW r \in Seq(S)
  PROVE  /\ a \in S /\ b \in S /\ c \in S
         /\ Glue(<<a, b, c>>, r) = Cons(a, Cons(b, Cons(c, r)))
<1>1. a \in S /\ b \in S /\ c \in S
  <2>1. Len(<<a, b, c>>) = 3 /\ \A k \in 1 .. 3 : <<a, b, c>>[k] \in S
    OBVIOUS
  <2> QED
    BY <2>1
<1> DEFINE s1 == <<c>>
           s2 == <<b, c>>
           s3 == <<a, b, c>>
<1>2. s1 \in Seq(S) /\ s2 \in Seq(S)
  BY <1>1
<1>3. s2 = <<b>> \o s1
  BY <1>1, ConcatTuples
<1>4. s3 = <<a>> \o s2
  OBVIOUS
<1>5. Glue(s1, r) = Cons(c, r)
  BY <1>2, GlueOne
<1> HIDE DEF s1, s2, s3
<1>6. Glue(s2, r) = Cons(b, Glue(s1, r))
  BY <1>1, <1>2, <1>3, GlueCons
<1>7. Glue(s3, r) = Cons(a, Glue(s2, r))
  BY <1>1, <1>2, <1>4, GlueCons
<1> QED
  BY <1>1, <1>5, <1>6, <1>7, Zenon DEF s3

LEMMA Glue4 ==
  ASSUME NEW S, NEW a, NEW b, NEW c, NEW d,
         <<a, b, c, d>> \in Seq(S), NEW r \in Seq(S)
  PROVE  /\ a \in S /\ b \in S /\ c \in S /\ d \in S
         /\ Glue(<<a, b, c, d>>, r) = Cons(a, Cons(b, Cons(c, Cons(d, r))))
<1>1. a \in S /\ b \in S /\ c \in S /\ d \in S
  <2>1. Len(<<a, b, c, d>>) = 4 /\ \A k \in 1 .. 4 : <<a, b, c, d>>[k] \in S
    OBVIOUS
  <2> QED
    BY <2>1
<1> DEFINE s1 == <<d>>
           s2 == <<c, d>>
           s3 == <<b, c, d>>
           s4 == <<a, b, c, d>>
<1>2. s1 \in Seq(S) /\ s2 \in Seq(S) /\ s3 \in Seq(S)
  BY <1>1
<1>3. s2 = <<c>> \o s1
  BY <1>1, ConcatTuples
<1>4. s3 = <<b>> \o s2
  OBVIOUS
<1>5. s4 = <<a>> \o s3
  OBVIOUS
<1>6. Glue(s1, r) = Cons(d, r)
  BY <1>2, GlueOne
<1> HIDE DEF s1, s2, s3, s4
<1>7. Glue(s2, r) = Cons(c, Glue(s1, r))
  BY <1>1, <1>2, <1>3, GlueCons
<1>8. Glue(s3, r) = Cons(b, Glue(s2, r))
  BY <1>1, <1>2, <1>4, GlueCons
<1>9. Glue(s4, r) = Cons(a, Glue(s3, r))
  BY <1>1, <1>2, <1>5, GlueCons
<1> QED
  BY <1>1, <1>6, <1>7, <1>8, <1>9, Zenon DEF s4

LEMMA Glue5 ==
  ASSUME NEW S, NEW a, NEW b, NEW c, NEW d, NEW e,
         <<a, b, c, d, e>> \in Seq(S), NEW r \in Seq(S)
  PROVE  /\ a \in S /\ b \in S /\ c \in S /\ d \in S /\ e \in S
         /\ Glue(<<a, b, c, d, e>>, r) = Cons(a, Cons(b, Cons(c, Cons(d, Cons(e, r)))))
<1>1. a \in S /\ b \in S /\ c \in S /\ d \in S /\ e \in S
  <2>1. Len(<<a, b, c, d, e>>) = 5 /\ \A k \in 1 .. 5 : <<a, b, c, d, e>>[k] \in S
    OBVIOUS
  <2> QED
    BY <2>1
<1> DEFINE s1 == <<e>>
           s2 == <<d, e>>
           s3 == <<c, d, e>>
           s4 == <<b, c, d, e>>
           s5 == <<a, b, c, d, e>>
<1>2. s1 \in Seq(S) /\ s2 \in Seq(S) /\ s3 \in Seq(S) /\ s4 \in Seq(S)
  BY <1>1
<1>3. s2 = <<d>> \o s1
  BY <1>1, ConcatTuples
<1>4. s3 = <<c>> \o s2
  OBVIOUS
<1>5. s4 = <<b>> \o s3
  OBVIOUS
<1>6. s5 = <<a>> \o s4
  OBVIOUS
<1>7. Glue(s1, r) = Cons(e, r)
  BY <1>2, GlueOne
<1> HIDE DEF s1, s2, s3, s4, s5
<1>8. Glue(s2, r) = Cons(d, Glue(s1, r))
  BY <1>1, <1>2, <1>3, GlueCons
<1>9. Glue(s3, r) = Cons(c, Glue(s2, r))
  BY <1>1, <1>2, <1>4, GlueCons
<1>10. Glue(s4, r) = Cons(b, Glue(s3, r))
  BY <1>1, <1>2, <1>5, GlueCons
<1>11. Glue(s5, r) = Cons(a, Glue(s4, r))
  BY <1>1, <1>2, <1>6, GlueCons
<1> QED
  BY <1>1, <1>7, <1>8, <1>9, <1>10, <1>11, Zenon DEF s5

LEMMA Glue7 ==
  ASSUME NEW S, NEW a, NEW b, NEW c, NEW d, NEW e, NEW f, NEW g,
         <<a, b, c, d, e, f, g>> \in Seq(S), NEW r \in Seq(S)
  PROVE  /\ a \in S /\ b \in S /\ c \in S /\ d \in S /\ e \in S /\ f \in S /\ g \in S
         /\ Glue(<<a, b, c, d, e, f, g>>, r) =
              Cons(a, Cons(b, Cons(c, Cons(d, Cons(e, Cons(f, Cons(g, r)))))))
<1>1. a \in S /\ b \in S /\ c \in S /\ d \in S /\ e \in S /\ f \in S /\ g \in S
  <2>1. Len(<<a, b, c, d, e, f, g>>) = 7 /\ \A k \in 1 .. 7 : <<a, b, c, d, e, f, g>>[k] \in S
    OBVIOUS
  <2> QED
    BY <2>1
<1> DEFINE s1 == <<g>>
           s2 == <<f, g>>
           s3 == <<e, f, g>>
           s4 == <<d, e, f, g>>
           s5 == <<c, d, e, f, g>>
           s6 == <<b, c, d, e, f, g>>
           s7 == <<a, b, c, d, e, f, g>>
<1>2. /\ s1 \in Seq(S) /\ s2 \in Seq(S) /\ s3 \in Seq(S)
      /\ s4 \in Seq(S) /\ s5 \in Seq(S) /\ s6 \in Seq(S)
  BY <1>1
<1>3. s2 = <<f>> \o s1
  BY <1>1, ConcatTuples
<1>4. s3 = <<e>> \o s2
  OBVIOUS
<1>5. s4 = <<d>> \o s3
  OBVIOUS
<1>6. s5 = <<c>> \o s4
  OBVIOUS
<1>7. s6 = <<b>> \o s5
  OBVIOUS
<1>8. s7 = <<a>> \o s6
  OBVIOUS
<1>9. Glue(s1, r) = Cons(g, r)
  BY <1>2, GlueOne
<1> HIDE DEF s1, s2, s3, s4, s5, s6, s7
<1>10. Glue(s2, r) = Cons(f, Glue(s1, r))
  BY <1>1, <1>2, <1>3, GlueCons
<1>11. Glue(s3, r) = Cons(e, Glue(s2, r))
  BY <1>1, <1>2, <1>4, GlueCons
<1>12. Glue(s4, r) = Cons(d, Glue(s3, r))
  BY <1>1, <1>2, <1>5, GlueCons
<1>13. Glue(s5, r) = Cons(c, Glue(s4, r))
  BY <1>1, <1>2, <1>6, GlueCons
<1>14. Glue(s6, r) = Cons(b, Glue(s5, r))
  BY <1>1, <1>2, <1>7, GlueCons
<1>15. Glue(s7, r) = Cons(a, Glue(s6, r))
  BY <1>1, <1>2, <1>8, GlueCons
<1> QED
  BY <1>1, <1>9, <1>10, <1>11, <1>12, <1>13, <1>14, <1>15, Zenon DEF s7

LEMMA Glue8 ==
  ASSUME NEW S, NEW a, NEW b, NEW c, NEW d, NEW e, NEW f, NEW g, NEW h,
         <<a, b, c, d, e, f, g, h>> \in Seq(S), NEW r \in Seq(S)
  PROVE  /\ a \in S /\ b \in S /\ c \in S /\ d \in S /\ e \in S /\ f \in S /\ g \in S /\ h \in S
         /\ Glue(<<a, b, c, d, e, f, g, h>>, r) =
              Cons(a, Cons(b, Cons(c, Cons(d, Cons(e, Cons(f, Cons(g, Cons(h, r))))))))
<1>1. a \in S /\ b \in S /\ c \in S /\ d \in S /\ e \in S /\ f \in S /\ g \in S /\ h \in S
  <2>1. Len(<<a, b, c, d, e, f, g, h>>) = 8 /\ \A k \in 1 .. 8 : <<a, b, c, d, e, f, g, h>>[k] \in S
    OBVIOUS
  <2> QED
    BY <2>1
<1> DEFINE s1 == <<h>>
           s2 == <<g, h>>
           s3 == <<f, g, h>>
           s4 == <<e, f, g, h>>
           s5 == <<d, e, f, g, h>>
           s6 == <<c, d, e, f, g, h>>
           s7 == <<b, c, d, e, f, g, h>>
           s8 == <<a, b, c, d, e, f, g, h>>
<1>2. /\ s1 \in Seq(S) /\ s2 \in Seq(S) /\ s3 \in Seq(S) /\ s4 \in Seq(S)
      /\ s5 \in Seq(S) /\ s6 \in Seq(S) /\ s7 \in Seq(S)
  BY <1>1
<1>3. s2 = <<g>> \o s1
  BY <1>1, ConcatTuples
<1>4. s3 = <<f>> \o s2
  OBVIOUS
<1>5. s4 = <<e>> \o s3
  OBVIOUS
<1>6. s5 = <<d>> \o s4
  OBVIOUS
<1>7. s6 = <<c>> \o s5
  OBVIOUS
<1>8. s7 = <<b>> \o s6
  OBVIOUS
<1>9. s8 = <<a>> \o s7
  OBVIOUS
<1>10. Glue(s1, r) = Cons(h, r)
  BY <1>2, GlueOne
<1> HIDE DEF s1, s2, s3, s4, s5, s6, s7, s8
<1>11. Glue(s2, r) = Cons(g, Glue(s1, r))
  BY <1>1, <1>2, <1>3, GlueCons
<1>12. Glue(s3, r) = Cons(f, Glue(s2, r))
  BY <1>1, <1>2, <1>4, GlueCons
<1>13. Glue(s4, r) = Cons(e, Glue(s3, r))
  BY <1>1, <1>2, <1>5, GlueCons
<1>14. Glue(s5, r) = Cons(d, Glue(s4, r))
  BY <1>1, <1>2, <1>6, GlueCons
<1>15. Glue(s6, r) = Cons(c, Glue(s5, r))
  BY <1>1, <1>2, <1>7, GlueCons
<1>16. Glue(s7, r) = Cons(b, Glue(s6, r))
  BY <1>1, <1>2, <1>8, GlueCons
<1>17. Glue(s8, r) = Cons(a, Glue(s7, r))
  BY <1>1, <1>2, <1>9, GlueCons
<1> QED
  BY <1>1, <1>10, <1>11, <1>12, <1>13, <1>14, <1>15, <1>16, <1>17, Zenon DEF s8

LEMMA GlueConcat ==
  ASSUME NEW S, NEW s \in Seq(S), NEW t \in Seq(S), NEW r \in Seq(S)
  PROVE  Glue(s \o t, r) = Glue(s, Glue(t, r))
<1>1. (s \o t) \o r = s \o (t \o r)
  BY ConcatAssociative
<1> QED
  BY <1>1, Zenon DEF Glue

LEMMA GlueType ==
  ASSUME NEW S, NEW s \in Seq(S), NEW r \in Seq(S)
  PROVE  Glue(s, r) \in Seq(S)
BY ConcatType DEF Glue

LEMMA GlueEmpty ==
  ASSUME NEW S, NEW r \in Seq(S)
  PROVE  Glue(<< >>, r) = r
BY ConcatEmptySeq DEF Glue

(* The parts of a sequence over S are sequences over S. *)
LEMMA PartsType ==
  ASSUME NEW S, NEW U, NEW s \in Seq(U), NEW t \in Seq(U), s \o t \in Seq(S)
  PROVE  s \in Seq(S) /\ t \in Seq(S)
<1> DEFINE u == s \o t
<1>1. /\ Len(u) = Len(s) + Len(t) /\ Len(s) \in Nat /\ Len(t) \in Nat
      /\ \A k \in 1 .. Len(s) : u[k] = s[k]
      /\ \A k \in 1 .. Len(t) : u[Len(s) + k] = t[k]
  BY ConcatType
<1>2. u \in Seq(S)
  OBVIOUS
<1> HIDE DEF u
<1>3. \A k \in 1 .. Len(u) : u[k] \in S
  BY <1>2, ElementOfSeq
<1>4. /\ \A k \in 1 .. Len(s) : s[k] \in S
      /\ \A k \in 1 .. Len(t) : t[k] \in S
  <2>1. \A k \in 1 .. Len(s) : k \in 1 .. Len(u)
    BY <1>1
  <2>2. \A k \in 1 .. Len(t) : Len(s) + k \in 1 .. Len(u)
    BY <1>1
  <2> QED
    BY <1>1, <1>3, <2>1, <2>2
<1>5. s \in [1 .. Len(s) -> S] /\ t \in [1 .. Len(t) -> S]
  BY <1>4
<1> QED
  BY <1>1, <1>5

(* What follows a node, from its own pieces on. *)
LEMMA Laid ==
  ASSUME NEW n \in Printable, NEW r \in Seq(Piece)
  PROVE  LET P == Glue(D!Pieces(n), r)
         IN  /\ n.kind = "NKEx_LIT" => D!Texts(n) \in Piece /\ P = Cons(D!Texts(n), r)
             /\ n.kind = "NKEx_UNAOP" =>
                  /\ {OpenUnary, Unary(n), Comma, End} \subseteq Piece
                  /\ P = Cons(OpenUnary, Cons(Unary(n), Cons(Comma, Cons(n.expr, Cons(End, r)))))
             /\ n.kind = "NKEx_BINOP" =>
                  /\ {OpenBinary, Binary(n), Comma, End} \subseteq Piece
                  /\ P = Cons(OpenBinary, Cons(Binary(n), Cons(Comma, Cons(n.left, Cons(Comma,
                          Cons(n.right, Cons(End, r)))))))
             /\ n.kind = "NKSt_RETURN" =>
                  /\ {OpenReturn, Close} \subseteq Piece
                  /\ P = Cons(OpenReturn, Cons(n.expr, Cons(Close, r)))
             /\ n.kind = "NKSt_EXPR" =>
                  /\ {OpenExpr, Close} \subseteq Piece
                  /\ P = Cons(OpenExpr, Cons(n.expr, Cons(Close, r)))
             /\ n.kind = "NKSt_BLOCK" =>
                  /\ {OpenBlock, Close} \subseteq Piece
                  /\ P = Cons(OpenBlock, Glue(n.list, Cons(Close, r)))
             /\ n.kind = "NKSt_IF" /\ n.ifnot = NULL =>
                  /\ {OpenIf, Then} \subseteq Piece
                  /\ P = Cons(OpenIf, Cons(n.cond, Cons(Then, Cons(n.block, r))))
             /\ n.kind = "NKSt_IF" /\ n.ifnot # NULL =>
                  /\ {OpenIf, Then, Else} \subseteq Piece
                  /\ P = Cons(OpenIf, Cons(n.cond, Cons(Then, Cons(n.block, Cons(Else,
                          Cons(n.ifnot, r))))))
             /\ n.kind = "NKSt_FOR" =>
                  /\ {OpenFor, Semicolon, Then} \subseteq Piece
                  /\ P = Cons(OpenFor, Cons(n.init, Cons(Semicolon, Cons(n.cond, Cons(Semicolon,
                          Cons(n.post, Cons(Then, Cons(n.block, r))))))))
             /\ n.kind = "NKSt_FOR_WHILE" =>
                  /\ {OpenWhile, Then} \subseteq Piece
                  /\ P = Cons(OpenWhile, Cons(n.cond, Cons(Then, Cons(n.block, r))))
<1> DEFINE P == D!Pieces(n)
<1>1. P \in Seq(Piece)
  BY PiecesType
<1>2. CASE n.kind = "NKEx_LIT"
  <2>1. P = <<D!Texts(n)>>
    BY <1>2, PiecesAre
  <2> HIDE DEF P
  <2>2. <<D!Texts(n)>> \in Seq(Piece)
    BY <1>1, <2>1
  <2> QED
    BY <1>2, <2>1, <2>2, GlueOne DEF P
<1>3. CASE n.kind = "NKEx_UNAOP"
  <2>1. P = <<OpenUnary, Unary(n), Comma, n.expr, End>>
    BY <1>3, PiecesAre
  <2> HIDE DEF P
  <2>2. <<OpenUnary, Unary(n), Comma, n.expr, End>> \in Seq(Piece)
    BY <1>1, <2>1
  <2> QED
    BY <1>3, <2>1, <2>2, Glue5 DEF P
<1>4. CASE n.kind = "NKEx_BINOP"
  <2>1. P = <<OpenBinary, Binary(n), Comma, n.left, Comma, n.right, End>>
    BY <1>4, PiecesAre
  <2> HIDE DEF P
  <2>2. <<OpenBinary, Binary(n), Comma, n.left, Comma, n.right, End>> \in Seq(Piece)
    BY <1>1, <2>1
  <2> QED
    BY <1>4, <2>1, <2>2, Glue7 DEF P
<1>5. CASE n.kind = "NKSt_RETURN"
  <2>1. P = <<OpenReturn, n.expr, Close>>
    BY <1>5, PiecesAre
  <2> HIDE DEF P
  <2>2. <<OpenReturn, n.expr, Close>> \in Seq(Piece)
    BY <1>1, <2>1
  <2> QED
    BY <1>5, <2>1, <2>2, Glue3 DEF P
<1>6. CASE n.kind = "NKSt_EXPR"
  <2>1. P = <<OpenExpr, n.expr, Close>>
    BY <1>6, PiecesAre
  <2> HIDE DEF P
  <2>2. <<OpenExpr, n.expr, Close>> \in Seq(Piece)
    BY <1>1, <2>1
  <2> QED
    BY <1>6, <2>1, <2>2, Glue3 DEF P
<1>7. CASE n.kind = "NKSt_FOR"
  <2>1. P = <<OpenFor, n.init, Semicolon, n.cond, Semicolon, n.post, Then, n.block>>
    BY <1>7, PiecesAre
  <2> HIDE DEF P
  <2>2. <<OpenFor, n.init, Semicolon, n.cond, Semicolon, n.post, Then, n.block>> \in Seq(Piece)
    BY <1>1, <2>1
  <2> QED
    BY <1>7, <2>1, <2>2, Glue8 DEF P
<1>8. CASE n.kind = "NKSt_FOR_WHILE"
  <2>1. P = <<OpenWhile, n.cond, Then, n.block>>
    BY <1>8, PiecesAre
  <2> HIDE DEF P
  <2>2. <<OpenWhile, n.cond, Then, n.block>> \in Seq(Piece)
    BY <1>1, <2>1
  <2> QED
    BY <1>8, <2>1, <2>2, Glue4 DEF P
<1>9. CASE n.kind = "NKSt_BLOCK"
  <2> DEFINE open == <<OpenBlock>>
             list == n.list
             close == <<Close>>
             front == open \o list
  <2>1. P = front \o close
    BY <1>9, PiecesAre
  <2>2. PICK U : open \in Seq(U) /\ list \in Seq(U) /\ close \in Seq(U)
    <3> DEFINE U == Stmts(Printable) \cup {OpenBlock, Close}
    <3>1. list \in Seq(Stmts(Printable)) /\ Stmts(Printable) \subseteq U
      BY <1>9, Printables DEF WellFormed
    <3>2. list \in Seq(U)
      BY <3>1, SeqMonotonic
    <3>3. open \in Seq(U) /\ close \in Seq(U)
      OBVIOUS
    <3> HIDE DEF U
    <3> QED
      BY <3>2, <3>3
  <2> HIDE DEF P, open, list, close
  <2>3. front \in Seq(U)
    BY <2>2, ConcatType
  <2> HIDE DEF front
  <2>4. front \in Seq(Piece) /\ close \in Seq(Piece)
    BY <1>1, <2>1, <2>2, <2>3, PartsType
  <2>5. open \in Seq(Piece) /\ list \in Seq(Piece)
    BY <2>2, <2>4, PartsType DEF front
  <2>6. Glue(close, r) = Cons(Close, r) /\ Close \in Piece /\ OpenBlock \in Piece
    BY <2>4, <2>5, GlueOne DEF open, close
  <2>7. Glue(P, r) = Glue(front, Glue(close, r))
    BY <2>1, <2>4, GlueConcat
  <2>8. Glue(close, r) \in Seq(Piece)
    BY <2>4, GlueType
  <2>9. Glue(front, Glue(close, r)) = Glue(open, Glue(list, Glue(close, r)))
    BY <2>5, <2>8, GlueConcat DEF front
  <2>10. Glue(open, Glue(list, Glue(close, r))) = Cons(OpenBlock, Glue(list, Glue(close, r)))
    BY <2>5, GlueOne DEF open
  <2> QED
    BY <1>9, <2>6, <2>7, <2>9, <2>10 DEF P, list
<1>10. CASE n.kind = "NKSt_IF"
  <2> DEFINE head == <<OpenIf, n.cond, Then, n.block>>
             tail == IF n.ifnot = NULL THEN << >> ELSE <<Else, n.ifnot>>
  <2>1. P = head \o tail
    BY <1>10, PiecesAre
  <2>2. PICK U : head \in Seq(U) /\ tail \in Seq(U)
    <3> DEFINE U == {OpenIf, n.cond, Then, n.block, Else, n.ifnot}
    <3>1. head \in Seq(U) /\ << >> \in Seq(U) /\ <<Else, n.ifnot>> \in Seq(U)
      OBVIOUS
    <3> HIDE DEF U, head
    <3> QED
      BY <3>1
  <2>3. head \in Seq(Piece) /\ tail \in Seq(Piece)
    <3> HIDE DEF P, head, tail
    <3> QED
      BY <1>1, <2>1, <2>2, PartsType
  <2>4. Glue(P, r) = Glue(head, Glue(tail, r)) /\ Glue(tail, r) \in Seq(Piece)
    <3> HIDE DEF P, head, tail
    <3> QED
      BY <2>1, <2>3, GlueConcat, GlueType
  <2> HIDE DEF P, tail
  <2>5. /\ OpenIf \in Piece /\ Then \in Piece
        /\ Glue(head, Glue(tail, r)) =
             Cons(OpenIf, Cons(n.cond, Cons(Then, Cons(n.block, Glue(tail, r)))))
    <3> DEFINE rest == Glue(tail, r)
    <3>1. rest \in Seq(Piece)
      BY <2>4
    <3> HIDE DEF rest
    <3>2. /\ OpenIf \in Piece /\ Then \in Piece
          /\ Glue(head, rest) = Cons(OpenIf, Cons(n.cond, Cons(Then, Cons(n.block, rest))))
      BY <2>3, <3>1, Glue4
    <3> QED
      BY <3>2 DEF rest
  <2>6. CASE n.ifnot = NULL
    <3>1. Glue(tail, r) = r
      BY <2>6, GlueEmpty DEF tail
    <3> QED
      BY <1>10, <2>4, <2>5, <2>6, <3>1 DEF P
  <2>7. CASE n.ifnot # NULL
    <3>1. tail = <<Else, n.ifnot>>
      BY <2>7 DEF tail
    <3>2. Else \in Piece /\ Glue(tail, r) = Cons(Else, Cons(n.ifnot, r))
      BY <2>3, <3>1, Glue2
    <3> QED
      BY <1>10, <2>4, <2>5, <2>7, <3>2 DEF P
  <2> QED
    BY <2>6, <2>7
<1>11. n.kind \in ExprKinds \cup StmtKinds
  BY Printables
<1> QED
  BY <1>2, <1>3, <1>4, <1>5, <1>6, <1>7, <1>8, <1>9, <1>10, <1>11 DEF ExprKinds, StmtKinds
-----------------------------------------------------------------------------
LEMMA ConsSeq == \A a \in Piece : \A r \in Seq(Piece) : Cons(a, r) \in Seq(Piece)
BY ConsType, Zenon DEF Cons

(* A text is read at the one place where it stands. *)
LEMMA ReadText ==
  ASSUME NEW F \in Seq(Word), NEW k \in 1 .. Len(F) + 1,
         NEW t \in Piece, t.kind = "text", NEW r \in Seq(Piece), Reads(F, Cons(t, r), k)
  PROVE  k <= Len(F) /\ k + 1 \in 1 .. Len(F) + 1 /\ F[k] = t.str /\ Reads(F, r, k + 1)
<1>1. Reads(F, <<t>> \o r, k)
  BY Zenon DEF Cons
<1>2. k <= Len(F) /\ F[k] = t.str /\ Reads(F, r, k + 1)
  BY <1>1, ReadsAs
<1>3. k + 1 \in 1 .. Len(F) + 1
  BY <1>2, LenProperties
<1> QED
  BY <1>2, <1>3

LEMMA ReadNode ==
  ASSUME NEW F \in Seq(Word), NEW k \in 1 .. Len(F) + 1,
         NEW n \in Printable, NEW r \in Seq(Piece), Reads(F, Cons(n, r), k)
  PROVE  Reads(F, Glue(D!Pieces(n), r), k)
<1>1. Reads(F, <<n>> \o r, k)
  BY Zenon DEF Cons
<1>2. Reads(F, D!Pieces(n) \o r, k)
  BY <1>1, ReadsAs
<1> QED
  BY <1>2, Zenon DEF Glue

(* The text that a node begins with. *)
Opener(n) ==
  CASE n.kind = "NKEx_LIT" -> D!Texts(n)
    [] n.kind = "NKEx_UNAOP" -> OpenUnary
    [] n.kind = "NKEx_BINOP" -> OpenBinary
    [] n.kind = "NKSt_RETURN" -> OpenReturn
    [] n.kind = "NKSt_EXPR" -> OpenExpr
    [] n.kind = "NKSt_BLOCK" -> OpenBlock
    [] n.kind = "NKSt_IF" -> OpenIf
    [] n.kind = "NKSt_FOR" -> OpenFor
    [] n.kind = "NKSt_FOR_WHILE" -> OpenWhile

LEMMA ChildPieces ==
  ASSUME NEW n \in Printable
  PROVE  /\ n.kind \in {"NKEx_UNAOP", "NKSt_RETURN", "NKSt_EXPR"} => n.expr \in Exprs(Printable)
         /\ n.kind = "NKEx_BINOP" => n.left \in Exprs(Printable) /\ n.right \in Exprs(Printable)
         /\ n.kind = "NKSt_BLOCK" => n.list \in Seq(Stmts(Printable))
         /\ n.kind = "NKSt_IF" =>
              /\ n.cond \in Exprs(Printable)
              /\ n.block \in Blocks(Printable)
              /\ n.ifnot = NULL \/ n.ifnot \in Blocks(Printable)
         /\ n.kind = "NKSt_FOR" =>
              /\ n.init \in Exprs(Printable)
              /\ n.cond \in Exprs(Printable)
              /\ n.post \in Exprs(Printable)
              /\ n.block \in Blocks(Printable)
         /\ n.kind = "NKSt_FOR_WHILE" =>
              n.cond \in Exprs(Printable) /\ n.block \in Blocks(Printable)
BY Printables DEF WellFormed

(* The texts and the nodes that a node is printed as are pieces. *)
LEMMA Within ==
  ASSUME NEW n \in Printable
  PROVE  /\ n.kind = "NKEx_LIT" => {D!Texts(n)} \subseteq Piece
         /\ n.kind = "NKEx_UNAOP" => {OpenUnary, Unary(n), Comma, End, n.expr} \subseteq Piece
         /\ n.kind = "NKEx_BINOP" =>
              {OpenBinary, Binary(n), Comma, End, n.left, n.right} \subseteq Piece
         /\ n.kind = "NKSt_RETURN" => {OpenReturn, Close, n.expr} \subseteq Piece
         /\ n.kind = "NKSt_EXPR" => {OpenExpr, Close, n.expr} \subseteq Piece
         /\ n.kind = "NKSt_BLOCK" => {OpenBlock, Close} \subseteq Piece
         /\ n.kind = "NKSt_IF" => {OpenIf, Then, n.cond, n.block} \subseteq Piece
         /\ n.kind = "NKSt_IF" /\ n.ifnot # NULL => {Else, n.ifnot} \subseteq Piece
         /\ n.kind = "NKSt_FOR" =>
              {OpenFor, Semicolon, Then, n.init, n.cond, n.post, n.block} \subseteq Piece
         /\ n.kind = "NKSt_FOR_WHILE" => {OpenWhile, Then, n.cond, n.block} \subseteq Piece
<1> DEFINE P == Glue(D!Pieces(n), << >>)
<1>1. \A e \in Exprs(Printable) \cup Blocks(Printable) : e \in Piece
  BY ChildrenOf
<1>2. << >> \in Seq(Piece)
  OBVIOUS
<1>3. CASE n.kind = "NKEx_LIT"
  BY <1>1, <1>2, <1>3, Laid, ChildPieces
<1>4. CASE n.kind = "NKEx_UNAOP"
  BY <1>1, <1>2, <1>4, Laid, ChildPieces
<1>5. CASE n.kind = "NKEx_BINOP"
  BY <1>1, <1>2, <1>5, Laid, ChildPieces
<1>6. CASE n.kind = "NKSt_RETURN"
  BY <1>1, <1>2, <1>6, Laid, ChildPieces
<1>7. CASE n.kind = "NKSt_EXPR"
  BY <1>1, <1>2, <1>7, Laid, ChildPieces
<1>8. CASE n.kind = "NKSt_BLOCK"
  BY <1>1, <1>2, <1>8, Laid, ChildPieces
<1>9. CASE n.kind = "NKSt_IF"
  <2>1. OpenIf \in Piece /\ Then \in Piece /\ (n.ifnot # NULL => Else \in Piece)
    BY <1>2, <1>9, Laid
  <2>2. /\ n.cond \in Exprs(Printable) /\ n.block \in Blocks(Printable)
        /\ n.ifnot = NULL \/ n.ifnot \in Blocks(Printable)
    BY <1>9, ChildPieces
  <2>3. n.cond \in Piece /\ n.block \in Piece
    BY <1>1, <2>2
  <2>4. n.ifnot # NULL => n.ifnot \in Piece
    BY <1>1, <2>2
  <2> QED
    BY <1>9, <2>1, <2>3, <2>4
<1>10. CASE n.kind = "NKSt_FOR"
  BY <1>1, <1>2, <1>10, Laid, ChildPieces
<1>11. CASE n.kind = "NKSt_FOR_WHILE"
  BY <1>1, <1>2, <1>11, Laid, ChildPieces
<1> QED
  BY Printables, <1>3, <1>4, <1>5, <1>6, <1>7, <1>8, <1>9, <1>10, <1>11 DEF ExprKinds, StmtKinds

LEMMA TextKinds ==
  /\ OpenBlock.kind = "text" /\ OpenReturn.kind = "text" /\ OpenExpr.kind = "text"
  /\ OpenFor.kind = "text" /\ OpenWhile.kind = "text" /\ OpenIf.kind = "text"
  /\ OpenUnary.kind = "text" /\ OpenBinary.kind = "text" /\ Else.kind = "text"
  /\ Close.kind = "text" /\ Semicolon.kind = "text" /\ Then.kind = "text"
  /\ Comma.kind = "text" /\ End.kind = "text"
  /\ \A n : D!Texts(n).kind = "text" /\ Unary(n).kind = "text" /\ Binary(n).kind = "text"
<1>1. \A s : D!Text(s).kind = "text"
  BY DEF D!Text
<1>2. \A n : D!Texts(n).kind = "text"
  BY DEF D!Texts
<1>3. \A n : Unary(n).kind = "text" /\ Binary(n).kind = "text"
  BY <1>1 DEF Unary, Binary
<1> QED
  BY <1>1, <1>2, <1>3, Zenon
       DEF OpenBlock, OpenReturn, OpenExpr, OpenFor, OpenWhile, OpenIf, OpenUnary,
       OpenBinary, Else, Close, Semicolon, Then, Comma, End

(* The rest of what a node is printed as is made of pieces. *)
LEMMA ListSeq ==
  ASSUME NEW l \in Seq(Stmts(Printable)), NEW r \in Seq(Piece)
  PROVE  Glue(l, r) \in Seq(Piece)
<1>1. Stmts(Printable) \subseteq Piece
  BY ChildrenOf
<1>2. l \in Seq(Piece)
  BY <1>1, SeqMonotonic
<1> QED
  BY <1>2, GlueType

LEMMA OpensWith ==
  ASSUME NEW n \in Printable, NEW r \in Seq(Piece)
  PROVE  /\ Opener(n) \in Piece /\ Opener(n).kind = "text"
         /\ \E x \in Seq(Piece) : Glue(D!Pieces(n), r) = Cons(Opener(n), x)
<1> DEFINE P == Glue(D!Pieces(n), r)
<1>1. Opener(n).kind = "text"
  BY Printables, TextKinds DEF Opener, ExprKinds, StmtKinds
<1>2. Opener(n) \in Piece /\ \E x \in Seq(Piece) : P = Cons(Opener(n), x)
  <2>1. CASE n.kind = "NKEx_LIT"
    <3> DEFINE x == r
    <3>1. Opener(n) \in Piece /\ P = Cons(Opener(n), x)
      BY <2>1, Laid DEF Opener
    <3>2. x \in Seq(Piece)
      OBVIOUS
    <3> HIDE DEF x, P
    <3> QED
      BY <3>1, <3>2
  <2>2. CASE n.kind = "NKEx_UNAOP"
    <3> DEFINE x == Cons(Unary(n), Cons(Comma, Cons(n.expr, Cons(End, r))))
    <3>1. Opener(n) \in Piece /\ P = Cons(Opener(n), x)
      BY <2>2, Laid DEF Opener
    <3>2. x \in Seq(Piece)
      BY <2>2, Within, ConsSeq
    <3> HIDE DEF x, P
    <3> QED
      BY <3>1, <3>2
  <2>3. CASE n.kind = "NKEx_BINOP"
    <3> DEFINE x == Cons(Binary(n),
                      Cons(Comma, Cons(n.left, Cons(Comma, Cons(n.right, Cons(End, r))))))
    <3>1. Opener(n) \in Piece /\ P = Cons(Opener(n), x)
      BY <2>3, Laid DEF Opener
    <3>2. x \in Seq(Piece)
      BY <2>3, Within, ConsSeq
    <3> HIDE DEF x, P
    <3> QED
      BY <3>1, <3>2
  <2>4. CASE n.kind = "NKSt_RETURN"
    <3> DEFINE x == Cons(n.expr, Cons(Close, r))
    <3>1. Opener(n) \in Piece /\ P = Cons(Opener(n), x)
      BY <2>4, Laid DEF Opener
    <3>2. x \in Seq(Piece)
      BY <2>4, Within, ConsSeq
    <3> HIDE DEF x, P
    <3> QED
      BY <3>1, <3>2
  <2>5. CASE n.kind = "NKSt_EXPR"
    <3> DEFINE x == Cons(n.expr, Cons(Close, r))
    <3>1. Opener(n) \in Piece /\ P = Cons(Opener(n), x)
      BY <2>5, Laid DEF Opener
    <3>2. x \in Seq(Piece)
      BY <2>5, Within, ConsSeq
    <3> HIDE DEF x, P
    <3> QED
      BY <3>1, <3>2
  <2>6. CASE n.kind = "NKSt_BLOCK"
    <3> DEFINE x == Glue(n.list, Cons(Close, r))
    <3>1. Opener(n) \in Piece /\ P = Cons(Opener(n), x)
      BY <2>6, Laid DEF Opener
    <3>2. n.list \in Seq(Stmts(Printable)) /\ Close \in Piece
      BY <2>6, ChildPieces, Within
    <3>3. x \in Seq(Piece)
      BY <3>2, ConsSeq, ListSeq
    <3> HIDE DEF x, P
    <3> QED
      BY <3>1, <3>3
  <2>7. CASE n.kind = "NKSt_IF" /\ n.ifnot = NULL
    <3> DEFINE x == Cons(n.cond, Cons(Then, Cons(n.block, r)))
    <3>1. Opener(n) \in Piece /\ P = Cons(Opener(n), x)
      BY <2>7, Laid DEF Opener
    <3>2. x \in Seq(Piece)
      BY <2>7, Within, ConsSeq
    <3> HIDE DEF x, P
    <3> QED
      BY <3>1, <3>2
  <2>8. CASE n.kind = "NKSt_IF" /\ n.ifnot # NULL
    <3> DEFINE x == Cons(n.cond, Cons(Then, Cons(n.block, Cons(Else, Cons(n.ifnot, r)))))
    <3>1. Opener(n) \in Piece /\ P = Cons(Opener(n), x)
      BY <2>8, Laid DEF Opener
    <3>2. {n.cond, n.block, n.ifnot, Then, Else} \subseteq Piece
      BY <2>8, Within
    <3>3. x \in Seq(Piece)
      BY <3>2, ConsSeq
    <3> HIDE DEF x, P
    <3> QED
      BY <3>1, <3>3
  <2>9. CASE n.kind = "NKSt_FOR"
    <3> DEFINE x == Cons(n.init,
                      Cons(Semicolon, Cons(n.cond, Cons(Semicolon,
                         Cons(n.post, Cons(Then, Cons(n.block, r)))))))
    <3>1. Opener(n) \in Piece /\ P = Cons(Opener(n), x)
      BY <2>9, Laid DEF Opener
    <3>2. {n.init, n.cond, n.post, n.block, Semicolon, Then} \subseteq Piece
      BY <2>9, Within
    <3>3. x \in Seq(Piece)
      BY <3>2, ConsSeq
    <3> HIDE DEF x, P
    <3> QED
      BY <3>1, <3>3
  <2>10. CASE n.kind = "NKSt_FOR_WHILE"
    <3> DEFINE x == Cons(n.cond, Cons(Then, Cons(n.block, r)))
    <3>1. Opener(n) \in Piece /\ P = Cons(Opener(n), x)
      BY <2>10, Laid DEF Opener
    <3>2. x \in Seq(Piece)
      BY <2>10, Within, ConsSeq
    <3> HIDE DEF x, P
    <3> QED
      BY <3>1, <3>2
  <2> QED
    BY Printables, <2>1, <2>2, <2>3, <2>4, <2>5, <2>6, <2>7, <2>8, <2>9, <2>10
         DEF ExprKinds, StmtKinds
<1> QED
  BY <1>1, <1>2

(* Different texts print differently. *)
LEMMA TextsDiffer == \A s, t : s # t => D!Text(s).str # D!Text(t).str
<1>1. \A s : D!Text(s).str = <<s>>
  BY DEF D!Text
<1>2. \A s, t : <<s>> = <<t>> => s = t
  OBVIOUS
<1> QED
  BY <1>1, <1>2

LEMMA MarksDiffer ==
  /\ OpenBlock.str \notin {OpenReturn.str, OpenExpr.str, OpenFor.str, OpenWhile.str, OpenIf.str,
        OpenUnary.str, OpenBinary.str, Close.str, Else.str}
  /\ OpenReturn.str \notin {OpenExpr.str, OpenFor.str, OpenWhile.str, OpenIf.str, OpenUnary.str,
        OpenBinary.str, Close.str, Else.str}
  /\ OpenExpr.str \notin {OpenFor.str, OpenWhile.str, OpenIf.str, OpenUnary.str, OpenBinary.str,
        Close.str, Else.str}
  /\ OpenFor.str \notin {OpenWhile.str, OpenIf.str, OpenUnary.str, OpenBinary.str, Close.str,
        Else.str}
  /\ OpenWhile.str \notin {OpenIf.str, OpenUnary.str, OpenBinary.str, Close.str, Else.str}
  /\ OpenIf.str \notin {OpenUnary.str, OpenBinary.str, Close.str, Else.str}
  /\ OpenUnary.str \notin {OpenBinary.str, Close.str, Else.str}
  /\ OpenBinary.str \notin {Close.str, Else.str}
  /\ Close.str \notin {Else.str}
<1>1. OpenBlock.str \notin {OpenReturn.str, OpenExpr.str, OpenFor.str, OpenWhile.str,
        OpenIf.str, OpenUnary.str, OpenBinary.str, Close.str, Else.str}
  BY TextsDiffer, Zenon
       DEF OpenBlock, OpenReturn, OpenExpr, OpenFor, OpenWhile, OpenIf, OpenUnary, OpenBinary,
       Close, Else
<1>2. OpenReturn.str \notin {OpenExpr.str, OpenFor.str, OpenWhile.str, OpenIf.str,
        OpenUnary.str, OpenBinary.str, Close.str, Else.str}
  BY TextsDiffer, Zenon
       DEF OpenReturn, OpenExpr, OpenFor, OpenWhile, OpenIf, OpenUnary, OpenBinary, Close, Else
<1>3. OpenExpr.str \notin {OpenFor.str, OpenWhile.str, OpenIf.str, OpenUnary.str,
        OpenBinary.str, Close.str, Else.str}
  BY TextsDiffer, Zenon DEF OpenExpr, OpenFor, OpenWhile, OpenIf, OpenUnary, OpenBinary, Close, Else
<1>4. OpenFor.str \notin {OpenWhile.str, OpenIf.str, OpenUnary.str, OpenBinary.str, Close.str,
        Else.str}
  BY TextsDiffer, Zenon DEF OpenFor, OpenWhile, OpenIf, OpenUnary, OpenBinary, Close, Else
<1>5. OpenWhile.str \notin {OpenIf.str, OpenUnary.str, OpenBinary.str, Close.str, Else.str}
  BY TextsDiffer, Zenon DEF OpenWhile, OpenIf, OpenUnary, OpenBinary, Close, Else
<1>6. OpenIf.str \notin {OpenUnary.str, OpenBinary.str, Close.str, Else.str}
  BY TextsDiffer, Zenon DEF OpenIf, OpenUnary, OpenBinary, Close, Else
<1>7. OpenUnary.str \notin {OpenBinary.str, Close.str, Else.str}
  BY TextsDiffer, Zenon DEF OpenUnary, OpenBinary, Close, Else
<1>8. OpenBinary.str \notin {Close.str, Else.str}
  BY TextsDiffer, Zenon DEF OpenBinary, Close, Else
<1>9. Close.str \notin {Else.str}
  BY TextsDiffer, Zenon DEF Close, Else
<1> QED
  BY <1>1, <1>2, <1>3, <1>4, <1>5, <1>6, <1>7, <1>8, <1>9

(* The text that a node begins with tells its kind, a literal altogether; it is
   none that may stand behind a node. *)
LEMMA OpenersApart ==
  ASSUME NEW m \in Printable, NEW n \in Printable
  PROVE  /\ Opener(m).str = Opener(n).str =>
              m.kind = n.kind /\ (m.kind = "NKEx_LIT" => m.lit = n.lit /\ m.str = n.str)
         /\ Opener(n).str # Close.str /\ Opener(n).str # Else.str
<1>1. \A s, x : D!Text(s).str # D!Texts(x).str
  BY DEF D!Text, D!Texts
<1>2. \A x : D!Texts(x).str \notin {OpenBlock.str, OpenReturn.str, OpenExpr.str, OpenFor.str,
        OpenWhile.str, OpenIf.str, OpenUnary.str, OpenBinary.str, Close.str, Else.str}
  BY <1>1, Zenon
       DEF OpenBlock, OpenReturn, OpenExpr, OpenFor, OpenWhile, OpenIf, OpenUnary, OpenBinary,
       Close, Else
<1>3. \A x, y : D!Texts(x).str = D!Texts(y).str => x.lit = y.lit /\ x.str = y.str
  BY DEF D!Texts
<1>4. m.kind \in ExprKinds \cup StmtKinds /\ n.kind \in ExprKinds \cup StmtKinds
  BY Printables
<1>5. Opener(n).str # Close.str /\ Opener(n).str # Else.str
  BY <1>2, <1>4, MarksDiffer DEF Opener, ExprKinds, StmtKinds
<1>6. ASSUME Opener(m).str = Opener(n).str
      PROVE  m.kind = n.kind
  BY <1>2, <1>4, <1>6, MarksDiffer DEF Opener, ExprKinds, StmtKinds
<1>7. ASSUME Opener(m).str = Opener(n).str, m.kind = "NKEx_LIT"
      PROVE  m.lit = n.lit /\ m.str = n.str
  <2>1. n.kind = "NKEx_LIT"
    BY <1>6, <1>7
  <2>2. Opener(m) = D!Texts(m) /\ Opener(n) = D!Texts(n)
    BY <1>7, <2>1 DEF Opener
  <2> QED
    BY <1>3, <1>7, <2>2
<1> QED
  BY <1>5, <1>6, <1>7

LEMMA OperatorsApart ==
  ASSUME NEW m \in Printable, NEW n \in Printable
  PROVE  /\ m.kind = "NKEx_UNAOP" /\ n.kind = "NKEx_UNAOP" /\ Unary(m).str = Unary(n).str =>
              m.op = n.op
         /\ m.kind = "NKEx_BINOP" /\ n.kind = "NKEx_BINOP" /\ Binary(m).str = Binary(n).str =>
              m.op = n.op
<1>1. /\ m.kind = "NKEx_UNAOP" => m.op \in UnaopKind
      /\ n.kind = "NKEx_UNAOP" => n.op \in UnaopKind
      /\ m.kind = "NKEx_BINOP" => m.op \in BinopKind
      /\ n.kind = "NKEx_BINOP" => n.op \in BinopKind
  BY Printables DEF WellFormed
<1>2. \A x, y \in UnaopKind : D!UnaopkToStr[x] = D!UnaopkToStr[y] => x = y
  BY DEF D!UnaopkToStr, UnaopKind
<1>3. \A x, y \in BinopKind : D!BinopkToStr[x] = D!BinopkToStr[y] => x = y
  BY DEF D!BinopkToStr, BinopKind, ArithKind
<1> QED
  BY <1>1, <1>2, <1>3, TextsDiffer DEF Unary, Binary

-----------------------------------------------------------------------------
(* Behind k there is a place where both rests are read. *)
Meet(F, r, s, k) == \E j \in 1 .. Len(F) + 1 : j > k /\ Reads(F, r, j) /\ Reads(F, s, j)

(* Wherever the rest is read, no else stands there. *)
NoElse(F, r) == \A j \in 1 .. Len(F) : Reads(F, r, j) => F[j] # Else.str
Behind(F, n, r) == n.kind = "NKSt_IF" => NoElse(F, r)

(* Two nodes, or two lists of a block, that are read at the same place are the
   same, and the same comes behind them. *)
SameNode(F, k) ==
  \A m, n \in Printable : \A r, s \in Seq(Piece) :
    /\ Reads(F, Cons(m, r), k) /\ Behind(F, m, r)
    /\ Reads(F, Cons(n, s), k) /\ Behind(F, n, s)
    => m = n /\ Meet(F, r, s, k)

SameList(F, k) ==
  Close \in Piece =>
    \A l, m \in Seq(Stmts(Printable)) : \A r, s \in Seq(Piece) :
      Reads(F, Glue(l, Cons(Close, r)), k) /\ Reads(F, Glue(m, Cons(Close, s)), k)
      => l = m /\ Meet(F, r, s, k)

SameBehind(F, k) == \A j \in 1 .. Len(F) + 1 : j > k => SameNode(F, j) /\ SameList(F, j)

LEMMA MeetText ==
  ASSUME NEW F \in Seq(Word), NEW k \in 1 .. Len(F) + 1,
         NEW t \in Piece, t.kind = "text", NEW r \in Seq(Piece),
         NEW u \in Piece, u.kind = "text", NEW s \in Seq(Piece),
         Meet(F, Cons(t, r), Cons(u, s), k)
  PROVE  t.str = u.str /\ Meet(F, r, s, k)
<1>1. PICK j \in 1 .. Len(F) + 1 : j > k /\ Reads(F, Cons(t, r), j) /\ Reads(F, Cons(u, s), j)
  BY DEF Meet
<1>2. F[j] = t.str /\ Reads(F, r, j + 1) /\ j + 1 \in 1 .. Len(F) + 1
  BY <1>1, ReadText
<1>3. F[j] = u.str /\ Reads(F, s, j + 1)
  BY <1>1, ReadText
<1>4. j + 1 > k
  BY <1>1
<1> QED
  BY <1>2, <1>3, <1>4 DEF Meet

LEMMA MeetNode ==
  ASSUME NEW F \in Seq(Word), NEW k \in 1 .. Len(F) + 1, SameBehind(F, k),
         NEW m \in Printable, NEW r \in Seq(Piece), m.kind # "NKSt_IF",
         NEW n \in Printable, NEW s \in Seq(Piece), n.kind # "NKSt_IF",
         Meet(F, Cons(m, r), Cons(n, s), k)
  PROVE  m = n /\ Meet(F, r, s, k)
<1>1. PICK j \in 1 .. Len(F) + 1 : j > k /\ Reads(F, Cons(m, r), j) /\ Reads(F, Cons(n, s), j)
  BY DEF Meet
<1>2. SameNode(F, j)
  BY <1>1 DEF SameBehind
<1>3. m = n /\ Meet(F, r, s, j)
  BY <1>1, <1>2 DEF SameNode, Behind
<1>4. PICK i \in 1 .. Len(F) + 1 : i > j /\ Reads(F, r, i) /\ Reads(F, s, i)
  BY <1>3 DEF Meet
<1>5. i > k
  BY <1>1, <1>4
<1> QED
  BY <1>3, <1>4, <1>5 DEF Meet

LEMMA MeetList ==
  ASSUME NEW F \in Seq(Word), NEW k \in 1 .. Len(F) + 1, SameBehind(F, k), Close \in Piece,
         NEW l \in Seq(Stmts(Printable)), NEW r \in Seq(Piece),
         NEW m \in Seq(Stmts(Printable)), NEW s \in Seq(Piece),
         Meet(F, Glue(l, Cons(Close, r)), Glue(m, Cons(Close, s)), k)
  PROVE  l = m /\ Meet(F, r, s, k)
<1>1. PICK j \in 1 .. Len(F) + 1 : /\ j > k
                                   /\ Reads(F, Glue(l, Cons(Close, r)), j)
                                   /\ Reads(F, Glue(m, Cons(Close, s)), j)
  BY DEF Meet
<1>2. SameList(F, j)
  BY <1>1 DEF SameBehind
<1>3. l = m /\ Meet(F, r, s, j)
  BY <1>1, <1>2 DEF SameList
<1>4. PICK i \in 1 .. Len(F) + 1 : i > j /\ Reads(F, r, i) /\ Reads(F, s, i)
  BY <1>3 DEF Meet
<1>5. i > k
  BY <1>1, <1>4
<1> QED
  BY <1>3, <1>4, <1>5 DEF Meet

(* Behind the text that a node begins with. *)
LEMMA MeetFirst ==
  ASSUME NEW F \in Seq(Word), NEW k \in 1 .. Len(F) + 1,
         NEW m \in Printable, NEW r \in Seq(Piece), Reads(F, Cons(m, r), k),
         NEW n \in Printable, NEW s \in Seq(Piece), Reads(F, Cons(n, s), k),
         NEW t \in Piece, t.kind = "text",
         NEW x \in Seq(Piece), Glue(D!Pieces(m), r) = Cons(t, x),
         NEW y \in Seq(Piece), Glue(D!Pieces(n), s) = Cons(t, y)
  PROVE  Meet(F, x, y, k)
<1>1. Reads(F, Cons(t, x), k) /\ Reads(F, Cons(t, y), k)
  BY ReadNode
<1>2. k + 1 \in 1 .. Len(F) + 1 /\ Reads(F, x, k + 1) /\ Reads(F, y, k + 1) /\ k + 1 > k
  BY <1>1, ReadText
<1> QED
  BY <1>2 DEF Meet

(* The first text tells the kind, and is no else. *)
LEMMA ReadOpener ==
  ASSUME NEW F \in Seq(Word), NEW k \in 1 .. Len(F) + 1,
         NEW n \in Printable, NEW r \in Seq(Piece), Reads(F, Cons(n, r), k)
  PROVE  k <= Len(F) /\ F[k] = Opener(n).str
<1>1. PICK x \in Seq(Piece) : Glue(D!Pieces(n), r) = Cons(Opener(n), x)
  BY OpensWith
<1>2. Reads(F, Cons(Opener(n), x), k)
  BY <1>1, ReadNode
<1> QED
  BY <1>2, OpensWith, ReadText

LEMMA NoElseNode ==
  ASSUME NEW F \in Seq(Word), NEW n \in Printable, NEW r \in Seq(Piece)
  PROVE  NoElse(F, Cons(n, r))
<1> SUFFICES ASSUME NEW j \in 1 .. Len(F), Reads(F, Cons(n, r), j)
             PROVE  F[j] # Else.str
  BY DEF NoElse
<1>1. j \in 1 .. Len(F) + 1
  BY LenProperties
<1> QED
  BY <1>1, ReadOpener, OpenersApart

LEMMA NoElseClose ==
  ASSUME NEW F \in Seq(Word), NEW r \in Seq(Piece), Close \in Piece
  PROVE  NoElse(F, Cons(Close, r))
<1> SUFFICES ASSUME NEW j \in 1 .. Len(F), Reads(F, Cons(Close, r), j)
             PROVE  F[j] # Else.str
  BY DEF NoElse
<1>1. j \in 1 .. Len(F) + 1
  BY LenProperties
<1>2. F[j] = Close.str
  BY <1>1, ReadText, TextKinds
<1> QED
  BY <1>2, MarksDiffer

-----------------------------------------------------------------------------
(* Node by node: two of one kind that are read at the same place. *)
LEMMA SameUnary ==
  ASSUME NEW F \in Seq(Word), NEW k \in 1 .. Len(F) + 1, SameBehind(F, k),
         NEW m \in Printable, m.kind = "NKEx_UNAOP", NEW r \in Seq(Piece), Reads(F, Cons(m, r), k),
         NEW n \in Printable, n.kind = "NKEx_UNAOP", NEW s \in Seq(Piece), Reads(F, Cons(n, s), k)
  PROVE  m = n /\ Meet(F, r, s, k)
<1> DEFINE x4 == Cons(End, r)
           x3 == Cons(m.expr, x4)
           x2 == Cons(Comma, x3)
           x1 == Cons(Unary(m), x2)
           y4 == Cons(End, s)
           y3 == Cons(n.expr, y4)
           y2 == Cons(Comma, y3)
           y1 == Cons(Unary(n), y2)
<1>1. {OpenUnary, Unary(m), Unary(n), Comma, End} \subseteq Piece
  BY Within
<1>2. /\ {m.expr} \subseteq Printable \cap Piece
      /\ {n.expr} \subseteq Printable \cap Piece
  BY ChildPieces, ChildrenOf
<1>3. /\ m.expr.kind # "NKSt_IF"
      /\ n.expr.kind # "NKSt_IF"
  BY ChildPieces, ChildrenOf DEF ExprKinds
<1>4. /\ Glue(D!Pieces(m), r) = Cons(OpenUnary, x1)
      /\ Glue(D!Pieces(n), s) = Cons(OpenUnary, y1)
  BY Laid
<1>5. x4 \in Seq(Piece) /\ y4 \in Seq(Piece)
  BY <1>1, <1>2, ConsSeq
<1>6. x3 \in Seq(Piece) /\ y3 \in Seq(Piece)
  <2> HIDE DEF x4, y4
  <2> QED
    BY <1>1, <1>2, <1>5, ConsSeq
<1>7. x2 \in Seq(Piece) /\ y2 \in Seq(Piece)
  <2> HIDE DEF x3, y3
  <2> QED
    BY <1>1, <1>2, <1>6, ConsSeq
<1>8. x1 \in Seq(Piece) /\ y1 \in Seq(Piece)
  <2> HIDE DEF x2, y2
  <2> QED
    BY <1>1, <1>2, <1>7, ConsSeq
<1> HIDE DEF x1, y1, x2, y2, x3, y3, x4, y4
<1>9. Meet(F, x1, y1, k)
  BY <1>1, <1>4, <1>8, MeetFirst, TextKinds
<1>10. Unary(m).str = Unary(n).str /\ Meet(F, x2, y2, k)
  BY <1>1, <1>9, <1>7, MeetText, TextKinds DEF x1, y1
<1>11. Meet(F, x3, y3, k)
  BY <1>1, <1>10, <1>6, MeetText, TextKinds DEF x2, y2
<1>12. m.expr = n.expr /\ Meet(F, x4, y4, k)
  BY <1>2, <1>3, <1>11, <1>5, MeetNode DEF x3, y3
<1>13. Meet(F, r, s, k)
  BY <1>1, <1>12, MeetText, TextKinds DEF x4, y4
<1>14. m = NewUnary(m.op, m.expr) /\ n = NewUnary(n.op, n.expr)
  BY Printables DEF Constructed
<1>15. m.op = n.op
  BY <1>10, OperatorsApart
<1> QED
  BY <1>14, <1>15, <1>13, <1>12

LEMMA SameBinary ==
  ASSUME NEW F \in Seq(Word), NEW k \in 1 .. Len(F) + 1, SameBehind(F, k),
         NEW m \in Printable, m.kind = "NKEx_BINOP", NEW r \in Seq(Piece), Reads(F, Cons(m, r), k),
         NEW n \in Printable, n.kind = "NKEx_BINOP", NEW s \in Seq(Piece), Reads(F, Cons(n, s), k)
  PROVE  m = n /\ Meet(F, r, s, k)
<1> DEFINE x6 == Cons(End, r)
           x5 == Cons(m.right, x6)
           x4 == Cons(Comma, x5)
           x3 == Cons(m.left, x4)
           x2 == Cons(Comma, x3)
           x1 == Cons(Binary(m), x2)
           y6 == Cons(End, s)
           y5 == Cons(n.right, y6)
           y4 == Cons(Comma, y5)
           y3 == Cons(n.left, y4)
           y2 == Cons(Comma, y3)
           y1 == Cons(Binary(n), y2)
<1>1. {OpenBinary, Binary(m), Binary(n), Comma, End} \subseteq Piece
  BY Within
<1>2. /\ {m.left, m.right} \subseteq Printable \cap Piece
      /\ {n.left, n.right} \subseteq Printable \cap Piece
  BY ChildPieces, ChildrenOf
<1>3. /\ m.left.kind # "NKSt_IF" /\ m.right.kind # "NKSt_IF"
      /\ n.left.kind # "NKSt_IF" /\ n.right.kind # "NKSt_IF"
  BY ChildPieces, ChildrenOf DEF ExprKinds
<1>4. /\ Glue(D!Pieces(m), r) = Cons(OpenBinary, x1)
      /\ Glue(D!Pieces(n), s) = Cons(OpenBinary, y1)
  BY Laid
<1>5. x6 \in Seq(Piece) /\ y6 \in Seq(Piece)
  BY <1>1, <1>2, ConsSeq
<1>6. x5 \in Seq(Piece) /\ y5 \in Seq(Piece)
  <2> HIDE DEF x6, y6
  <2> QED
    BY <1>1, <1>2, <1>5, ConsSeq
<1>7. x4 \in Seq(Piece) /\ y4 \in Seq(Piece)
  <2> HIDE DEF x5, y5
  <2> QED
    BY <1>1, <1>2, <1>6, ConsSeq
<1>8. x3 \in Seq(Piece) /\ y3 \in Seq(Piece)
  <2> HIDE DEF x4, y4
  <2> QED
    BY <1>1, <1>2, <1>7, ConsSeq
<1>9. x2 \in Seq(Piece) /\ y2 \in Seq(Piece)
  <2> HIDE DEF x3, y3
  <2> QED
    BY <1>1, <1>2, <1>8, ConsSeq
<1>10. x1 \in Seq(Piece) /\ y1 \in Seq(Piece)
  <2> HIDE DEF x2, y2
  <2> QED
    BY <1>1, <1>2, <1>9, ConsSeq
<1> HIDE DEF x1, y1, x2, y2, x3, y3, x4, y4, x5, y5, x6, y6
<1>11. Meet(F, x1, y1, k)
  BY <1>1, <1>4, <1>10, MeetFirst, TextKinds
<1>12. Binary(m).str = Binary(n).str /\ Meet(F, x2, y2, k)
  BY <1>1, <1>11, <1>9, MeetText, TextKinds DEF x1, y1
<1>13. Meet(F, x3, y3, k)
  BY <1>1, <1>12, <1>8, MeetText, TextKinds DEF x2, y2
<1>14. m.left = n.left /\ Meet(F, x4, y4, k)
  BY <1>2, <1>3, <1>13, <1>7, MeetNode DEF x3, y3
<1>15. Meet(F, x5, y5, k)
  BY <1>1, <1>14, <1>6, MeetText, TextKinds DEF x4, y4
<1>16. m.right = n.right /\ Meet(F, x6, y6, k)
  BY <1>2, <1>3, <1>15, <1>5, MeetNode DEF x5, y5
<1>17. Meet(F, r, s, k)
  BY <1>1, <1>16, MeetText, TextKinds DEF x6, y6
<1>18. m = NewBinop(m.op, m.left, m.right) /\ n = NewBinop(n.op, n.left, n.right)
  BY Printables DEF Constructed
<1>19. m.op = n.op
  BY <1>12, OperatorsApart
<1> QED
  BY <1>18, <1>19, <1>17, <1>14, <1>16

LEMMA SameReturn ==
  ASSUME NEW F \in Seq(Word), NEW k \in 1 .. Len(F) + 1, SameBehind(F, k),
         NEW m \in Printable, m.kind = "NKSt_RETURN", NEW r \in Seq(Piece), Reads(F, Cons(m, r), k),
         NEW n \in Printable, n.kind = "NKSt_RETURN", NEW s \in Seq(Piece), Reads(F, Cons(n, s), k)
  PROVE  m = n /\ Meet(F, r, s, k)
<1> DEFINE x2 == Cons(Close, r)
           x1 == Cons(m.expr, x2)
           y2 == Cons(Close, s)
           y1 == Cons(n.expr, y2)
<1>1. {OpenReturn, Close} \subseteq Piece
  BY Within
<1>2. /\ {m.expr} \subseteq Printable \cap Piece
      /\ {n.expr} \subseteq Printable \cap Piece
  BY ChildPieces, ChildrenOf
<1>3. /\ m.expr.kind # "NKSt_IF"
      /\ n.expr.kind # "NKSt_IF"
  BY ChildPieces, ChildrenOf DEF ExprKinds
<1>4. /\ Glue(D!Pieces(m), r) = Cons(OpenReturn, x1)
      /\ Glue(D!Pieces(n), s) = Cons(OpenReturn, y1)
  BY Laid
<1>5. x2 \in Seq(Piece) /\ y2 \in Seq(Piece)
  BY <1>1, <1>2, ConsSeq
<1>6. x1 \in Seq(Piece) /\ y1 \in Seq(Piece)
  <2> HIDE DEF x2, y2
  <2> QED
    BY <1>1, <1>2, <1>5, ConsSeq
<1> HIDE DEF x1, y1, x2, y2
<1>7. Meet(F, x1, y1, k)
  BY <1>1, <1>4, <1>6, MeetFirst, TextKinds
<1>8. m.expr = n.expr /\ Meet(F, x2, y2, k)
  BY <1>2, <1>3, <1>7, <1>5, MeetNode DEF x1, y1
<1>9. Meet(F, r, s, k)
  BY <1>1, <1>8, MeetText, TextKinds DEF x2, y2
<1>10. m = NewStReturn(m.expr) /\ n = NewStReturn(n.expr)
  BY Printables DEF Constructed
<1> QED
  BY <1>10, <1>9, <1>8

LEMMA SameExpr ==
  ASSUME NEW F \in Seq(Word), NEW k \in 1 .. Len(F) + 1, SameBehind(F, k),
         NEW m \in Printable, m.kind = "NKSt_EXPR", NEW r \in Seq(Piece), Reads(F, Cons(m, r), k),
         NEW n \in Printable, n.kind = "NKSt_EXPR", NEW s \in Seq(Piece), Reads(F, Cons(n, s), k)
  PROVE  m = n /\ Meet(F, r, s, k)
<1> DEFINE x2 == Cons(Close, r)
           x1 == Cons(m.expr, x2)
           y2 == Cons(Close, s)
           y1 == Cons(n.expr, y2)
<1>1. {OpenExpr, Close} \subseteq Piece
  BY Within
<1>2. /\ {m.expr} \subseteq Printable \cap Piece
      /\ {n.expr} \subseteq Printable \cap Piece
  BY ChildPieces, ChildrenOf
<1>3. /\ m.expr.kind # "NKSt_IF"
      /\ n.expr.kind # "NKSt_IF"
  BY ChildPieces, ChildrenOf DEF ExprKinds
<1>4. /\ Glue(D!Pieces(m), r) = Cons(OpenExpr, x1)
      /\ Glue(D!Pieces(n), s) = Cons(OpenExpr, y1)
  BY Laid
<1>5. x2 \in Seq(Piece) /\ y2 \in Seq(Piece)
  BY <1>1, <1>2, ConsSeq
<1>6. x1 \in Seq(Piece) /\ y1 \in Seq(Piece)
  <2> HIDE DEF x2, y2
  <2> QED
    BY <1>1, <1>2, <1>5, ConsSeq
<1> HIDE DEF x1, y1, x2, y2
<1>7. Meet(F, x1, y1, k)
  BY <1>1, <1>4, <1>6, MeetFirst, TextKinds
<1>8. m.expr = n.expr /\ Meet(F, x2, y2, k)
  BY <1>2, <1>3, <1>7, <1>5, MeetNode DEF x1, y1
<1>9. Meet(F, r, s, k)
  BY <1>1, <1>8, MeetText, TextKinds DEF x2, y2
<1>10. m = NewStExpr(m.expr) /\ n = NewStExpr(n.expr)
  BY Printables DEF Constructed
<1> QED
  BY <1>10, <1>9, <1>8

LEMMA SameFor ==
  ASSUME NEW F \in Seq(Word), NEW k \in 1 .. Len(F) + 1, SameBehind(F, k),
         NEW m \in Printable, m.kind = "NKSt_FOR", NEW r \in Seq(Piece), Reads(F, Cons(m, r), k),
         NEW n \in Printable, n.kind = "NKSt_FOR", NEW s \in Seq(Piece), Reads(F, Cons(n, s), k)
  PROVE  m = n /\ Meet(F, r, s, k)
<1> DEFINE x7 == Cons(m.block, r)
           x6 == Cons(Then, x7)
           x5 == Cons(m.post, x6)
           x4 == Cons(Semicolon, x5)
           x3 == Cons(m.cond, x4)
           x2 == Cons(Semicolon, x3)
           x1 == Cons(m.init, x2)
           y7 == Cons(n.block, s)
           y6 == Cons(Then, y7)
           y5 == Cons(n.post, y6)
           y4 == Cons(Semicolon, y5)
           y3 == Cons(n.cond, y4)
           y2 == Cons(Semicolon, y3)
           y1 == Cons(n.init, y2)
<1>1. {OpenFor, Semicolon, Then} \subseteq Piece
  BY Within
<1>2. /\ {m.init, m.cond, m.post, m.block} \subseteq Printable \cap Piece
      /\ {n.init, n.cond, n.post, n.block} \subseteq Printable \cap Piece
  BY ChildPieces, ChildrenOf
<1>3. /\ m.init.kind # "NKSt_IF" /\ m.cond.kind # "NKSt_IF"
      /\ m.post.kind # "NKSt_IF" /\ m.block.kind # "NKSt_IF"
      /\ n.init.kind # "NKSt_IF" /\ n.cond.kind # "NKSt_IF"
      /\ n.post.kind # "NKSt_IF" /\ n.block.kind # "NKSt_IF"
  BY ChildPieces, ChildrenOf DEF ExprKinds
<1>4. /\ Glue(D!Pieces(m), r) = Cons(OpenFor, x1)
      /\ Glue(D!Pieces(n), s) = Cons(OpenFor, y1)
  BY Laid
<1>5. x7 \in Seq(Piece) /\ y7 \in Seq(Piece)
  BY <1>1, <1>2, ConsSeq
<1>6. x6 \in Seq(Piece) /\ y6 \in Seq(Piece)
  <2> HIDE DEF x7, y7
  <2> QED
    BY <1>1, <1>2, <1>5, ConsSeq
<1>7. x5 \in Seq(Piece) /\ y5 \in Seq(Piece)
  <2> HIDE DEF x6, y6
  <2> QED
    BY <1>1, <1>2, <1>6, ConsSeq
<1>8. x4 \in Seq(Piece) /\ y4 \in Seq(Piece)
  <2> HIDE DEF x5, y5
  <2> QED
    BY <1>1, <1>2, <1>7, ConsSeq
<1>9. x3 \in Seq(Piece) /\ y3 \in Seq(Piece)
  <2> HIDE DEF x4, y4
  <2> QED
    BY <1>1, <1>2, <1>8, ConsSeq
<1>10. x2 \in Seq(Piece) /\ y2 \in Seq(Piece)
  <2> HIDE DEF x3, y3
  <2> QED
    BY <1>1, <1>2, <1>9, ConsSeq
<1>11. x1 \in Seq(Piece) /\ y1 \in Seq(Piece)
  <2> HIDE DEF x2, y2
  <2> QED
    BY <1>1, <1>2, <1>10, ConsSeq
<1> HIDE DEF x1, y1, x2, y2, x3, y3, x4, y4, x5, y5, x6, y6, x7, y7
<1>12. Meet(F, x1, y1, k)
  BY <1>1, <1>4, <1>11, MeetFirst, TextKinds
<1>13. m.init = n.init /\ Meet(F, x2, y2, k)
  BY <1>2, <1>3, <1>12, <1>10, MeetNode DEF x1, y1
<1>14. Meet(F, x3, y3, k)
  BY <1>1, <1>13, <1>9, MeetText, TextKinds DEF x2, y2
<1>15. m.cond = n.cond /\ Meet(F, x4, y4, k)
  BY <1>2, <1>3, <1>14, <1>8, MeetNode DEF x3, y3
<1>16. Meet(F, x5, y5, k)
  BY <1>1, <1>15, <1>7, MeetText, TextKinds DEF x4, y4
<1>17. m.post = n.post /\ Meet(F, x6, y6, k)
  BY <1>2, <1>3, <1>16, <1>6, MeetNode DEF x5, y5
<1>18. Meet(F, x7, y7, k)
  BY <1>1, <1>17, <1>5, MeetText, TextKinds DEF x6, y6
<1>19. m.block = n.block /\ Meet(F, r, s, k)
  BY <1>2, <1>3, <1>18, MeetNode DEF x7, y7
<1>20. /\ m = NewStFor(m.init, m.cond, m.post, m.block)
       /\ n = NewStFor(n.init, n.cond, n.post, n.block)
  BY Printables DEF Constructed
<1> QED
  BY <1>20, <1>19, <1>13, <1>15, <1>17

LEMMA SameWhile ==
  ASSUME NEW F \in Seq(Word), NEW k \in 1 .. Len(F) + 1, SameBehind(F, k),
         NEW m \in Printable, m.kind = "NKSt_FOR_WHILE",
         NEW r \in Seq(Piece), Reads(F, Cons(m, r), k),
         NEW n \in Printable, n.kind = "NKSt_FOR_WHILE",
         NEW s \in Seq(Piece), Reads(F, Cons(n, s), k)
  PROVE  m = n /\ Meet(F, r, s, k)
<1> DEFINE x3 == Cons(m.block, r)
           x2 == Cons(Then, x3)
           x1 == Cons(m.cond, x2)
           y3 == Cons(n.block, s)
           y2 == Cons(Then, y3)
           y1 == Cons(n.cond, y2)
<1>1. {OpenWhile, Then} \subseteq Piece
  BY Within
<1>2. /\ {m.cond, m.block} \subseteq Printable \cap Piece
      /\ {n.cond, n.block} \subseteq Printable \cap Piece
  BY ChildPieces, ChildrenOf
<1>3. /\ m.cond.kind # "NKSt_IF" /\ m.block.kind # "NKSt_IF"
      /\ n.cond.kind # "NKSt_IF" /\ n.block.kind # "NKSt_IF"
  BY ChildPieces, ChildrenOf DEF ExprKinds
<1>4. /\ Glue(D!Pieces(m), r) = Cons(OpenWhile, x1)
      /\ Glue(D!Pieces(n), s) = Cons(OpenWhile, y1)
  BY Laid
<1>5. x3 \in Seq(Piece) /\ y3 \in Seq(Piece)
  BY <1>1, <1>2, ConsSeq
<1>6. x2 \in Seq(Piece) /\ y2 \in Seq(Piece)
  <2> HIDE DEF x3, y3
  <2> QED
    BY <1>1, <1>2, <1>5, ConsSeq
<1>7. x1 \in Seq(Piece) /\ y1 \in Seq(Piece)
  <2> HIDE DEF x2, y2
  <2> QED
    BY <1>1, <1>2, <1>6, ConsSeq
<1> HIDE DEF x1, y1, x2, y2, x3, y3
<1>8. Meet(F, x1, y1, k)
  BY <1>1, <1>4, <1>7, MeetFirst, TextKinds
<1>9. m.cond = n.cond /\ Meet(F, x2, y2, k)
  BY <1>2, <1>3, <1>8, <1>6, MeetNode DEF x1, y1
<1>10. Meet(F, x3, y3, k)
  BY <1>1, <1>9, <1>5, MeetText, TextKinds DEF x2, y2
<1>11. m.block = n.block /\ Meet(F, r, s, k)
  BY <1>2, <1>3, <1>10, MeetNode DEF x3, y3
<1>12. m = NewStForWhile(m.cond, m.block) /\ n = NewStForWhile(n.cond, n.block)
  BY Printables DEF Constructed
<1> QED
  BY <1>12, <1>11, <1>9

LEMMA SameLit ==
  ASSUME NEW F \in Seq(Word), NEW k \in 1 .. Len(F) + 1,
         NEW m \in Printable, m.kind = "NKEx_LIT", NEW r \in Seq(Piece), Reads(F, Cons(m, r), k),
         NEW n \in Printable, n.kind = "NKEx_LIT", NEW s \in Seq(Piece), Reads(F, Cons(n, s), k)
  PROVE  m = n /\ Meet(F, r, s, k)
<1>1. m = NewLit(m.lit, m.str) /\ n = NewLit(n.lit, n.str)
  BY Printables DEF Constructed
<1>2. F[k] = Opener(m).str /\ F[k] = Opener(n).str
  BY ReadOpener
<1>3. m = n
  <2>1. Opener(m).str = Opener(n).str
    BY <1>2
  <2>2. m.lit = n.lit /\ m.str = n.str
    BY <2>1, OpenersApart
  <2> QED
    BY <1>1, <2>2
<1> DEFINE t == D!Texts(m)
<1>4. /\ t \in Piece /\ t.kind = "text"
      /\ Glue(D!Pieces(m), r) = Cons(t, r) /\ Glue(D!Pieces(n), s) = Cons(t, s)
  BY <1>3, Laid, TextKinds
<1> HIDE DEF t
<1>5. Meet(F, r, s, k)
  BY <1>4, MeetFirst
<1> QED
  BY <1>3, <1>5

LEMMA SameBlock ==
  ASSUME NEW F \in Seq(Word), NEW k \in 1 .. Len(F) + 1, SameBehind(F, k),
         NEW m \in Printable, m.kind = "NKSt_BLOCK", NEW r \in Seq(Piece), Reads(F, Cons(m, r), k),
         NEW n \in Printable, n.kind = "NKSt_BLOCK", NEW s \in Seq(Piece), Reads(F, Cons(n, s), k)
  PROVE  m = n /\ Meet(F, r, s, k)
<1> DEFINE x == Glue(m.list, Cons(Close, r))
           y == Glue(n.list, Cons(Close, s))
<1>1. OpenBlock \in Piece /\ Close \in Piece
  BY Within
<1>2. m.list \in Seq(Stmts(Printable)) /\ n.list \in Seq(Stmts(Printable))
  BY ChildPieces
<1>3. /\ Glue(D!Pieces(m), r) = Cons(OpenBlock, x)
      /\ Glue(D!Pieces(n), s) = Cons(OpenBlock, y)
  BY Laid
<1>4. x \in Seq(Piece) /\ y \in Seq(Piece)
  <2>1. Cons(Close, r) \in Seq(Piece) /\ Cons(Close, s) \in Seq(Piece)
    BY <1>1, ConsSeq
  <2> QED
    BY <1>2, <2>1, ListSeq
<1> HIDE DEF x, y
<1>5. Meet(F, x, y, k)
  BY <1>1, <1>3, <1>4, MeetFirst, TextKinds
<1>6. m.list = n.list /\ Meet(F, r, s, k)
  BY <1>1, <1>2, <1>5, MeetList DEF x, y
<1>7. m = NewStBlock(m.list) /\ n = NewStBlock(n.list)
  BY Printables DEF Constructed
<1> QED
  BY <1>6, <1>7

(* What stands behind the block of an if. *)
Branch(n, r) == IF n.ifnot = NULL THEN r ELSE Cons(Else, Cons(n.ifnot, r))

LEMMA BranchType ==
  ASSUME NEW n \in Printable, n.kind = "NKSt_IF", NEW r \in Seq(Piece)
  PROVE  /\ Branch(n, r) \in Seq(Piece)
         /\ Glue(D!Pieces(n), r) =
              Cons(OpenIf, Cons(n.cond, Cons(Then, Cons(n.block, Branch(n, r)))))
<1>1. CASE n.ifnot = NULL
  BY <1>1, Laid DEF Branch
<1>2. CASE n.ifnot # NULL
  <2>1. Else \in Piece /\ n.ifnot \in Piece
    BY <1>2, Within
  <2>2. Branch(n, r) = Cons(Else, Cons(n.ifnot, r))
    BY <1>2 DEF Branch
  <2>3. Branch(n, r) \in Seq(Piece)
    BY <2>1, <2>2, ConsSeq
  <2> QED
    BY <1>2, <2>2, <2>3, Laid
<1> QED
  BY <1>1, <1>2

(* No if without an else is read where another has one. *)
LEMMA ElseApart ==
  ASSUME NEW F \in Seq(Word), NEW k \in 1 .. Len(F) + 1,
         NEW n \in Printable, NEW r \in Seq(Piece), NoElse(F, r),
         NEW s \in Seq(Piece), Else \in Piece, n \in Piece
  PROVE  /\ ~Meet(F, r, Cons(Else, Cons(n, s)), k)
         /\ ~Meet(F, Cons(Else, Cons(n, s)), r, k)
<1> DEFINE x == Cons(n, s)
<1>1. x \in Seq(Piece)
  BY ConsSeq
<1> HIDE DEF x
<1>2. ASSUME NEW j \in 1 .. Len(F) + 1, Reads(F, r, j), Reads(F, Cons(Else, x), j)
      PROVE  FALSE
  <2>1. j <= Len(F) /\ F[j] = Else.str
    BY <1>1, <1>2, ReadText, TextKinds
  <2>2. j \in 1 .. Len(F)
    BY <2>1, LenProperties
  <2> QED
    BY <1>2, <2>1, <2>2 DEF NoElse
<1> QED
  BY <1>2 DEF Meet, x

LEMMA SameIf ==
  ASSUME NEW F \in Seq(Word), NEW k \in 1 .. Len(F) + 1, SameBehind(F, k),
         NEW m \in Printable, m.kind = "NKSt_IF", NEW r \in Seq(Piece), Reads(F, Cons(m, r), k),
         NEW n \in Printable, n.kind = "NKSt_IF", NEW s \in Seq(Piece), Reads(F, Cons(n, s), k),
         NoElse(F, r), NoElse(F, s)
  PROVE  m = n /\ Meet(F, r, s, k)
<1> DEFINE x4 == Branch(m, r)
           x3 == Cons(m.block, x4)
           x2 == Cons(Then, x3)
           x1 == Cons(m.cond, x2)
           y4 == Branch(n, s)
           y3 == Cons(n.block, y4)
           y2 == Cons(Then, y3)
           y1 == Cons(n.cond, y2)
<1>1. {OpenIf, Then} \subseteq Piece
  BY Within
<1>2. /\ {m.cond, m.block} \subseteq Printable \cap Piece
      /\ {n.cond, n.block} \subseteq Printable \cap Piece
  BY ChildPieces, ChildrenOf
<1>3. /\ m.cond.kind # "NKSt_IF" /\ m.block.kind # "NKSt_IF"
      /\ n.cond.kind # "NKSt_IF" /\ n.block.kind # "NKSt_IF"
  BY ChildPieces, ChildrenOf DEF ExprKinds
<1>4. /\ Glue(D!Pieces(m), r) = Cons(OpenIf, x1) /\ x4 \in Seq(Piece)
      /\ Glue(D!Pieces(n), s) = Cons(OpenIf, y1) /\ y4 \in Seq(Piece)
  BY BranchType
<1> HIDE DEF x4, y4
<1>5. x3 \in Seq(Piece) /\ y3 \in Seq(Piece)
  BY <1>2, <1>4, ConsSeq
<1> HIDE DEF x3, y3
<1>6. x2 \in Seq(Piece) /\ y2 \in Seq(Piece)
  BY <1>1, <1>5, ConsSeq
<1> HIDE DEF x2, y2
<1>7. x1 \in Seq(Piece) /\ y1 \in Seq(Piece)
  BY <1>2, <1>6, ConsSeq
<1> HIDE DEF x1, y1
<1>8. Meet(F, x1, y1, k)
  BY <1>1, <1>4, <1>7, MeetFirst, TextKinds
<1>9. m.cond = n.cond /\ Meet(F, x2, y2, k)
  BY <1>2, <1>3, <1>6, <1>8, MeetNode DEF x1, y1
<1>10. Meet(F, x3, y3, k)
  BY <1>1, <1>5, <1>9, MeetText, TextKinds DEF x2, y2
<1>11. m.block = n.block /\ Meet(F, x4, y4, k)
  BY <1>2, <1>3, <1>4, <1>10, MeetNode DEF x3, y3
<1>12. m.ifnot = n.ifnot /\ Meet(F, r, s, k)
  <2>1. CASE m.ifnot = NULL /\ n.ifnot = NULL
    BY <1>11, <2>1 DEF x4, y4, Branch
  <2>2. CASE m.ifnot = NULL /\ n.ifnot # NULL
    <3>1. n.ifnot \in Printable /\ n.ifnot \in Piece /\ Else \in Piece
      BY <2>2, ChildPieces, ChildrenOf, Within
    <3>2. Meet(F, r, Cons(Else, Cons(n.ifnot, s)), k)
      BY <1>11, <2>2 DEF x4, y4, Branch
    <3> QED
      BY <3>1, <3>2, ElseApart
  <2>3. CASE m.ifnot # NULL /\ n.ifnot = NULL
    <3>1. m.ifnot \in Printable /\ m.ifnot \in Piece /\ Else \in Piece
      BY <2>3, ChildPieces, ChildrenOf, Within
    <3>2. Meet(F, Cons(Else, Cons(m.ifnot, r)), s, k)
      BY <1>11, <2>3 DEF x4, y4, Branch
    <3> QED
      BY <3>1, <3>2, ElseApart
  <2>4. CASE m.ifnot # NULL /\ n.ifnot # NULL
    <3> DEFINE x == Cons(m.ifnot, r)
               y == Cons(n.ifnot, s)
    <3>1. m.ifnot \in Blocks(Printable) /\ n.ifnot \in Blocks(Printable) /\ Else \in Piece
      BY <2>4, ChildPieces, Within
    <3>2. /\ m.ifnot \in Printable \cap Piece /\ m.ifnot.kind # "NKSt_IF"
          /\ n.ifnot \in Printable \cap Piece /\ n.ifnot.kind # "NKSt_IF"
      BY <3>1, ChildrenOf
    <3>3. x \in Seq(Piece) /\ y \in Seq(Piece)
      BY <3>2, ConsSeq
    <3>4. Meet(F, Cons(Else, x), Cons(Else, y), k)
      BY <1>11, <2>4 DEF x4, y4, Branch
    <3> HIDE DEF x, y
    <3>5. Meet(F, x, y, k)
      BY <3>1, <3>3, <3>4, MeetText, TextKinds
    <3> QED
      BY <3>2, <3>5, MeetNode DEF x, y
  <2> QED
    BY <2>1, <2>2, <2>3, <2>4
<1>13. m = NewStIf(m.cond, m.block, m.ifnot) /\ n = NewStIf(n.cond, n.block, n.ifnot)
  BY Printables DEF Constructed
<1> QED
  BY <1>9, <1>11, <1>12, <1>13

LEMMA NodeStep ==
  ASSUME NEW F \in Seq(Word), NEW k \in 1 .. Len(F) + 1, SameBehind(F, k)
  PROVE  SameNode(F, k)
<1> SUFFICES ASSUME NEW m \in Printable,
                    NEW r \in Seq(Piece), Reads(F, Cons(m, r), k), Behind(F, m, r),
                    NEW n \in Printable,
                    NEW s \in Seq(Piece), Reads(F, Cons(n, s), k), Behind(F, n, s)
             PROVE  m = n /\ Meet(F, r, s, k)
  BY DEF SameNode
<1>1. F[k] = Opener(m).str /\ F[k] = Opener(n).str
  BY ReadOpener
<1>2. m.kind = n.kind
  <2>1. Opener(m).str = Opener(n).str
    BY <1>1
  <2> QED
    BY <2>1, OpenersApart
<1>3. m.kind \in ExprKinds \cup StmtKinds
  BY Printables
<1>4. CASE m.kind = "NKEx_LIT"
  BY <1>2, <1>4, SameLit
<1>5. CASE m.kind = "NKEx_UNAOP"
  BY <1>2, <1>5, SameUnary
<1>6. CASE m.kind = "NKEx_BINOP"
  BY <1>2, <1>6, SameBinary
<1>7. CASE m.kind = "NKSt_RETURN"
  BY <1>2, <1>7, SameReturn
<1>8. CASE m.kind = "NKSt_EXPR"
  BY <1>2, <1>8, SameExpr
<1>9. CASE m.kind = "NKSt_BLOCK"
  BY <1>2, <1>9, SameBlock
<1>10. CASE m.kind = "NKSt_IF"
  BY <1>2, <1>10, SameIf DEF Behind
<1>11. CASE m.kind = "NKSt_FOR"
  BY <1>2, <1>11, SameFor
<1>12. CASE m.kind = "NKSt_FOR_WHILE"
  BY <1>2, <1>12, SameWhile
<1> QED
  BY <1>3, <1>4, <1>5, <1>6, <1>7, <1>8, <1>9, <1>10, <1>11, <1>12 DEF ExprKinds, StmtKinds

(* A list is empty, or begins with a statement, behind which no else stands. *)
LEMMA ListSplit ==
  ASSUME NEW F \in Seq(Word), NEW l \in Seq(Stmts(Printable)), NEW r \in Seq(Piece), Close \in Piece
  PROVE  LET x == Glue(l, Cons(Close, r))
         IN  /\ NoElse(F, x)
             /\ \/ l = << >> /\ x = Cons(Close, r)
                \/ \E n \in Printable : \E t \in Seq(Stmts(Printable)) :
                     l = <<n>> \o t /\ x = Cons(n, Glue(t, Cons(Close, r)))
<1> DEFINE z == Cons(Close, r)
<1>1. z \in Seq(Piece)
  BY ConsSeq
<1>2. NoElse(F, z)
  BY NoElseClose
<1> HIDE DEF z
<1>3. CASE l = << >>
  <2>1. Glue(l, z) = z
    BY <1>1, <1>3, GlueEmpty
  <2> QED
    BY <1>2, <1>3, <2>1 DEF z
<1>4. CASE l # << >>
  <2>1. PICK n \in Stmts(Printable), t \in Seq(Stmts(Printable)) : l = <<n>> \o t
    BY <1>4, HeadOf
  <2>2. n \in Printable /\ n \in Piece /\ Stmts(Printable) \subseteq Piece
    BY ChildrenOf
  <2>3. t \in Seq(Piece)
    BY <2>2, SeqMonotonic
  <2>4. Glue(l, z) = Cons(n, Glue(t, z))
    BY <1>1, <2>1, <2>2, <2>3, GlueCons
  <2>5. Glue(t, z) \in Seq(Piece)
    BY <1>1, <2>3, GlueType
  <2>6. NoElse(F, Glue(l, z))
    BY <2>2, <2>4, <2>5, NoElseNode
  <2> QED
    BY <2>1, <2>2, <2>4, <2>6 DEF z
<1> QED
  BY <1>3, <1>4

LEMMA ListStep ==
  ASSUME NEW F \in Seq(Word), NEW k \in 1 .. Len(F) + 1, SameBehind(F, k), SameNode(F, k)
  PROVE  SameList(F, k)
<1> SUFFICES ASSUME Close \in Piece,
                    NEW l \in Seq(Stmts(Printable)), NEW r \in Seq(Piece),
                    NEW m \in Seq(Stmts(Printable)), NEW s \in Seq(Piece),
                    Reads(F, Glue(l, Cons(Close, r)), k), Reads(F, Glue(m, Cons(Close, s)), k)
             PROVE  l = m /\ Meet(F, r, s, k)
  BY DEF SameList
<1> DEFINE x == Cons(Close, r)
           y == Cons(Close, s)
<1>1. x \in Seq(Piece) /\ y \in Seq(Piece)
  BY ConsSeq
<1>2. k + 1 > k /\ k \in Nat
  OBVIOUS
<1>3. ASSUME NEW q \in Seq(Piece), Reads(F, Cons(Close, q), k)
      PROVE  F[k] = Close.str /\ k + 1 \in 1 .. Len(F) + 1 /\ Reads(F, q, k + 1)
  BY <1>3, ReadText, TextKinds
<1>4. ASSUME NEW n \in Printable, NEW q \in Seq(Piece), Reads(F, Cons(n, q), k)
      PROVE  F[k] # Close.str
  BY <1>4, ReadOpener, OpenersApart
<1>5. CASE l = << >> /\ m = << >>
  <2>1. Glue(l, x) = x /\ Glue(m, y) = y
    <3> HIDE DEF x, y
    <3> QED
      BY <1>1, <1>5, GlueEmpty
  <2>2. Reads(F, r, k + 1) /\ Reads(F, s, k + 1) /\ k + 1 \in 1 .. Len(F) + 1
    BY <1>3, <2>1
  <2> QED
    BY <1>2, <1>5, <2>2 DEF Meet
<1>6. CASE l # << >> /\ m = << >>
  <2>1. Glue(m, y) = y
    <3> HIDE DEF x, y
    <3> QED
      BY <1>1, <1>6, GlueEmpty
  <2>2. F[k] = Close.str
    BY <1>3, <2>1
  <2>3. PICK n \in Printable, t \in Seq(Stmts(Printable)) : Glue(l, x) = Cons(n, Glue(t, x))
    BY <1>6, ListSplit
  <2>4. Glue(t, x) \in Seq(Piece)
    BY <1>1, ListSeq
  <2> QED
    BY <1>4, <2>2, <2>3, <2>4
<1>7. CASE l = << >> /\ m # << >>
  <2>1. Glue(l, x) = x
    <3> HIDE DEF x, y
    <3> QED
      BY <1>1, <1>7, GlueEmpty
  <2>2. F[k] = Close.str
    BY <1>3, <2>1
  <2>3. PICK n \in Printable, t \in Seq(Stmts(Printable)) : Glue(m, y) = Cons(n, Glue(t, y))
    BY <1>7, ListSplit
  <2>4. Glue(t, y) \in Seq(Piece)
    BY <1>1, ListSeq
  <2> QED
    BY <1>4, <2>2, <2>3, <2>4
<1>8. CASE l # << >> /\ m # << >>
  <2>1. PICK a \in Printable, t \in Seq(Stmts(Printable)) :
          l = <<a>> \o t /\ Glue(l, x) = Cons(a, Glue(t, x))
    BY <1>8, ListSplit
  <2>2. PICK b \in Printable, u \in Seq(Stmts(Printable)) :
          m = <<b>> \o u /\ Glue(m, y) = Cons(b, Glue(u, y))
    BY <1>8, ListSplit
  <2>3. /\ Glue(t, x) \in Seq(Piece) /\ NoElse(F, Glue(t, x))
        /\ Glue(u, y) \in Seq(Piece) /\ NoElse(F, Glue(u, y))
    BY <1>1, ListSeq, ListSplit
  <2>4. Reads(F, Cons(a, Glue(t, x)), k) /\ Reads(F, Cons(b, Glue(u, y)), k)
    BY <2>1, <2>2
  <2>5. a = b /\ Meet(F, Glue(t, x), Glue(u, y), k)
    <3> HIDE DEF x, y
    <3> QED
      BY <2>3, <2>4 DEF SameNode, Behind
  <2>6. t = u /\ Meet(F, r, s, k)
    BY <2>5, MeetList
  <2> QED
    BY <2>1, <2>2, <2>5, <2>6
<1> QED
  BY <1>5, <1>6, <1>7, <1>8

(* From the end of the text towards its beginning. *)
LEMMA SameEverywhere ==
  ASSUME NEW F \in Seq(Word), NEW k \in 1 .. Len(F) + 1
  PROVE  SameNode(F, k)
<1> DEFINE L == Len(F) + 1
           Bad == {d \in 0 .. L :
                  \E j \in 1 .. L : d = L - j /\ ~(SameNode(F, j) /\ SameList(F, j))}
<1>1. L \in Nat
  BY LenProperties
<1>2. Bad = {}
  <2> SUFFICES ASSUME Bad # {}
               PROVE  FALSE
    OBVIOUS
  <2>1. PICK d \in Bad : \A e \in Bad : d <= e
    <3>1. Bad \in SUBSET Nat
      OBVIOUS
    <3> HIDE DEF Bad
    <3> QED
      BY <3>1, LeastNat
  <2>2. PICK j \in 1 .. L : d = L - j /\ ~(SameNode(F, j) /\ SameList(F, j))
    BY <2>1
  <2>3. SameBehind(F, j)
    <3> SUFFICES ASSUME NEW i \in 1 .. L, i > j
                 PROVE  SameNode(F, i) /\ SameList(F, i)
      BY DEF SameBehind
    <3>1. L - i \in 0 .. L /\ L - i < d
      BY <1>1, <2>2
    <3>2. L - i \notin Bad
      <4>1. d \in Nat /\ L - i \in Nat
        BY <1>1, <3>1
      <4> HIDE DEF Bad
      <4> QED
        BY <2>1, <3>1, <4>1
    <3> QED
      BY <3>1, <3>2
  <2> QED
    BY <2>2, <2>3, NodeStep, ListStep
<1>3. L - k \in 0 .. L /\ k \in 1 .. L
  BY <1>1
<1> QED
  BY <1>2, <1>3

-----------------------------------------------------------------------------
(* While the tree is printed: wherever the text goes on with what is still to
   be printed, it has the tree at its beginning. *)
WrittenAs(tree, rest, text) ==
  /\ tree \in Programs
  /\ rest \in Seq(Piece)
  /\ text \in Seq(Word)
  /\ \A more \in Seq(Word) :
       Reads(text \o more, rest, Len(text) + 1) => Reads(text \o more, <<tree>>, 1)

Written == WrittenAs(ast, pieces, file) /\ (dumping = "done" => pieces = << >>)

LEMMA NothingWritten ==
  ASSUME NEW tree \in Programs
  PROVE  WrittenAs(tree, <<tree>>, << >>)
<1>1. tree \in Piece
  BY PrintableAssumption, Printables
<1>2. <<tree>> \in Seq(Piece)
  BY <1>1
<1>3. << >> \in Seq(Word) /\ Len(<< >>) + 1 = 1
  OBVIOUS
<1> QED
  BY <1>2, <1>3 DEF WrittenAs

(* fputs prints the text that comes next. *)
LEMMA TextWritten ==
  ASSUME NEW tree, NEW p, NEW f, WrittenAs(tree, p, f), p # << >>, Head(p).kind = "text"
  PROVE  WrittenAs(tree, Tail(p), Append(f, Head(p).str))
<1> DEFINE t == Head(p)
           r == Tail(p)
           w == t.str
           g == Append(f, w)
<1>1. p \in Seq(Piece) /\ f \in Seq(Word) /\ tree \in Programs
  BY DEF WrittenAs
<1>2. t \in Piece /\ r \in Seq(Piece) /\ p = <<t>> \o r
  BY <1>1, HeadOf
<1>3. w \in Word
  BY <1>2, PieceKinds
<1> HIDE DEF t, r, w
<1>4. g \in Seq(Word) /\ Len(g) = Len(f) + 1 /\ Len(f) \in Nat /\ g[Len(f) + 1] = w
  BY <1>1, <1>3
<1>5. ASSUME NEW more \in Seq(Word), Reads(g \o more, r, Len(g) + 1)
      PROVE  Reads(g \o more, <<tree>>, 1)
  <2> DEFINE tail == <<w>> \o more
             F == g \o more
  <2>1. tail \in Seq(Word)
    BY <1>3, ConcatType
  <2>2. F = f \o tail
    <3>1. <<w>> \in Seq(Word) /\ g = f \o <<w>>
      BY <1>1, <1>3
    <3> QED
      BY <1>1, <3>1, ConcatAssociative
  <2>3. F \in Seq(Word) /\ Len(F) = Len(g) + Len(more) /\ F[Len(f) + 1] = w /\ Len(more) \in Nat
    BY <1>4, ConcatType
  <2> HIDE DEF tail, F
  <2> DEFINE k == Len(f) + 1
  <2>4. k \in 1 .. Len(F) + 1 /\ k <= Len(F) /\ k + 1 = Len(g) + 1 /\ F[k] = w
    BY <1>4, <2>3
  <2> HIDE DEF k
  <2>5. Reads(F, r, k + 1)
    BY <1>5, <2>4 DEF F
  <2>6. t.kind = "text" /\ t.str = w
    BY DEF t, w
  <2>7. Reads(F, <<t>> \o r, k)
    BY <1>2, <2>3, <2>4, <2>5, <2>6, ReadsAs
  <2>8. Reads(f \o tail, p, Len(f) + 1)
    BY <1>2, <2>2, <2>7 DEF k
  <2>9. Reads(f \o tail, <<tree>>, 1)
    BY <2>1, <2>8 DEF WrittenAs
  <2> QED
    BY <2>2, <2>9 DEF F
<1> HIDE DEF g
<1>6. WrittenAs(tree, r, g)
  BY <1>1, <1>2, <1>4, <1>5 DEF WrittenAs
<1> QED
  BY <1>6 DEF r, g, t, w

(* dump_node deals with the node that comes next. *)
LEMMA NodeWritten ==
  ASSUME NEW tree, NEW p, NEW f, WrittenAs(tree, p, f), p # << >>, Head(p).kind # "text"
  PROVE  WrittenAs(tree, D!Pieces(Head(p)) \o Tail(p), f)
<1> DEFINE n == Head(p)
           r == Tail(p)
           q == D!Pieces(n) \o r
<1>1. p \in Seq(Piece) /\ f \in Seq(Word) /\ tree \in Programs
  BY DEF WrittenAs
<1>2. n \in Piece /\ r \in Seq(Piece) /\ p = <<n>> \o r
  BY <1>1, HeadOf
<1>3. n \in Printable
  BY <1>2, PieceKinds
<1> HIDE DEF n, r
<1>4. q \in Seq(Piece)
  BY <1>2, <1>3, PiecesType, ConcatType
<1>5. ASSUME NEW more \in Seq(Word), Reads(f \o more, q, Len(f) + 1)
      PROVE  Reads(f \o more, <<tree>>, 1)
  <2> DEFINE F == f \o more
  <2>1. F \in Seq(Word) /\ Len(F) = Len(f) + Len(more) /\ Len(f) \in Nat /\ Len(more) \in Nat
    BY <1>1, ConcatType
  <2> HIDE DEF F
  <2>2. Len(f) + 1 \in 1 .. Len(F) + 1
    BY <2>1
  <2>3. Reads(F, <<n>> \o r, Len(f) + 1)
    BY <1>2, <1>3, <1>5, <2>1, <2>2, ReadsAs DEF F
  <2>4. Reads(f \o more, p, Len(f) + 1)
    BY <1>2, <2>3 DEF F
  <2> QED
    BY <2>4 DEF WrittenAs
<1> HIDE DEF q
<1>6. WrittenAs(tree, q, f)
  BY <1>1, <1>4, <1>5 DEF WrittenAs
<1> QED
  BY <1>6 DEF q, n, r

LEMMA WrittenStarts == Init => Written
<1> SUFFICES ASSUME Init
             PROVE  Written
  OBVIOUS
<1>1. ast \in Programs /\ pieces = <<ast>> /\ file = << >> /\ dumping # "done"
  BY DEF Init, D!Init
<1> QED
  BY <1>1, NothingWritten DEF Written

LEMMA WrittenStep ==
  ASSUME Written, [Next]_vars
  PROVE  Written'
<1>1. CASE AstDump
  <2>1. CASE D!Fputs
    <3>1. /\ pieces # << >> /\ Head(pieces).kind = "text"
          /\ ast' = ast /\ pieces' = Tail(pieces) /\ file' = Append(file, Head(pieces).str)
          /\ dumping' = dumping /\ dumping # "done"
      BY <2>1 DEF D!Fputs, D!Dumping
    <3>2. WrittenAs(ast, Tail(pieces), Append(file, Head(pieces).str))
      BY <3>1, TextWritten DEF Written
    <3> QED
      BY <3>1, <3>2 DEF Written
  <2>2. CASE D!DumpNode
    <3>1. /\ pieces # << >>
          /\ ast' = ast /\ pieces' = D!Pieces(Head(pieces)) \o Tail(pieces) /\ file' = file
          /\ dumping' = dumping /\ dumping # "done"
      BY <2>2 DEF D!DumpNode, D!Dumping
    <3>2. Head(pieces).kind # "text"
      BY <2>2 DEF D!DumpNode, D!ExprKinds, D!StmtKinds
    <3>3. WrittenAs(ast, D!Pieces(Head(pieces)) \o Tail(pieces), file)
      BY <3>1, <3>2, NodeWritten DEF Written
    <3> QED
      BY <3>1, <3>3 DEF Written
  <2>3. CASE D!DumpEnd
    BY <2>3 DEF D!DumpEnd, Written
  <2> QED
    BY <1>1, <2>1, <2>2, <2>3 DEF AstDump, D!Next
<1>2. CASE ~AstDump
  <2>1. UNCHANGED <<ast, dump>>
    BY <1>2 DEF Next, vars, Descend, NewNode, Error, Cleanup, DeleteField, Free, Return
  <2> QED
    BY <2>1 DEF Written, dump
<1> QED
  BY <1>1, <1>2

(* No other tree is printed like the one that is: what dump_node prints can be
   read in one way only, although it puts nothing around an operand, an else or
   the parts of a list. *)
THEOREM TreesToldApart == Spec => []TellsTreesApart
<1>1. Init => Written
  BY WrittenStarts
<1>2. Written /\ [Next]_vars => Written'
  BY WrittenStep
<1>3. Written => TellsTreesApart
  <2> SUFFICES ASSUME Written, dumping = "done"
               PROVE  {tree \in Printable : Spells(file)[<<<<tree>>, 1>>]} = {ast}
    BY DEF TellsTreesApart
  <2>1. ast \in Printable /\ file \in Seq(Word) /\ pieces = << >>
    BY PrintableAssumption DEF Written, WrittenAs
  <2>2. Len(file) \in Nat /\ 1 \in 1 .. Len(file) + 1 /\ Len(file) + 1 \in 1 .. Len(file) + 1
    BY <2>1
  <2>3. << >> \in Seq(Piece)
    OBVIOUS
  <2>4. Reads(file, <<ast>>, 1)
    <3>1. << >> \in Seq(Word) /\ file \o << >> = file
      BY <2>1, ConcatEmptySeq
    <3>2. Reads(file, << >>, Len(file) + 1)
      BY <2>1, <2>2, <2>3, ReadsAs
    <3> QED
      BY <2>1, <3>1, <3>2, Zenon DEF Written, WrittenAs
  <2>5. \A n \in Printable : Reads(file, Cons(n, << >>), 1) <=> Reads(file, <<n>>, 1)
    <3>1. \A n \in Printable : <<n>> \in Seq(Printable) /\ <<n>> \o << >> = <<n>>
      BY ConcatEmptySeq
    <3> QED
      BY <3>1, Zenon DEF Cons
  <2>6. NoElse(file, << >>)
    <3>1. ASSUME NEW j \in 1 .. Len(file)
          PROVE  ~Reads(file, << >>, j)
      <4>1. j \in 1 .. Len(file) + 1 /\ j # Len(file) + 1
        BY <2>2
      <4> QED
        BY <2>1, <2>3, <4>1, ReadsAs
    <3> QED
      BY <3>1 DEF NoElse
  <2>7. \A n \in Printable : Behind(file, n, << >>)
    BY <2>6 DEF Behind
  <2>8. SameNode(file, 1)
    BY <2>1, <2>2, SameEverywhere
  <2>9. ASSUME NEW tree \in Printable, Reads(file, <<tree>>, 1)
        PROVE  tree = ast
    BY <2>1, <2>3, <2>4, <2>5, <2>7, <2>8, <2>9 DEF SameNode
  <2> QED
    BY <2>1, <2>4, <2>9 DEF Reads
<1> QED
  BY <1>1, <1>2, <1>3, PTL DEF Spec
=============================================================================
