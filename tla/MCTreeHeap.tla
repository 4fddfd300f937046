----------------------------- MODULE MCTreeHeap -----------------------------
(***************************************************************************)
(* Trees with every kind of node and every field, three deep at least:     *)
(* what destroy_node does depends on the one node it is called on.  What   *)
(* is printed of them is compared with many more, that differ as little as *)
(* two trees can: operands that are grouped differently, statements that   *)
(* stand in a block or behind it, an else of the inner or of the outer if, *)
(* a for and a while.                                                      *)
(***************************************************************************)
EXTENDS TreeHeap, MCPrograms

(* An identifier is any value; this one only its kind tells from the integer. *)
X == Id(0)
Zero == NewLit("LK_INT", 0)
MCReturn == NewStReturn(X)
MCBlocks == BlocksOf({MCReturn}, 1)

MCTrees ==
  {NewStBlock(<<NewStBlock(<< >>), NewStExpr(e)>>) :
     e \in {X, NewUnary("UNAOP_NEG", X), Ass(0, Zero)}}
    \cup {NewStReturn(e) : e \in {Sub(Sub(X, X), X), NewUnary("UNAOP_STAR", X)}}
    \cup IfsOf({X}, MCBlocks) \cup WhilesOf({X}, MCBlocks) \cup ForsOf({X}, {X}, {X}, MCBlocks)
    \cup IfsOf({X}, {NewStBlock(<<s>>) : s \in IfsOf({X}, {NewStBlock(<< >>)})})

-----------------------------------------------------------------------------
MCAtoms == {X, Zero, NewUnary("UNAOP_NEG", X)}
MCExprs ==
  MCAtoms
    \cup {NewUnary(op, e) : op \in UnaopKind, e \in MCAtoms}
    \cup {NewBinop(op, X, e) : op \in BinopKind, e \in MCAtoms \cup {Sub(X, X), Ass(0, X)}}
    \cup {Sub(Sub(X, X), X), NewUnary("UNAOP_NEG", Sub(X, X))}

MCSimple == {MCReturn, NewStExpr(X)}
MCInner ==
  LET blocks == BlocksOf(MCSimple, 1)
  IN  IfsOf({X}, blocks) \cup WhilesOf({X}, blocks) \cup ForsOf({X}, {X}, {X, Zero}, blocks)

MCPrintable ==
  MCTrees
    \cup {NewStReturn(e) : e \in MCExprs} \cup {NewStExpr(e) : e \in MCExprs}
    \cup BlocksOf(MCSimple \cup {NewStBlock(<< >>), NewStBlock(<<NewStExpr(X)>>)}, 3)
    \cup MCInner \cup BlocksOf(MCInner, 1)
    \cup IfsOf({X}, {NewStBlock(<<s>>) : s \in IfsOf({X}, BlocksOf(MCSimple, 1))})

MCNodes == NodesOf(MCPrintable)

(* The nodes of the trees with their paths, level by level. *)
Level0 == {<<tree, << >>>> : tree \in MCTrees}
Below(level) ==
  UNION {{<<Child(l[1], step), Append(l[2], step)>> : step \in ToSet(Built(l[1]))} : l \in level}
Level2 == Below(Below(Level0))
Level4 == Below(Below(Level2))
MCPlace ==
  Level0 \cup Below(Level0) \cup Level2 \cup Below(Level2) \cup Level4 \cup Below(Level4)

=============================================================================
