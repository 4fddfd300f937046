-------------------------------- MODULE Nodes -------------------------------
(***************************************************************************)
(* The trees that a module is about: Node has their nodes, and with a node *)
(* its children.                                                           *)
(***************************************************************************)
EXTENDS Syntax

CONSTANT Node

ASSUME NodeAssumption == \A n \in Node : WellFormed(n, Node)
=============================================================================
