SPECIFICATION Spec
CONSTANTS
  Programs <- MCTrees
  Place <- MCPlace
  Printable <- MCNodes
INVARIANT TellsTreesApart
PROPERTIES
  ImplementsRc
  Returns
CHECK_DEADLOCK FALSE
