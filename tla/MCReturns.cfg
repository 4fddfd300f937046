SPECIFICATION Spec
CONSTANTS
  Node <- MCNode
  Programs <- MCPrograms1
PROPERTY TellsWhetherItReturns
CHECK_DEADLOCK FALSE
