SPECIFICATION CompilerSpec
CONSTANTS
  Node <- MCNode
  Programs <- MCPrograms2
  WordBits = 4
  LongBits = 6
  MaxSlots = 5
  Fuel = 6
PROPERTIES
  ImplementsLanguage
  Ends
CHECK_DEADLOCK FALSE
