SPECIFICATION Spec
CONSTANTS
  Texts <- MCTexts
  CommandLines <- MCCommandLines
  Node <- MCNode
  WordBits = 4
  LongBits = 6
  MaxSlots = 5
  Fuel = 6
INVARIANTS
  StagesAgree
  ParserFeedsGenerator
  MeansWhatItSays
PROPERTY Exits
CHECK_DEADLOCK FALSE
