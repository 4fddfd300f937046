SPECIFICATION Spec
CONSTANTS
  Sources <- MCSources
  Space <- MCSpace
  Digit <- MCDigit
  Letter <- MCLetter
INVARIANTS
  TypeOK
  TokensOfSource
  ExitCodeTellsErrors
PROPERTY Exits
CHECK_DEADLOCK FALSE
