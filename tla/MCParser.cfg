SPECIFICATION Spec
CONSTANTS
  Texts <- MCTexts
INVARIANTS
  TypeOK
  UnclosedIsInnermost
  InvalidReportedFirst
  ParsesGrammar
  RefusesOnlyUngrammatical
PROPERTY Terminates
CHECK_DEADLOCK FALSE
