SPECIFICATION HandleSpec
CONSTANTS
  pass = pass
  fail = fail
  File = {pass, fail}
  ShouldFail = {fail}
  Stages <- MCStages
  Failable = {"lex", "ast"}
  Info <- MCInfo
  Entry <- MCEntry
  MaxEntries = 3
INVARIANTS
  ListsWhatChanged
  UpdatesSettle
  WritesEntries
CHECK_DEADLOCK FALSE
