SPECIFICATION NamesSpec
CONSTANTS
  Ident <- MCIdent
  Fixed <- MCFixed
  Text <- MCText
  Size = 10
  Buffers = 3
  Used = 2
  MaxNames = 3
  MaxCalls = 3
INVARIANTS
  LinesAsMeant
  CutLinesShow
  LiveNamesAreLocals
PROPERTY KeepsRecent
CHECK_DEADLOCK FALSE
