SPECIFICATION ScopingSpec
CONSTANTS
  v1 = v1
  v2 = v2
  Var <- MCVar
  Pointee = {a, b}
  ArgLists <- MCArgLists
  MaxDepth = 2
  MaxJumps = 2
INVARIANTS
  ArgumentsLive
  LeaksByJumpsOnly
CHECK_DEADLOCK FALSE
