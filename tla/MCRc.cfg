SPECIFICATION Spec
CONSTANTS
  Thread = {t1, t2}
  Object = {o1, o2, o3}
  Ref = {r1, r2, r3, r4}
  Nil = Nil
INVARIANTS
  TypeOK
  CountIsReferences
  NoDanglingReference
  FreedOnce
PROPERTY NoLeak
CHECK_DEADLOCK FALSE
