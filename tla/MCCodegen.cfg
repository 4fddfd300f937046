SPECIFICATION Spec
CONSTANTS
  Node <- MCNode
  Programs <- MCPrograms1
INVARIANTS
  TypeOK
  JumpEndsBlock
  LabelsUnique
  JumpTargetsDefined
  TempsAssignedOnce
  TempsBlockLocal
PROPERTY Terminates
CHECK_DEADLOCK FALSE
