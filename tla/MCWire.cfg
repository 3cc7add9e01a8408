\* Three frames of up to two fields in buffers that start with three cells.
SPECIFICATION Spec
CONSTANTS
  Messages = 3
  Fields <- MCFields
  MaxFields = 2
  InitialCapacity = 3
INVARIANTS
  TypeOK
  FramesExact
CHECK_DEADLOCK FALSE
