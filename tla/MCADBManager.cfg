SPECIFICATION Spec
CONSTANTS
  KbdBufSize = 3
  PlainKeys <- Letters
  Shifts <- ShiftKeys
  Locks <- LockKeys
  Mouse = "Mouse"
  Moves <- Motions
  Half = 4
  MaxInputs = 3
  QueueSize = 4
  Escape = "Esc"
INVARIANTS
  KeysInOrder
  ShiftAtEvent
  MotionConserved
PROPERTY
  KeysGetThrough
CHECK_DEADLOCK FALSE
