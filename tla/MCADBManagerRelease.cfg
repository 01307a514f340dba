SPECIFICATION Spec
CONSTANTS
  KbdBufSize = 3
  PlainKeys <- Letters
  Shifts <- ShiftKeys
  Locks <- LockKeys
  Mouse = "Mouse"
  Moves <- Motions
  Half = 4
  MaxInputs = 3
  QueueSize = 4
  Escape = "Esc"
INVARIANT ReleaseIsPolled
CHECK_DEADLOCK FALSE
