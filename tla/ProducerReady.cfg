CONSTANTS
  MaxMessages = 1
  QueueLimit = 1
SPECIFICATION Spec
INVARIANTS
  StaysUnready
CHECK_DEADLOCK FALSE
