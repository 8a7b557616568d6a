\* A fatal error of the idempotent producer, and nobody who stops the pod.
CONSTANTS
  MaxMessages = 1
  QueueLimit = 1
SPECIFICATION FairSpec
PROPERTIES
  FatalIsSeen
CHECK_DEADLOCK FALSE
