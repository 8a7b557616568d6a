\* One fetch of the loop fails after the consumer refreshed on demand.
CONSTANTS
  Lifetime = 12
  Buffer = 6
  PostTime = 2
  RetryWait = 1
  HintAt = 8
  MaxFailures = 1
SPECIFICATION Spec
INVARIANTS
  RetryAfterFailure
