\* Liveness after any one restart, crash, eviction or failed commit.
CONSTANTS
  Consumers = {c1, c2}
  Partitions = {p1}
  MaxOffset = 2
  MaxAttempts = 2
  MaxFaults = 1
  FaultKinds = {"sigterm", "crash", "evict", "commit"}
  NoRecord = NoRecord
SPECIFICATION FairSpec
PROPERTIES
  EventuallyHandled
  LagDrains
  SigtermExits
