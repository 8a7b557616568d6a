\* A crash loses a record whose offset is committed.
CONSTANTS
  Consumers = {c1, c2}
  Partitions = {p1}
  MaxOffset = 2
  MaxAttempts = 3
  MaxFaults = 1
  FaultKinds = {"crash"}
  NoRecord = NoRecord
SPECIFICATION Spec
INVARIANTS
  NothingLost
