\* A crash before the first commit of a partition.
CONSTANTS
  Consumers = {c1, c2}
  Partitions = {p1}
  MaxOffset = 2
  MaxAttempts = 3
  MaxFaults = 1
  FaultKinds = {"crash"}
  NoRecord = NoRecord
SPECIFICATION Spec
INVARIANTS
  CommitAfterProcessing
