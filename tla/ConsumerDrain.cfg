\* SIGTERM sends a record to the DLQ after fewer attempts.
CONSTANTS
  Consumers = {c1, c2}
  Partitions = {p1}
  MaxOffset = 2
  MaxAttempts = 3
  MaxFaults = 1
  FaultKinds = {"sigterm"}
  NoRecord = NoRecord
SPECIFICATION Spec
INVARIANTS
  DlqOnlyWhenExhausted
