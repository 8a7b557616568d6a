\* Two pods, one partition of two records, any two faults of every kind.
CONSTANTS
  Consumers = {c1, c2}
  Partitions = {p1}
  MaxOffset = 2
  MaxAttempts = 2
  MaxFaults = 2
  FaultKinds = {"sigterm", "crash", "fatal", "evict", "commit", "produce", "delivery", "flush"}
  NoRecord = NoRecord
SYMMETRY Symmetry
SPECIFICATION Spec
INVARIANTS
  TypeOK
  IInv
  CommittedHandled
  ExclusiveOwner
  ReadyIffAssigned
  DurableWithoutCrash
  SkippedUnseen
  EarlyOnlyOnStop
PROPERTIES
  CommitMonotone
  LedgerSpec
  NoRedelivery
  LeaseSpec
  StopShrinks
