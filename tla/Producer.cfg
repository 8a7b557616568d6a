\* Two messages and a queue of one, so that the second is refused while the first
\* waits, or follows it.
CONSTANTS
  MaxMessages = 2
  QueueLimit = 1
SPECIFICATION FairSpec
INVARIANTS
  TypeOK
  PInv
PROPERTIES
  DeliverySpec
  SignalExits
  ProbeRestarts
  Counted
CHECK_DEADLOCK FALSE
