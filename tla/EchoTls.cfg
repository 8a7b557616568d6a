\* Ticks of 5 minutes: the Certificate of 1 h, renewed 30 min before its end.
CONSTANTS
  Duration = 12
  RenewBefore = 6
  SyncDelay = 1
  BackOff = 1
SPECIFICATION FairSpec
INVARIANTS
  EInv
PROPERTIES
  NoFailWhileFresh
  SecondStart
  BackUp
