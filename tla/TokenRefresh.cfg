\* Ticks of 5 s: POST 10 s, buffer 30 s, retry 5 s; a token lives 60 s.
CONSTANTS
  Lifetime = 12
  Buffer = 6
  PostTime = 2
  RetryWait = 1
  HintAt = 8
  MaxFailures = 2
SPECIFICATION FairSpec
INVARIANTS
  TypeOK
  TInv
  StopsInTime
PROPERTIES
  NoMainGap
  NoDlqGap
  OutageIsSeen
  Recovers
  Paced
  AtMostOneLate
  CancelStops
