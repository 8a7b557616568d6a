SPECIFICATION Spec
\* Ticks of 500 ms; the settings of main, DefaultRetryConfig and the manifest.
CONSTANTS
  PollTime = 1
  Delay = 4
  Timeout = 10
  MaxAttempts = 3
  InitialWait = 1
  MaxWait = 20
  Multiplier = 2
  PostTime = 20
  BrokerTime = 9
  FlushTime = 10
  MaxPollInterval = 600
  Grace = 60
INVARIANTS TypeOK TimeInv PollInTime ExitInTime
