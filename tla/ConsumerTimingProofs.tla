------------------------ MODULE ConsumerTimingProofs ------------------------
(* Proofs about ConsumerTiming: if the settings leave room for one message  *)
(* and one token request, no pod is evicted or killed, whatever the values. *)
EXTENDS ConsumerTiming, TLAPS

\* The constants, each by itself, as the provers want them.
LEMMA Constants ==
  /\ PollTime \in Nat /\ Delay \in Nat /\ Timeout \in Nat /\ InitialWait \in Nat
  /\ MaxWait \in Nat /\ Multiplier \in Nat /\ PostTime \in Nat /\ BrokerTime \in Nat
  /\ FlushTime \in Nat /\ MaxPollInterval \in Nat /\ Grace \in Nat
  /\ MaxAttempts \in Nat \ {0} /\ InitialWait <= MaxWait
  BY TimingAssumption

\* Each attempt and the wait after it add their limits.
LEMMA BeforeNext ==
  ASSUME NEW k \in Nat
  PROVE  /\ Before(k) \in Int
         /\ Before(k + 1) = Before(k) + Timeout + MaxWait
  BY Constants DEF Before

\* A later attempt is never nearer to the Poll.
LEMMA BeforeMonotone ==
  ASSUME NEW k \in 1..MaxAttempts
  PROVE  Before(k) <= Before(MaxAttempts)
<1> DEFINE d == Timeout + MaxWait
           r == MaxAttempts - k
<1>1. d \in Nat /\ r \in Nat
  BY Constants
<1>2. r * d \in Nat
  BY <1>1
<1>3. Before(MaxAttempts) = Before(k) + r * d
  BY Constants DEF Before
<1>q. QED
  BY <1>2, <1>3, Constants, BeforeNext

\* Where the wait of an attempt begins.
LEMMA BeforeFirst == Before(1) = Delay
  BY Constants DEF Before

LEMMA NextWaitBounded ==
  ASSUME wait \in 0..MaxWait
  PROVE  NextWait \in 0..MaxWait
  BY Constants DEF NextWait

LEMMA InitTimeInv == Init => TimeInv
<1> SUFFICES ASSUME Init PROVE TimeInv
  OBVIOUS
<1> USE Constants DEF Init
<1>1. TypeOK
  <2>1. left \in Nat /\ wait \in 0..MaxWait /\ sinceTerm \in Nat /\ sincePoll \in Nat
    OBVIOUS
  <2>2. pc \in Timed \cup {"top", "ready", "exited"} /\ cancelled \in BOOLEAN
    BY DEF Timed
  <2>3. attempt \in 0..MaxAttempts /\ ~(attempt > 0)
    OBVIOUS
  <2>4. pc \notin {"ready", "attempt", "backoff"}
    OBVIOUS
  <2>q. QED
    BY <2>1, <2>2, <2>3, <2>4 DEF TypeOK
<1>2. PollBudget
  BY DEF PollBudget, Handling
<1>3. GraceBudget
  BY GraceAssumption DEF GraceBudget
<1>q. QED
  BY <1>1, <1>2, <1>3 DEF TimeInv

-----------------------------------------------------------------------------
(* The types *)

LEMMA TypeStep == TypeOK /\ PollBudget /\ Next => TypeOK'
<1> SUFFICES ASSUME TypeOK, PollBudget, Next PROVE TypeOK'
  OBVIOUS
<1> USE Constants DEF TypeOK, Timed, Enter, Local, Clocks
<1>1. CASE Tick
  BY <1>1 DEF Tick
<1>2. CASE Started \/ Fatal \/ Sigterm \/ Top \/ Closed \/ Flushed \/ Restart
  <2>1. CASE Started
    BY <2>1 DEF Started
  <2>5. CASE Fatal
    BY <2>5 DEF Fatal
  <2>6. CASE Sigterm
    BY <2>6 DEF Sigterm
  <2>2. CASE Top
    BY <2>2 DEF Top
  <2>3. CASE Closed \/ Flushed
    BY <2>3 DEF Closed, Flushed
  <2>4. CASE Restart
    <3>1. /\ left' = 2 * PostTime
          /\ sinceTerm' \in Nat /\ sincePoll' \in Nat /\ cancelled' \in BOOLEAN
      BY <2>4 DEF Restart
    <3>2. pc' = "start" /\ wait' = wait /\ attempt' = attempt /\ pc = "exited"
      BY <2>4 DEF Restart
    <3>q. QED
      BY <3>1, <3>2
  <2>q. QED
    BY <1>2, <2>1, <2>2, <2>3, <2>4, <2>5, <2>6
<1>3. CASE PollNil \/ PollMessage \/ PollRefresh \/ TokenReturns \/ Committed
  BY <1>3 DEF PollNil, PollMessage, SleepTime, PollRefresh, TokenReturns, Committed
<1>4. CASE Slept \/ Attempt \/ AttemptOk \/ AttemptFails \/ BackoffCancelled
  BY <1>4 DEF Slept, Attempt, AttemptOk, AttemptFails, BackoffCancelled, Failed, Return
<1>5. CASE BackoffElapsed
  BY <1>5, NextWaitBounded DEF BackoffElapsed, PollBudget
<1>q. QED
  BY <1>1, <1>2, <1>3, <1>4, <1>5 DEF Next

-----------------------------------------------------------------------------
(* The two budgets *)

\* A step that fails an attempt or leaves WithRetry keeps within the limits.
LEMMA PollStep == TimeInv /\ Next => PollBudget'
<1> SUFFICES ASSUME TimeInv, Next PROVE PollBudget'
  OBVIOUS
<1> USE Constants DEF TimeInv, TypeOK, Timed, Handling, PollBudget, Enter, Local, Clocks
<1>1. CASE Tick
  BY <1>1 DEF Tick, Handling
<1>2. CASE Started \/ Fatal \/ Sigterm \/ Top \/ Closed \/ Flushed \/ Restart
  <2>1. CASE Started \/ Fatal \/ Sigterm
    BY <2>1 DEF Started, Fatal, Sigterm
  <2>2. CASE Top
    BY <2>2 DEF Top
  <2>3. CASE Closed \/ Flushed
    BY <2>3 DEF Closed, Flushed
  <2>4. CASE Restart
    BY <2>4 DEF Restart
  <2>q. QED
    BY <1>2, <2>1, <2>2, <2>3, <2>4
<1>3. CASE PollNil \/ PollMessage \/ PollRefresh \/ TokenReturns \/ Committed
  <2>1. CASE PollNil \/ PollMessage
    BY <2>1, BeforeFirst DEF PollNil, PollMessage, SleepTime
  <2>2. CASE PollRefresh
    BY <2>2 DEF PollRefresh
  <2>3. CASE TokenReturns
    BY <2>3, PollAssumption DEF TokenReturns
  <2>4. CASE Committed
    BY <2>4, PollAssumption, BeforeNext DEF Committed
  <2>q. QED
    BY <1>3, <2>1, <2>2, <2>3, <2>4
<1>4. CASE Slept
  BY <1>4 DEF Slept
<1>5. CASE Attempt \/ AttemptOk \/ AttemptFails \/ BackoffCancelled
  <2>1. attempt \in 1..MaxAttempts /\ sincePoll' = sincePoll
    BY <1>5 DEF Attempt, AttemptOk, AttemptFails, BackoffCancelled
  <2>2. sincePoll <= Before(attempt) + Timeout \/ sincePoll <= Before(attempt + 1)
    BY <1>5, <2>1, BeforeNext DEF Attempt, AttemptOk, AttemptFails, BackoffCancelled
  <2>q. QED
    BY <1>5, <2>1, <2>2, BeforeNext, BeforeMonotone
       DEF Attempt, AttemptOk, AttemptFails, BackoffCancelled, Failed, Return
<1>6. CASE BackoffElapsed
  BY <1>6, BeforeNext DEF BackoffElapsed
<1>q. QED
  BY <1>1, <1>2, <1>3, <1>4, <1>5, <1>6 DEF Next

LEMMA GraceStep == TimeInv /\ Next => GraceBudget'
<1> SUFFICES ASSUME TimeInv, Next PROVE GraceBudget'
  OBVIOUS
<1> USE Constants, GraceAssumption DEF TimeInv, TypeOK, Timed, GraceBudget, Enter, Local, Clocks
<1>1. CASE Tick
  BY <1>1 DEF Tick, CutShort
<1>2. CASE Started \/ Fatal \/ Sigterm \/ Top \/ Closed \/ Flushed \/ Restart
  <2>1. CASE Started \/ Fatal \/ Sigterm
    BY <2>1 DEF Started, Fatal, Sigterm
  <2>2. CASE Top
    BY <2>2 DEF Top
  <2>3. CASE Closed \/ Flushed
    BY <2>3 DEF Closed, Flushed
  <2>4. CASE Restart
    BY <2>4 DEF Restart
  <2>q. QED
    BY <1>2, <2>1, <2>2, <2>3, <2>4
<1>3. CASE PollNil \/ PollMessage \/ PollRefresh \/ TokenReturns \/ Committed
  BY <1>3 DEF PollNil, PollMessage, SleepTime, PollRefresh, TokenReturns, Committed
<1>4. CASE Slept \/ Attempt \/ AttemptOk \/ AttemptFails \/ BackoffElapsed \/ BackoffCancelled
  BY <1>4 DEF Slept, Attempt, AttemptOk, AttemptFails, BackoffElapsed, BackoffCancelled, Failed, Return
<1>q. QED
  BY <1>1, <1>2, <1>3, <1>4 DEF Next

LEMMA TimeInvStep == TimeInv /\ [Next]_vars => TimeInv'
<1> SUFFICES ASSUME TimeInv, [Next]_vars PROVE TimeInv'
  OBVIOUS
<1>1. CASE Next
  BY <1>1, TypeStep, PollStep, GraceStep DEF TimeInv
<1>2. CASE UNCHANGED vars
  BY <1>2 DEF vars, TimeInv, TypeOK, PollBudget, GraceBudget
<1>q. QED
  BY <1>1, <1>2

-----------------------------------------------------------------------------
(* The theorems *)

\* The two budgets hold in every reachable state of cmd/consumer's main.
THEOREM Invariance == Spec => []TimeInv
  BY InitTimeInv, TimeInvStep, PTL DEF Spec

\* The variables keep their types; no message gets more than MaxAttempts.
THEOREM TypeCorrect == Spec => []TypeOK
<1>1. TimeInv => TypeOK
  BY DEF TimeInv
<1>q. QED
  BY <1>1, Invariance, PTL

\* A message with all its attempts, or a token request, is over before
\* max.poll.interval.ms is.
THEOREM NeverEvicted == Spec => []PollInTime
<1>1. TimeInv => PollInTime
  <2> SUFFICES ASSUME TimeInv PROVE PollInTime
    OBVIOUS
  <2> USE Constants, PollAssumption DEF TimeInv, TypeOK, PollBudget, PollInTime
  <2>1. CASE pc = "sleep"
    BY <2>1, BeforeMonotone, BeforeNext
  <2>2. CASE pc = "ready"
    BY <2>2, BeforeMonotone, BeforeNext
  <2>3. CASE pc = "attempt"
    BY <2>3, BeforeMonotone, BeforeNext
  <2>4. CASE pc = "backoff"
    <3>1. attempt + 1 \in 1..MaxAttempts
      BY <2>4
    <3>q. QED
      BY <2>4, <3>1, BeforeMonotone, BeforeNext
  <2>5. CASE pc = "commit"
    BY <2>5, BeforeNext
  <2>6. CASE pc = "token"
    BY <2>6
  <2>7. CASE pc \notin Handling
    BY <2>7
  <2>q. QED
    BY <2>1, <2>2, <2>3, <2>4, <2>5, <2>6, <2>7 DEF Handling
<1>q. QED
  BY <1>1, Invariance, PTL

\* Wherever SIGTERM meets it, main has returned within the grace period.
THEOREM NeverKilled == Spec => []ExitInTime
<1>1. TimeInv => ExitInTime
  BY Constants, GraceAssumption DEF TimeInv, TypeOK, GraceBudget, ExitInTime, Timed
<1>q. QED
  BY <1>1, Invariance, PTL
=============================================================================
