------------------------- MODULE TokenRefreshProofs -------------------------
(* Proofs about TokenRefresh, for every lifetime of a token, length of a    *)
(* POST and number of failures: a buffer of three POST times is enough.     *)
EXTENDS TokenRefresh, TLAPS

USE TimeAssumption, BufferAssumption, LifetimeAssumption
USE DEF history, MaxLate

\* Zero is within every bound.
LEMMA ZeroInBounds == 0 \in 0..PostTime /\ 0 \in 0..Lifetime /\ Lifetime \in 0..Lifetime
  OBVIOUS

LEMMA InitTInv == Init => TInv
<1> SUFFICES ASSUME Init PROVE TInv
  OBVIOUS
<1>1. /\ phase \in [Fetchers -> {"idle", "base", "uma", "push"}]
      /\ age \in [Fetchers -> 0..PostTime]
      /\ issued \in [Fetchers -> 0..Lifetime]
  BY ZeroInBounds DEF Init
<1>2. TypeOK
  <2>1. /\ current = 0 /\ mainTok = 0 /\ dlqTok = 0 /\ timer = 0 /\ failures = 0
        /\ loop = "startup" /\ ctxDone = FALSE /\ lastFailed = FALSE /\ dlqFed = FALSE
        /\ rest = 0 /\ spent = FALSE /\ late = 0
    BY DEF Init
  <2>2. /\ current \in 0..Lifetime /\ mainTok \in 0..Lifetime /\ dlqTok \in 0..Lifetime
        /\ timer \in 0..(Lifetime + RetryWait) /\ failures \in 0..MaxFailures
        /\ rest \in 0..RetryWait /\ late \in 0..(MaxLate + 1)
    BY <2>1
  <2>3. ctxDone \in BOOLEAN /\ lastFailed \in BOOLEAN /\ dlqFed \in BOOLEAN /\ spent \in BOOLEAN
    BY <2>1
  <2>q. QED
    BY <1>1, <2>1, <2>2, <2>3 DEF TypeOK
<1>3. LoopOK
  BY DEF Init, LoopOK, Fetchers
<1>4. Enough(mainTok) /\ Enough(dlqTok)
  BY DEF Init, Enough, Fetchers
<1>5. GapInv
  BY <1>3, <1>4 DEF Init, GapInv
<1>6. PaceInv
  BY DEF Init, PaceInv, Fetchers
<1>7. CacheInv
  BY DEF Init, CacheInv
<1>8. LateInv
  BY DEF Init, LateInv, Fetchers
<1>q. QED
  BY <1>2, <1>5, <1>6, <1>7, <1>8 DEF TInv

-----------------------------------------------------------------------------
(* The types *)

\* Every step keeps the types; a POST never outlives its timeout because time
\* waits for what is urgent.
LEMMA TypeStep ==
  ASSUME TInv, Next
  PROVE  TypeOK'
<1>1. CASE Tick
  BY <1>1 DEF TInv, TypeOK, GapInv, LoopOK, Tick, Urgent, Less, Fetchers
<1>2. CASE Cancel
  BY <1>2 DEF TInv, TypeOK, Cancel
<1>3. CASE Startup
  BY <1>3 DEF TInv, TypeOK, Startup
<1>4. CASE Plan
  BY <1>4 DEF TInv, TypeOK, Plan, SleepDuration
<1>5. CASE Wake
  <2>1. /\ phase' \in [Fetchers -> {"idle", "base", "uma", "push"}]
        /\ age' \in [Fetchers -> 0..PostTime]
    BY <1>5, ZeroInBounds DEF TInv, TypeOK, Wake, StartFetch
  <2>2. issued' \in [Fetchers -> 0..Lifetime]
    BY <1>5, ZeroInBounds DEF TInv, TypeOK, Wake, StartFetch
  <2>q. QED
    BY <1>5, <2>1, <2>2 DEF TInv, TypeOK, Wake, StartFetch
<1>6. CASE LoopPush
  <2>1. /\ phase' \in [Fetchers -> {"idle", "base", "uma", "push"}]
        /\ age' \in [Fetchers -> 0..PostTime]
    BY <1>6, ZeroInBounds DEF TInv, TypeOK, LoopPush, OnRefresh, Fetchers
  <2>2. issued' \in [Fetchers -> 0..Lifetime]
    BY <1>6, ZeroInBounds DEF TInv, TypeOK, LoopPush, OnRefresh, Fetchers
  <2>3. ctxDone' \in BOOLEAN /\ lastFailed' \in BOOLEAN /\ spent' \in BOOLEAN
    BY <1>6 DEF TInv, TypeOK, LoopPush
  <2>q. QED
    BY <1>6, <2>1, <2>2, <2>3 DEF TInv, TypeOK, LoopPush, OnRefresh, Fetchers
<1>7. CASE WaitElapsed
  BY <1>7 DEF TInv, TypeOK, WaitElapsed
<1>8. CASE LoopStops
  BY <1>8 DEF TInv, TypeOK, LoopStops
<1>9. CASE LoopFails
  <2>1. /\ phase' \in [Fetchers -> {"idle", "base", "uma", "push"}]
        /\ age' \in [Fetchers -> 0..PostTime]
    BY <1>9, ZeroInBounds DEF TInv, TypeOK, LoopFails, FetchFails
  <2>2. issued' \in [Fetchers -> 0..Lifetime]
    BY <1>9, ZeroInBounds DEF TInv, TypeOK, LoopFails, FetchFails
  <2>3. ctxDone' \in BOOLEAN /\ lastFailed' \in BOOLEAN /\ spent' \in BOOLEAN
    BY <1>9 DEF TInv, TypeOK, LoopFails
  <2>q. QED
    BY <1>9, <2>1, <2>2, <2>3 DEF TInv, TypeOK, LoopFails, FetchFails
<1>10. CASE Demand
  <2>1. /\ phase' \in [Fetchers -> {"idle", "base", "uma", "push"}]
        /\ age' \in [Fetchers -> 0..PostTime]
    BY <1>10, ZeroInBounds DEF TInv, TypeOK, Demand, StartFetch
  <2>2. issued' \in [Fetchers -> 0..Lifetime]
    BY <1>10, ZeroInBounds DEF TInv, TypeOK, Demand, StartFetch
  <2>q. QED
    BY <1>10, <2>1, <2>2 DEF TInv, TypeOK, Demand, StartFetch
<1>11. CASE DemandPush
  BY <1>11 DEF TInv, TypeOK, DemandPush, Fetchers
<1>12. CASE DemandFails
  <2>1. /\ phase' \in [Fetchers -> {"idle", "base", "uma", "push"}]
        /\ age' \in [Fetchers -> 0..PostTime]
    BY <1>12, ZeroInBounds DEF TInv, TypeOK, DemandFails, FetchFails
  <2>2. issued' \in [Fetchers -> 0..Lifetime]
    BY <1>12, ZeroInBounds DEF TInv, TypeOK, DemandFails, FetchFails
  <2>q. QED
    BY <1>12, <2>1, <2>2 DEF TInv, TypeOK, DemandFails, FetchFails
<1>13. ASSUME NEW f \in Fetchers, Fetch(f) PROVE TypeOK'
  BY <1>13 DEF TInv, TypeOK, Fetch, BaseArrives, Issue, TokenArrives
<1>q. QED
  BY <1>1, <1>2, <1>3, <1>4, <1>5, <1>6, <1>7, <1>8, <1>9, <1>10, <1>11, <1>12, <1>13
     DEF Next, LoopStep

-----------------------------------------------------------------------------
(* The gap invariant *)

\* The refresh loop and its fetch move together, and a token ages no more than
\* its POST.
LEMMA LoopOKStep ==
  ASSUME TInv, Next
  PROVE  LoopOK'
<1>1. CASE Tick
  BY <1>1 DEF TInv, TypeOK, GapInv, LoopOK, Tick, Urgent, Less, Fetchers
<1>2. CASE Cancel
  BY <1>2 DEF TInv, GapInv, LoopOK, Cancel
<1>3. CASE Startup
  BY <1>3 DEF TInv, GapInv, LoopOK, Startup
<1>4. CASE Plan
  BY <1>4 DEF TInv, GapInv, LoopOK, Plan
<1>5. CASE Wake
  BY <1>5 DEF TInv, TypeOK, GapInv, LoopOK, Wake, StartFetch, Fetchers
<1>6. CASE LoopPush
  BY <1>6 DEF TInv, TypeOK, GapInv, LoopOK, LoopPush, Fetchers
<1>7. CASE WaitElapsed
  BY <1>7 DEF TInv, GapInv, LoopOK, WaitElapsed
<1>8. CASE LoopStops
  BY <1>8 DEF TInv, GapInv, LoopOK, LoopStops
<1>9. CASE LoopFails
  BY <1>9 DEF TInv, TypeOK, GapInv, LoopOK, LoopFails, FetchFails, Fetchers
<1>10. CASE Demand
  BY <1>10 DEF TInv, TypeOK, GapInv, LoopOK, Demand, StartFetch, Fetchers
<1>11. CASE DemandPush
  BY <1>11 DEF TInv, TypeOK, GapInv, LoopOK, DemandPush, Fetchers
<1>12. CASE DemandFails
  BY <1>12 DEF TInv, TypeOK, GapInv, LoopOK, DemandFails, FetchFails, Fetchers
<1>13. ASSUME NEW f \in Fetchers, Fetch(f) PROVE LoopOK'
  BY <1>13 DEF TInv, TypeOK, GapInv, LoopOK, Fetch, BaseArrives, Issue, TokenArrives, Fetchers
<1>q. QED
  BY <1>1, <1>2, <1>3, <1>4, <1>5, <1>6, <1>7, <1>8, <1>9, <1>10, <1>11, <1>12, <1>13
     DEF Next, LoopStep

\* The budget of a handle's token: a step that leaves the token alone, or hands
\* over a new one, keeps it enough.
LEMMA GapStep ==
  ASSUME TInv, Next
  PROVE  GapInv'
<1>1. LoopOK'
  BY LoopOKStep
<1>2. CASE Tick
  BY <1>1, <1>2 DEF TInv, TypeOK, GapInv, LoopOK, Enough, Tick, Urgent, Less, Fetchers
<1>3. CASE Cancel
  BY <1>1, <1>3 DEF TInv, GapInv, Enough, Cancel
<1>4. CASE Startup
  BY <1>1, <1>4 DEF TInv, TypeOK, GapInv, LoopOK, Enough, Startup, Fetchers
<1>5. CASE Plan
  BY <1>1, <1>5 DEF TInv, TypeOK, GapInv, LoopOK, Enough, Plan, SleepDuration, Fetchers
<1>6. CASE Wake
  BY <1>1, <1>6 DEF TInv, TypeOK, GapInv, LoopOK, Enough, Wake, StartFetch, Fetchers
<1>7. CASE LoopPush
  BY <1>1, <1>7 DEF TInv, TypeOK, GapInv, LoopOK, Enough, LoopPush, OnRefresh, Fetchers
<1>8. CASE WaitElapsed
  BY <1>1, <1>8 DEF TInv, TypeOK, GapInv, LoopOK, Enough, WaitElapsed
<1>9. CASE LoopStops
  BY <1>1, <1>9 DEF TInv, TypeOK, GapInv, LoopOK, Enough, LoopStops
<1>10. CASE LoopFails
  BY <1>1, <1>10 DEF TInv, TypeOK, GapInv, LoopOK, Enough, LoopFails, FetchFails
<1>11. CASE Demand
  BY <1>1, <1>11 DEF TInv, TypeOK, GapInv, LoopOK, Enough, Demand, StartFetch, Fetchers
<1>12. CASE DemandPush
  BY <1>1, <1>12 DEF TInv, TypeOK, GapInv, LoopOK, Enough, DemandPush, Fetchers
<1>13. CASE DemandFails
  BY <1>1, <1>13 DEF TInv, TypeOK, GapInv, LoopOK, Enough, DemandFails, FetchFails, Fetchers
<1>14. ASSUME NEW f \in Fetchers, Fetch(f) PROVE GapInv'
  BY <1>1, <1>14 DEF TInv, TypeOK, GapInv, LoopOK, Enough, Fetch, BaseArrives, Issue,
     TokenArrives, Fetchers
<1>q. QED
  BY <1>2, <1>3, <1>4, <1>5, <1>6, <1>7, <1>8, <1>9, <1>10, <1>11, <1>12, <1>13, <1>14
     DEF Next, LoopStep

\* The pace: only Plan sets the timer from the cache, and it finds there a
\* fresh token or RetryWait behind it.
LEMMA PaceStep ==
  ASSUME TInv, Next
  PROVE  PaceInv'
<1>1. CASE Tick
  BY <1>1 DEF TInv, TypeOK, GapInv, LoopOK, PaceInv, Pause, Tick, Urgent, Less, Fetchers
<1>2. CASE Cancel
  BY <1>2 DEF TInv, PaceInv, Pause, Cancel
<1>3. CASE Startup
  BY <1>3 DEF TInv, TypeOK, GapInv, LoopOK, PaceInv, Pause, Startup, Fetchers
<1>4. CASE Plan
  <2>1. /\ loop = "plan" /\ loop' = "sleep" /\ timer' = SleepDuration
        /\ UNCHANGED <<current, phase, ctxDone, lastFailed, rest, spent>>
    BY <1>4 DEF Plan
  <2>2. current \in 0..Lifetime /\ rest \in 0..RetryWait
    BY DEF TInv, TypeOK
  <2>3. SleepDuration \in Nat /\ (current = Lifetime => SleepDuration = Lifetime - Buffer)
    BY <2>2 DEF SleepDuration
  <2>4. rest + SleepDuration >= Pause
    BY <2>1, <2>2, <2>3 DEF TInv, PaceInv, Pause
  <2>5. spent => SleepDuration > 0
    BY <2>1, <2>3 DEF TInv, PaceInv
  <2>6. Pause' = Pause
    BY <2>1 DEF Pause
  <2>q. QED
    BY <2>1, <2>4, <2>5, <2>6 DEF TInv, PaceInv
<1>5. CASE Wake
  BY <1>5 DEF TInv, TypeOK, PaceInv, Pause, Wake, StartFetch, Fetchers
<1>6. CASE LoopPush
  BY <1>6 DEF TInv, TypeOK, GapInv, LoopOK, PaceInv, Pause, LoopPush, OnRefresh, Fetchers
<1>7. CASE WaitElapsed
  BY <1>7 DEF TInv, TypeOK, GapInv, PaceInv, Pause, WaitElapsed
<1>8. CASE LoopStops
  BY <1>8 DEF TInv, PaceInv, Pause, LoopStops
<1>9. CASE LoopFails
  BY <1>9 DEF TInv, TypeOK, GapInv, LoopOK, PaceInv, Pause, LoopFails, FetchFails, Fetchers
<1>10. CASE Demand
  BY <1>10 DEF TInv, TypeOK, PaceInv, Pause, Demand, StartFetch, Fetchers
<1>11. CASE DemandPush
  BY <1>11 DEF TInv, TypeOK, PaceInv, Pause, DemandPush, Fetchers
<1>12. CASE DemandFails
  BY <1>12 DEF TInv, TypeOK, PaceInv, Pause, DemandFails, FetchFails, Fetchers
<1>13. ASSUME NEW f \in Fetchers, Fetch(f) PROVE PaceInv'
  BY <1>13 DEF TInv, TypeOK, PaceInv, Pause, Fetch, BaseArrives, Issue, TokenArrives, Fetchers
<1>q. QED
  BY <1>1, <1>2, <1>3, <1>4, <1>5, <1>6, <1>7, <1>8, <1>9, <1>10, <1>11, <1>12, <1>13
     DEF Next, LoopStep

\* The cache and the consumer's token lose time together, and whoever renews
\* the one renews the other.
LEMMA CacheStep ==
  ASSUME TInv, Next
  PROVE  CacheInv'
<1>1. CASE Tick
  <2>1. /\ current \in 0..Lifetime /\ mainTok \in 0..Lifetime
        /\ timer \in 0..(Lifetime + RetryWait)
    BY DEF TInv, TypeOK
  <2>2. current' = Less(current) /\ mainTok' = Less(mainTok) /\ timer' = Less(timer) /\ loop' = loop
    BY <1>1 DEF Tick
  <2>3. current <= mainTok + PostTime
    BY <1>1 DEF TInv, CacheInv, Tick, Urgent
  <2>4. current' <= mainTok' + PostTime
    BY <2>1, <2>2, <2>3 DEF Less
  <2>5. loop' = "sleep" => timer' = 0 \/ timer' + Buffer <= current'
    BY <2>1, <2>2 DEF TInv, CacheInv, Less
  <2>q. QED
    BY <2>4, <2>5 DEF CacheInv
<1>2. CASE Cancel
  BY <1>2 DEF TInv, CacheInv, Cancel
<1>3. CASE Startup
  <2>1. current' = Lifetime /\ mainTok' \in (Lifetime - PostTime)..Lifetime /\ loop' = "plan"
    BY <1>3 DEF Startup
  <2>2. \A n \in (Lifetime - PostTime)..Lifetime : Lifetime <= n + PostTime
    OBVIOUS
  <2>q. QED
    BY <2>1, <2>2 DEF CacheInv
<1>4. CASE Plan
  BY <1>4 DEF TInv, TypeOK, CacheInv, Plan, SleepDuration
<1>5. CASE Wake
  <2>1. loop' = "fetch" /\ current' = current /\ mainTok' = mainTok
    BY <1>5 DEF Wake
  <2>2. (\A f \in Fetchers : phase'[f] # "push")
           => phase["demand"] # "push" /\ phase["loop"] # "push"
    BY <1>5 DEF TInv, TypeOK, GapInv, LoopOK, Wake, StartFetch, Fetchers
  <2>q. QED
    BY <2>1, <2>2 DEF TInv, CacheInv, Fetchers
<1>6. CASE LoopPush
  BY <1>6 DEF TInv, TypeOK, GapInv, LoopOK, CacheInv, LoopPush, OnRefresh, Fetchers
<1>7. CASE WaitElapsed
  BY <1>7 DEF TInv, CacheInv, WaitElapsed
<1>8. CASE LoopStops
  BY <1>8 DEF TInv, CacheInv, LoopStops
<1>9. CASE LoopFails
  BY <1>9 DEF TInv, TypeOK, CacheInv, LoopFails, FetchFails, Fetchers
<1>10. CASE Demand
  BY <1>10 DEF TInv, TypeOK, CacheInv, Demand, StartFetch, Fetchers
<1>11. CASE DemandPush
  BY <1>11 DEF TInv, TypeOK, GapInv, LoopOK, CacheInv, DemandPush, Fetchers
<1>12. CASE DemandFails
  BY <1>12 DEF TInv, TypeOK, CacheInv, DemandFails, FetchFails, Fetchers
<1>13. ASSUME NEW f \in Fetchers, Fetch(f) PROVE CacheInv'
  BY <1>13 DEF TInv, TypeOK, GapInv, CacheInv, Fetch, BaseArrives, Issue, TokenArrives, Fetchers
<1>q. QED
  BY <1>1, <1>2, <1>3, <1>4, <1>5, <1>6, <1>7, <1>8, <1>9, <1>10, <1>11, <1>12, <1>13
     DEF Next, LoopStep

\* After the cancellation time passes only in a request of the loop.
LEMMA LateStep ==
  ASSUME TInv, Next
  PROVE  LateInv'
<1>1. CASE Tick
  BY <1>1 DEF TInv, TypeOK, GapInv, LoopOK, PaceInv, LateInv, Tick, Urgent, Fetchers
<1>2. CASE Cancel
  BY <1>2 DEF TInv, TypeOK, LateInv, Cancel, Fetchers
<1>3. CASE Startup
  BY <1>3 DEF TInv, TypeOK, LateInv, Startup
<1>4. CASE Plan
  BY <1>4 DEF TInv, TypeOK, LateInv, Plan
<1>5. CASE Wake
  BY <1>5 DEF TInv, TypeOK, PaceInv, LateInv, Wake, StartFetch, Fetchers
<1>6. CASE LoopPush
  BY <1>6 DEF TInv, TypeOK, GapInv, LoopOK, LateInv, LoopPush, OnRefresh, Fetchers
<1>7. CASE WaitElapsed
  BY <1>7 DEF TInv, TypeOK, LateInv, WaitElapsed
<1>8. CASE LoopStops
  BY <1>8 DEF TInv, TypeOK, GapInv, LoopOK, LateInv, LoopStops
<1>9. CASE LoopFails
  BY <1>9 DEF TInv, TypeOK, GapInv, LoopOK, LateInv, LoopFails, FetchFails, Fetchers
<1>10. CASE Demand
  BY <1>10 DEF TInv, TypeOK, LateInv, Demand, StartFetch, Fetchers
<1>11. CASE DemandPush
  BY <1>11 DEF TInv, TypeOK, LateInv, DemandPush, Fetchers
<1>12. CASE DemandFails
  BY <1>12 DEF TInv, TypeOK, LateInv, DemandFails, FetchFails, Fetchers
<1>13. ASSUME NEW f \in Fetchers, Fetch(f) PROVE LateInv'
  BY <1>13 DEF TInv, TypeOK, LateInv, Fetch, BaseArrives, Issue, TokenArrives, Fetchers
<1>q. QED
  BY <1>1, <1>2, <1>3, <1>4, <1>5, <1>6, <1>7, <1>8, <1>9, <1>10, <1>11, <1>12, <1>13
     DEF Next, LoopStep

LEMMA NextTInv == TInv /\ [Next]_vars => TInv'
<1>1. ASSUME TInv, Next PROVE TInv'
  BY <1>1, TypeStep, GapStep, PaceStep, CacheStep, LateStep DEF TInv
<1>2. ASSUME TInv, UNCHANGED vars PROVE TInv'
  BY <1>2 DEF TInv, TypeOK, GapInv, PaceInv, Pause, CacheInv, LateInv, LoopOK, Enough, vars
<1>q. QED
  BY <1>1, <1>2

-----------------------------------------------------------------------------
(* The theorems *)

\* The inductive invariant holds in every reachable state.
THEOREM Invariance == Spec => []TInv
  BY InitTInv, NextTInv, PTL DEF Spec

\* Tokens, timers and requests stay within their bounds.
THEOREM TypeCorrect == Spec => []TypeOK
<1>1. TInv => TypeOK
  BY DEF TInv
<1>q. QED
  BY <1>1, Invariance, PTL

\* A token that is enough for the loop's way to the next one is not expired
\* while time can pass.
LEMMA EnoughIsValid ==
  ASSUME TInv, Tick, NEW tok \in Nat, Enough(tok), ~lastFailed, loop # "stopped"
  PROVE  tok > 0
<1>1. loop \in {"sleep", "fetch"}
  BY DEF TInv, TypeOK, GapInv, Tick, Urgent
<1>2. CASE loop = "sleep"
  BY <1>2 DEF TInv, TypeOK, Enough, Tick, Urgent
<1>3. CASE loop = "fetch"
  <2>1. phase["loop"] \in {"base", "uma"}
    BY <1>3 DEF TInv, TypeOK, GapInv, LoopOK, Tick, Urgent, Fetchers
  <2>2. age["loop"] < PostTime
    BY <2>1 DEF TInv, TypeOK, Tick, Urgent, Fetchers
  <2>q. QED
    BY <2>1, <2>2 DEF TInv, TypeOK, Enough, Fetchers
<1>q. QED
  BY <1>1, <1>2, <1>3

\* With a buffer of at least three POST times the consumer never waits with an
\* expired token unless the loop's last fetch failed: 30 s and 10 s are exactly on
\* the edge.
THEOREM MainCovered == Spec => NoMainGap
<1>1. TInv /\ [Next]_vars =>
        [Tick /\ ~lastFailed /\ loop # "stopped" => mainTok > 0]_vars
  BY EnoughIsValid DEF TInv, TypeOK, GapInv
<1>q. QED
  BY <1>1, Invariance, PTL DEF Spec, NoMainGap

\* The same for the DLQ producer, from its first token on.
THEOREM DlqCovered == Spec => NoDlqGap
<1>1. TInv /\ [Next]_vars =>
        [Tick /\ ~lastFailed /\ loop # "stopped" /\ dlqFed => dlqTok > 0]_vars
  BY EnoughIsValid DEF TInv, TypeOK, GapInv
<1>q. QED
  BY <1>1, Invariance, PTL DEF Spec, NoDlqGap

\* The loop leaves Keycloak alone for RetryWait after every failure, and after
\* every success for as long as the token outlives the buffer, or RetryWait.
THEOREM KeycloakSpared == Spec => Paced
<1>1. TInv /\ [Next]_vars => [Wake => rest >= Pause]_vars
  BY DEF TInv, TypeOK, PaceInv, Wake
<1>q. QED
  BY <1>1, Invariance, PTL DEF Spec, Paced

\* After the cancellation at most one request of the loop is still to end, and
\* nothing is fetched or handed over after it.
THEOREM OneLateRequest == Spec => AtMostOneLate
<1>1. TInv /\ [Next]_vars => [Wake \/ LoopPush => ~spent]_vars
  <2>1. TInv /\ Wake => ~spent
    BY DEF TInv, PaceInv, Wake
  <2>2. TInv /\ LoopPush => ~spent
    BY DEF TInv, GapInv, LoopOK, PaceInv, LoopPush, Fetchers
  <2>q. QED
    BY <2>1, <2>2
<1>q. QED
  BY <1>1, Invariance, PTL DEF Spec, AtMostOneLate

\* However many fetches fail, and whoever's, the loop never sleeps while the
\* consumer's token is expired.
THEOREM OutageNoticed == Spec => OutageIsSeen
<1>1. TInv /\ [Next]_vars =>
        [Tick /\ mainTok = 0 /\ loop # "stopped" => loop \in {"fetch", "wait"}]_vars
  <2> SUFFICES ASSUME TInv, Tick, mainTok = 0, loop \notin {"stopped", "fetch", "wait"}
               PROVE  FALSE
    OBVIOUS
  <2>1. loop = "sleep" /\ timer # 0
    BY DEF TInv, TypeOK, Tick, Urgent
  <2>2. current <= PostTime
    BY DEF TInv, CacheInv, Tick, Urgent
  <2>3. timer + Buffer <= current
    BY <2>1 DEF TInv, CacheInv
  <2>q. QED
    BY <2>1, <2>2, <2>3 DEF TInv, TypeOK
<1>q. QED
  BY <1>1, Invariance, PTL DEF Spec, OutageIsSeen

\* The loop has stopped two POST times after the cancellation.
THEOREM StopBounded == Spec => []StopsInTime
<1>1. TInv => StopsInTime
  BY DEF TInv, LateInv, StopsInTime
<1>q. QED
  BY <1>1, Invariance, PTL
=============================================================================
