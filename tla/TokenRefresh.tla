---------------------------- MODULE TokenRefresh ----------------------------
(* The Keycloak token of a Kafka client: internal/auth/keycloak.go with the *)
(* two places that use it, main of cmd/consumer (OnRefresh and the          *)
(* OAuthBearerTokenRefresh case) and dlq.Publisher.UpdateToken.             *)
(*                                                                          *)
(* Two goroutines fetch tokens from Keycloak and write KeycloakClient's     *)
(* cache: the refresh loop, which then runs OnRefresh, and the main         *)
(* goroutine when librdkafka asks for a token, which then sets the token of *)
(* its own handle only.  Time is counted in ticks; a token is the time it   *)
(* still has, and a timer the time it still runs, so nothing grows.         *)
EXTENDS Integers

CONSTANTS Lifetime,     \* expires_in of a token
          Buffer,       \* refreshBuffer
          PostTime,     \* Timeout of the http.Client: the longest POST
          RetryWait,    \* the wait after a failed refresh of the loop
          HintAt,       \* remaining time at which librdkafka asks for a token
          MaxFailures   \* bound: how many fetches fail in a behaviour

ASSUME TimeAssumption ==
  /\ Lifetime \in Nat /\ Buffer \in Nat /\ PostTime \in Nat
  /\ RetryWait \in Nat /\ HintAt \in Nat /\ MaxFailures \in Nat
  /\ 0 < PostTime /\ 0 < RetryWait

\* 30 s is three times the 10 s of a POST.
ASSUME BufferAssumption == 3 * PostTime <= Buffer

\* A token lives an hour.  One that outlived the buffer by nothing would let the
\* loop fetch again at once, for ever.
ASSUME LifetimeAssumption == Buffer < Lifetime

Fetchers == {"loop", "demand"}

\* doRefresh is two POSTs, and the loop looks at the context only around it.
MaxLate == 2 * PostTime

VARIABLES
  current,   \* time until k.current.ExpiresAt, as the client believes
  mainTok,   \* what the token of the consumer's handle has left at the broker
  dlqTok,    \* the same for the handle of the DLQ producer
  loop,      \* the refresh loop: "startup" until it runs, then "plan", "sleep",
             \* "fetch", "wait" or "stopped"
  timer,     \* what time.After of the loop still runs
  phase,     \* [Fetchers -> "idle", "base", "uma" or "push"]: its doRefresh
  age,       \* [Fetchers -> Nat]: how long its POST is under way
  issued,    \* [Fetchers -> Nat]: what the token it is fetching has left
  ctxDone,   \* the context is cancelled
  failures,  \* how many fetches failed
  lastFailed,\* history: the last fetch of the loop failed
  dlqFed,    \* history: OnRefresh has given the DLQ producer a token
  rest,      \* history: time since the last fetch for the loop ended, up to
             \* RetryWait
  spent,     \* history: a fetch of the loop ended after the cancellation
  late       \* history: how long the loop has outlived the cancellation, up to
             \* MaxLate + 1

history == <<lastFailed, dlqFed, rest, spent, late>>
vars == <<current, mainTok, dlqTok, loop, timer, phase, age, issued, ctxDone, failures, history>>

Init ==
  /\ current = 0 /\ mainTok = 0 /\ dlqTok = 0
  /\ loop = "startup" /\ timer = 0
  /\ phase = [f \in Fetchers |-> "idle"]
  /\ age = [f \in Fetchers |-> 0]
  /\ issued = [f \in Fetchers |-> 0]
  /\ ctxDone = FALSE /\ failures = 0 /\ lastFailed = FALSE /\ dlqFed = FALSE
  /\ rest = 0 /\ spent = FALSE /\ late = 0

\* The startup of main: FetchUMAToken succeeds, SetOAuthBearerToken gives the
\* token to the consumer, StartRefreshLoop starts the loop.  Nobody gives the
\* DLQ producer one: it is created with "sasl.oauthbearer.config", which only
\* says how unsecured tokens are made, and its event loop skips
\* OAuthBearerTokenRefresh.
Startup ==
  /\ loop = "startup"
  /\ loop' = "plan"
  /\ current' = Lifetime
  /\ mainTok' \in (Lifetime - PostTime)..Lifetime
  /\ UNCHANGED <<dlqTok, timer, phase, age, issued, ctxDone, failures, history>>

------------------------------------------------------------------------------
(* Time *)

Less(n) == IF n = 0 THEN 0 ELSE n - 1

\* What may not wait: a timer that has run out, a select that sees the context
\* cancelled, a token to hand over, the computation of the next sleep, a POST at
\* its timeout.
Urgent == \/ loop \in {"sleep", "wait"} /\ (timer = 0 \/ ctxDone)
          \/ loop \in {"startup", "plan"}
          \/ \E f \in Fetchers : \/ phase[f] = "push"
                                 \/ phase[f] \in {"base", "uma"} /\ age[f] = PostTime

\* Time passes: tokens age, those still on their way from Keycloak too.
Tick ==
  /\ ~Urgent
  /\ current' = Less(current) /\ mainTok' = Less(mainTok) /\ dlqTok' = Less(dlqTok)
  /\ timer' = Less(timer)
  /\ age' = [f \in Fetchers |-> IF phase[f] = "idle" THEN age[f] ELSE age[f] + 1]
  /\ issued' = [f \in Fetchers |-> Less(issued[f])]
  /\ rest' = IF rest < RetryWait THEN rest + 1 ELSE rest
  /\ late' = IF ctxDone /\ loop # "stopped" /\ late <= MaxLate THEN late + 1 ELSE late
  /\ UNCHANGED <<loop, phase, ctxDone, failures, lastFailed, dlqFed, spent>>

------------------------------------------------------------------------------
(* doRefresh *)

\* Mutants: the buffer is forgotten; a negative duration is not cut off.
SleepDurationLate == current
SleepDurationRaw == current - Buffer

\* sleepDuration: until the buffer before the expiry the cache believes in.
SleepDuration == IF current < Buffer THEN 0 ELSE current - Buffer

\* fetchBaseToken is posted.
StartFetch(f) ==
  /\ phase' = [phase EXCEPT ![f] = "base"]
  /\ age' = [age EXCEPT ![f] = 0]

\* The base token has come and exchangeUMA is posted.
BaseArrives(f) ==
  /\ phase[f] = "base"
  /\ phase' = [phase EXCEPT ![f] = "uma"]
  /\ age' = [age EXCEPT ![f] = 0]
  /\ issued' = [issued EXCEPT ![f] = 0]
  /\ UNCHANGED <<current, mainTok, dlqTok, loop, timer, ctxDone, failures, history>>

\* Keycloak issues the token, some time before the client sees it.
Issue(f) ==
  /\ phase[f] = "uma" /\ issued[f] = 0
  /\ issued' = [issued EXCEPT ![f] = Lifetime]
  /\ UNCHANGED <<current, mainTok, dlqTok, loop, timer, phase, age, ctxDone, failures, history>>

\* Mutant: expires_in is taken for nanoseconds.
TokenArrivesExpired(f) ==
  /\ phase[f] = "uma" /\ issued[f] > 0
  /\ phase' = [phase EXCEPT ![f] = "push"]
  /\ current' = 0
  /\ UNCHANGED <<mainTok, dlqTok, loop, timer, age, issued, ctxDone, failures, history>>

\* The token arrives: ExpiresAt counts expires_in from now, and the cache is
\* overwritten, whatever the other goroutine has put there meanwhile.
TokenArrives(f) ==
  /\ phase[f] = "uma" /\ issued[f] > 0
  /\ phase' = [phase EXCEPT ![f] = "push"]
  /\ current' = Lifetime
  /\ UNCHANGED <<mainTok, dlqTok, loop, timer, age, issued, ctxDone, failures, history>>

------------------------------------------------------------------------------
(* StartRefreshLoop *)

\* The top of the loop sets its timer from the cache as it is now.
Plan ==
  /\ loop = "plan"
  /\ loop' = "sleep"
  /\ timer' = SleepDuration
  /\ UNCHANGED <<current, mainTok, dlqTok, phase, age, issued, ctxDone, failures, history>>

Wake ==
  /\ loop = "sleep" /\ timer = 0
  /\ loop' = "fetch"
  /\ StartFetch("loop")
  /\ UNCHANGED <<current, mainTok, dlqTok, timer, issued, ctxDone, failures, history>>

\* OnRefresh hands the token to the consumer and to the DLQ producer.  Either
\* handle refuses only a token that is expired, which a new one is not, or that
\* comes after its Close.
OnRefresh(tok) == mainTok' = tok /\ dlqTok' = tok /\ dlqFed' = TRUE

LoopPush ==
  /\ phase["loop"] = "push"
  /\ OnRefresh(issued["loop"])
  /\ phase' = [phase EXCEPT !["loop"] = "idle"]
  /\ issued' = [issued EXCEPT !["loop"] = 0]
  /\ age' = [age EXCEPT !["loop"] = 0]
  /\ loop' = "plan"
  /\ lastFailed' = FALSE /\ rest' = 0 /\ spent' = ctxDone
  /\ UNCHANGED <<current, timer, ctxDone, failures, late>>

\* A POST of f fails or times out.
FetchFails(f) ==
  /\ phase[f] \in {"base", "uma"}
  /\ failures < MaxFailures
  /\ failures' = failures + 1
  /\ phase' = [phase EXCEPT ![f] = "idle"]
  /\ issued' = [issued EXCEPT ![f] = 0]
  /\ age' = [age EXCEPT ![f] = 0]

\* Mutants: a failed refresh is not retried; it is retried at once.
LoopFailsStops ==
  /\ FetchFails("loop")
  /\ loop' = "stopped" /\ UNCHANGED timer
  /\ lastFailed' = TRUE /\ rest' = 0 /\ spent' = ctxDone
  /\ UNCHANGED <<current, mainTok, dlqTok, ctxDone, dlqFed, late>>

LoopFailsAtOnce ==
  /\ FetchFails("loop")
  /\ loop' = "wait" /\ timer' = 0
  /\ lastFailed' = TRUE /\ rest' = 0 /\ spent' = ctxDone
  /\ UNCHANGED <<current, mainTok, dlqTok, ctxDone, dlqFed, late>>

\* The loop logs the failure and waits.
LoopFails ==
  /\ FetchFails("loop")
  /\ loop' = "wait" /\ timer' = RetryWait
  /\ lastFailed' = TRUE /\ rest' = 0 /\ spent' = ctxDone
  /\ UNCHANGED <<current, mainTok, dlqTok, ctxDone, dlqFed, late>>

\* `continue`: back to sleepDuration, not to doRefresh.
WaitElapsed ==
  /\ loop = "wait" /\ timer = 0
  /\ loop' = "plan"
  /\ UNCHANGED <<current, mainTok, dlqTok, timer, phase, age, issued, ctxDone, failures, history>>

\* Either select sees the context cancelled.
LoopStops ==
  /\ loop \in {"sleep", "wait"} /\ ctxDone
  /\ loop' = "stopped"
  /\ timer' = 0 /\ late' = 0
  /\ UNCHANGED <<current, mainTok, dlqTok, phase, age, issued, ctxDone, failures, lastFailed,
                 dlqFed, rest, spent>>

Cancel ==
  /\ ~ctxDone
  /\ ctxDone' = TRUE
  /\ UNCHANGED <<current, mainTok, dlqTok, loop, timer, phase, age, issued, failures, history>>

------------------------------------------------------------------------------
(* The OAuthBearerTokenRefresh case of the consume loop *)

\* librdkafka asks: a share of the lifetime of the handle's token has passed.
\* The Poll that is under way at the cancellation may still return it.
Demand ==
  /\ phase["demand"] = "idle" /\ mainTok <= HintAt
  /\ loop # "startup"
  /\ StartFetch("demand")
  /\ UNCHANGED <<current, mainTok, dlqTok, loop, timer, issued, ctxDone, failures, history>>

\* Mutant: the fetched token is cached but given to no handle.
DemandPushForgets ==
  /\ phase["demand"] = "push"
  /\ phase' = [phase EXCEPT !["demand"] = "idle"]
  /\ issued' = [issued EXCEPT !["demand"] = 0]
  /\ age' = [age EXCEPT !["demand"] = 0]
  /\ UNCHANGED <<current, mainTok, dlqTok, loop, timer, ctxDone, failures, history>>

\* Only the consumer's own handle gets the token.
DemandPush ==
  /\ phase["demand"] = "push"
  /\ mainTok' = issued["demand"]
  /\ phase' = [phase EXCEPT !["demand"] = "idle"]
  /\ issued' = [issued EXCEPT !["demand"] = 0]
  /\ age' = [age EXCEPT !["demand"] = 0]
  /\ UNCHANGED <<current, dlqTok, loop, timer, ctxDone, failures, history>>

\* SetOAuthBearerTokenFailure: librdkafka will ask again.
DemandFails ==
  /\ FetchFails("demand")
  /\ UNCHANGED <<current, mainTok, dlqTok, loop, timer, ctxDone, history>>

------------------------------------------------------------------------------

Fetch(f) == BaseArrives(f) \/ Issue(f) \/ TokenArrives(f)

LoopStep == Startup \/ Plan \/ Wake \/ LoopPush \/ WaitElapsed \/ LoopStops

Next == \/ Tick \/ Cancel
        \/ LoopStep \/ LoopFails
        \/ Demand \/ DemandPush \/ DemandFails
        \/ \E f \in Fetchers : Fetch(f)

Spec == Init /\ [][Next]_vars

\* Time passes, Keycloak answers, the goroutines run.  librdkafka need not ask.
Fairness == /\ WF_vars(Tick) /\ WF_vars(LoopStep) /\ WF_vars(DemandPush)
            /\ \A f \in Fetchers : WF_vars(Fetch(f))

FairSpec == Spec /\ Fairness

------------------------------------------------------------------------------
(* Properties *)

TypeOK ==
  /\ current \in 0..Lifetime /\ mainTok \in 0..Lifetime /\ dlqTok \in 0..Lifetime
  /\ loop \in {"startup", "sleep", "fetch", "wait", "plan", "stopped"}
  /\ timer \in 0..(Lifetime + RetryWait)
  /\ phase \in [Fetchers -> {"idle", "base", "uma", "push"}]
  /\ age \in [Fetchers -> 0..PostTime]
  /\ issued \in [Fetchers -> 0..Lifetime]
  /\ ctxDone \in BOOLEAN /\ failures \in 0..MaxFailures
  /\ lastFailed \in BOOLEAN /\ dlqFed \in BOOLEAN
  /\ rest \in 0..RetryWait /\ spent \in BOOLEAN /\ late \in 0..(MaxLate + 1)

\* Unless the loop's last fetch has failed, no time passes with an expired token
\* in the consumer's handle, however slow the POSTs are, wherever in a POST
\* Keycloak issues the token, whoever else fetches or fails to at the same time,
\* and however often the loop has failed before.
NoMainGap == [][Tick /\ ~lastFailed /\ loop # "stopped" => mainTok > 0]_vars

\* The same for the DLQ producer, which only OnRefresh feeds, from its first
\* token on.
NoDlqGap == [][Tick /\ ~lastFailed /\ loop # "stopped" /\ dlqFed => dlqTok > 0]_vars

\* While the consumer's token is expired, whatever has failed, the loop fetches
\* or waits to retry: it never sleeps through an outage of the consumer, since
\* whoever renews the cache it sleeps by renews that token too.
OutageIsSeen ==
  [][Tick /\ mainTok = 0 /\ loop # "stopped" => loop \in {"fetch", "wait"}]_vars

\* After a failure, too, the loop gets a token to both handles in the end; to the
\* DLQ producer's, which nobody else feeds, its first one.
Recovers == /\ (mainTok = 0) ~> (mainTok > 0 \/ ctxDone)
            /\ (dlqTok = 0) ~> (dlqTok > 0 \/ ctxDone)

\* How long the loop leaves Keycloak alone: RetryWait after a failure; after a
\* success as long as the token outlives the buffer, of which the history counts
\* no more than RetryWait.
Pause == IF lastFailed \/ Lifetime >= Buffer + RetryWait THEN RetryWait ELSE Lifetime - Buffer

\* Keycloak is never asked by the loop sooner than that after the last answer or
\* failure, whatever the cache says and whoever else has written it: a lifetime
\* hardly longer than the buffer shortens the pause after a success by exactly
\* what is missing, and the pause after a failure by nothing.
Paced == [][Wake => rest >= Pause]_vars

\* Once the context is cancelled at most one request of the loop is still to
\* end: no token is fetched, or handed to a handle main may be closing, after
\* it, although the timer and the context may be ready at the same moment.
AtMostOneLate == [][Wake \/ LoopPush => ~spent]_vars

\* The loop outlives the cancellation by one refresh at most, 20 s with POSTs of
\* 10 s, although the timer and the context may be ready at the same moment.
StopsInTime == late <= MaxLate

\* "Stops when ctx is cancelled", from wherever it is, even in a request.
CancelStops == ctxDone ~> (loop = "stopped")

\* "On failure retry every 5s": after the wait the loop does not sleep again.
RetryAfterFailure == lastFailed /\ loop = "sleep" => timer = 0

------------------------------------------------------------------------------
(* The inductive invariant behind NoMainGap and NoDlqGap *)

\* What a handle's token has left is enough for the rest of the loop's way to
\* the next one, `tok` being that token.
Enough(tok) ==
  /\ loop = "sleep" => tok >= timer + Buffer - PostTime
  /\ phase["loop"] = "base" => tok >= Buffer - PostTime - age["loop"]
  /\ phase["loop"] = "uma" => tok >= Buffer - 2 * PostTime - age["loop"]
  /\ loop = "plan" => tok >= Lifetime - PostTime

\* Where the loop is says what its fetch is doing; a token on its way has lost
\* no more than the time of its POST; a cached expiry is never past the end of
\* a new token.
LoopOK ==
  /\ (loop = "fetch") <=> (phase["loop"] # "idle")
  /\ \A f \in Fetchers : /\ phase[f] = "idle" => age[f] = 0
                         /\ phase[f] \in {"uma", "push"} /\ issued[f] > 0
                               => issued[f] >= Lifetime - age[f]
                         /\ phase[f] = "push" => issued[f] > 0
                         /\ phase[f] \in {"idle", "base"} => issued[f] = 0

GapInv ==
  /\ LoopOK
  /\ loop = "sleep" => timer + Buffer <= Lifetime
  /\ loop = "startup" => ~dlqFed
  /\ ~lastFailed => loop # "wait"
  /\ ~lastFailed => Enough(mainTok)
  /\ ~lastFailed /\ dlqFed => Enough(dlqTok)

\* The inductive invariant behind Paced and AtMostOneLate: what the loop has
\* waited and still waits is at least Pause, and after its last request it
\* cannot plan a sleep of no length.
PaceInv ==
  /\ phase["loop"] = "push" => current = Lifetime
  /\ loop \in {"sleep", "wait"} => rest + timer >= Pause
  /\ loop = "startup" => ~lastFailed
  /\ loop = "plan" => IF lastFailed THEN rest = RetryWait ELSE current = Lifetime
  /\ spent => /\ ctxDone /\ loop \notin {"startup", "fetch"}
              /\ loop \in {"sleep", "wait"} => timer > 0
              /\ loop = "plan" => current = Lifetime

\* The inductive invariant behind OutageIsSeen: the cache promises no more than
\* the consumer's token holds, but for a POST's time and a token about to be
\* handed over, and a running timer ends before the buffer of the cache.
CacheInv ==
  /\ (\A f \in Fetchers : phase[f] # "push") => current <= mainTok + PostTime
  /\ loop = "sleep" => timer = 0 \/ timer + Buffer <= current

\* The inductive invariant behind StopsInTime: only a fetch takes time after the
\* cancellation, and there is one at most.
LateInv ==
  /\ ~ctxDone \/ loop \in {"startup", "stopped"} => late = 0
  /\ loop \in {"plan", "sleep", "wait"} /\ ~spent => late = 0
  /\ phase["loop"] = "base" => late <= age["loop"]
  /\ phase["loop"] = "uma" => late <= PostTime + age["loop"]
  /\ late <= MaxLate

TInv == TypeOK /\ GapInv /\ PaceInv /\ CacheInv /\ LateInv
=============================================================================
