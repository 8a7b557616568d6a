--------------------------- MODULE ConsumerTiming ---------------------------
(* The main goroutine of cmd/consumer against its two deadlines: the group  *)
(* takes the partitions of a member that does not poll for                  *)
(* max.poll.interval.ms, and the kubelet kills a pod that has not exited    *)
(* terminationGracePeriodSeconds after SIGTERM.  Time is counted in ticks;  *)
(* each step has the longest time it may take, and ends earlier at will     *)
(* unless the code sleeps.                                                  *)
EXTENDS Integers

CONSTANTS
  PollTime,       \* Poll(200)
  Delay,          \* PROCESSING_DELAY_MS
  Timeout,        \* PROCESSING_TIMEOUT, of each attempt
  MaxAttempts, InitialWait, MaxWait, Multiplier,  \* RetryConfig
  PostTime,       \* Timeout of the http.Client, twice in FetchUMAToken
  BrokerTime,     \* external: longest CommitMessage, and longest consumer.Close
  FlushTime,      \* Flush(5000) of the DLQ publisher
  MaxPollInterval,\* max.poll.interval.ms
  Grace           \* terminationGracePeriodSeconds

\* Wait before the k-th attempt of a message, counted from its Poll.
Before(k) == Delay + (k - 1) * (Timeout + MaxWait)

ASSUME TimingAssumption ==
  /\ {PollTime, Delay, Timeout, InitialWait, MaxWait, Multiplier} \subseteq Nat
  /\ {PostTime, BrokerTime, FlushTime, MaxPollInterval, Grace} \subseteq Nat
  /\ MaxAttempts \in Nat \ {0} /\ InitialWait <= MaxWait

\* The most a message and a token request may take between two polls ...
ASSUME PollAssumption ==
  /\ Before(MaxAttempts) + Timeout + BrokerTime <= MaxPollInterval
  /\ 2 * PostTime <= MaxPollInterval

\* ... and after SIGTERM, which cuts attempts and backoffs short, but neither
\* the delay nor a token request; then Close and Flush.
ASSUME GraceAssumption ==
  /\ PollTime + 2 * PostTime + BrokerTime + FlushTime <= Grace
  /\ PollTime + Delay + 2 * BrokerTime + FlushTime <= Grace

Timed == {"start", "poll", "sleep", "attempt", "backoff", "commit", "token", "close", "flush"}
Handling == {"sleep", "ready", "attempt", "backoff", "commit", "token"}

VARIABLES
  pc,         \* the call main is in; "top" is the select of the consume loop,
              \* "ready" the call of fn in WithRetry
  left,       \* the time that call may still take
  attempt,    \* WithRetry: attempt
  wait,       \* WithRetry: wait
  cancelled,  \* SIGTERM has come and the signal goroutine has called cancel
  sinceTerm,  \* how long ago that was
  sincePoll   \* how long ago Poll returned

vars == <<pc, left, attempt, wait, cancelled, sinceTerm, sincePoll>>

Init ==
  /\ pc = "start" /\ left = 2 * PostTime
  /\ attempt = 0 /\ wait = 0
  /\ cancelled = FALSE /\ sinceTerm = 0 /\ sincePoll = 0

\* Control moves on to a call that takes `limit` at most.
Enter(call, limit) == pc' = call /\ left' = limit

Local == <<attempt, wait>>
Clocks == <<sinceTerm, sincePoll>>

------------------------------------------------------------------------------
(* Time *)

\* The context reaches the attempt and the backoff at once.
CutShort == cancelled /\ pc \in {"attempt", "backoff"}

Tick ==
  /\ pc \in Timed /\ left > 0 /\ ~CutShort
  /\ left' = left - 1
  /\ sinceTerm' = IF cancelled THEN sinceTerm + 1 ELSE sinceTerm
  /\ sincePoll' = IF pc \in Handling THEN sincePoll + 1 ELSE sincePoll
  /\ UNCHANGED <<pc, Local, cancelled>>

------------------------------------------------------------------------------
(* Startup, shutdown, restart *)

\* The first token has come, the consumer has subscribed.
Started ==
  /\ pc = "start"
  /\ Enter("top", 0)
  /\ UNCHANGED <<Local, cancelled, Clocks>>

\* log.Fatal, in the startup or when Poll returns ErrAllBrokersDown.
Fatal ==
  /\ pc \in {"start", "poll"}
  /\ Enter("exited", 0)
  /\ UNCHANGED <<Local, cancelled, Clocks>>

Sigterm ==
  /\ pc # "exited" /\ ~cancelled
  /\ cancelled' = TRUE
  /\ UNCHANGED <<pc, left, Local, Clocks>>

\* Mutant: the loop does not look at the context.
TopBlind ==
  /\ pc = "top"
  /\ Enter("poll", PollTime)
  /\ sincePoll' = 0
  /\ UNCHANGED <<Local, cancelled, sinceTerm>>

\* The top of the loop: the deferred consumer.Close, or the next Poll.
Top ==
  /\ pc = "top"
  /\ IF cancelled THEN Enter("close", BrokerTime) ELSE Enter("poll", PollTime)
  /\ sincePoll' = 0
  /\ UNCHANGED <<Local, cancelled, sinceTerm>>

\* The deferred dlqPub.Close follows.
Closed ==
  /\ pc = "close"
  /\ Enter("flush", FlushTime)
  /\ UNCHANGED <<Local, cancelled, Clocks>>

\* producer.Close after the Flush only ends threads of the client; it waits for no
\* broker and takes no tick.  main returns.
Flushed ==
  /\ pc = "flush"
  /\ Enter("exited", 0)
  /\ UNCHANGED <<Local, cancelled, Clocks>>

\* The Deployment starts the next process.
Restart ==
  /\ pc = "exited"
  /\ Enter("start", 2 * PostTime)
  /\ cancelled' = FALSE /\ sinceTerm' = 0 /\ sincePoll' = 0
  /\ UNCHANGED Local

------------------------------------------------------------------------------
(* The events of Poll *)

PollNil ==
  /\ pc = "poll"
  /\ Enter("top", 0)
  /\ UNCHANGED <<Local, cancelled, Clocks>>

\* Mutant: the delay is taken for seconds.
SleepTimeSeconds == 1000 * Delay

\* time.Duration(ms) * time.Millisecond
SleepTime == Delay

PollMessage ==
  /\ pc = "poll"
  /\ Enter("sleep", SleepTime)
  /\ UNCHANGED <<Local, cancelled, Clocks>>

PollRefresh ==
  /\ pc = "poll"
  /\ Enter("token", 2 * PostTime)
  /\ UNCHANGED <<Local, cancelled, Clocks>>

\* FetchUMAToken, which takes no context, has returned either way.
TokenReturns ==
  /\ pc = "token"
  /\ Enter("top", 0)
  /\ UNCHANGED <<Local, cancelled, Clocks>>

------------------------------------------------------------------------------
(* A message: the delay, WithRetry, Publish if it failed, CommitMessage *)

\* time.Sleep is over and WithRetry begins.
Slept ==
  /\ pc = "sleep" /\ left = 0
  /\ Enter("ready", 0)
  /\ attempt' = 1 /\ wait' = InitialWait
  /\ UNCHANGED <<cancelled, Clocks>>

\* WithRetry returns; Publish only enqueues, and CommitMessage is called.
Return ==
  /\ Enter("commit", BrokerTime)
  /\ attempt' = 0 /\ wait' = 0

\* Mutant: there is always another attempt.
FailedForever == Enter("backoff", wait) /\ UNCHANGED Local

\* An attempt failed: the last one, or the wait before the next.
Failed ==
  IF attempt = MaxAttempts THEN Return
  ELSE Enter("backoff", wait) /\ UNCHANGED Local

\* fn, with a timeout of its own; processMessage looks at the context first.
Attempt ==
  /\ pc = "ready"
  /\ IF cancelled THEN Failed ELSE Enter("attempt", Timeout) /\ UNCHANGED Local
  /\ UNCHANGED <<cancelled, Clocks>>

AttemptOk ==
  /\ pc = "attempt"
  /\ Return
  /\ UNCHANGED <<cancelled, Clocks>>

AttemptFails ==
  /\ pc = "attempt"
  /\ Failed
  /\ UNCHANGED <<cancelled, Clocks>>

\* wait * Multiplier, capped by MaxWait
NextWait == IF wait * Multiplier > MaxWait THEN MaxWait ELSE wait * Multiplier

\* time.After has fired; if the context is done too, select may still take it.
BackoffElapsed ==
  /\ pc = "backoff" /\ left = 0
  /\ Enter("ready", 0)
  /\ attempt' = attempt + 1 /\ wait' = NextWait
  /\ UNCHANGED <<cancelled, Clocks>>

BackoffCancelled ==
  /\ pc = "backoff" /\ cancelled
  /\ Return
  /\ UNCHANGED <<cancelled, Clocks>>

\* The offset is committed, or the failure logged.
Committed ==
  /\ pc = "commit"
  /\ Enter("top", 0)
  /\ UNCHANGED <<Local, cancelled, Clocks>>

------------------------------------------------------------------------------

Next ==
  \/ Tick \/ Started \/ Fatal \/ Sigterm \/ Top \/ Closed \/ Flushed \/ Restart
  \/ PollNil \/ PollMessage \/ PollRefresh \/ TokenReturns
  \/ Slept \/ Attempt \/ AttemptOk \/ AttemptFails
  \/ BackoffElapsed \/ BackoffCancelled \/ Committed

Spec == Init /\ [][Next]_vars

------------------------------------------------------------------------------
(* Properties *)

TypeOK ==
  /\ pc \in Timed \cup {"top", "ready", "exited"}
  /\ left \in Nat /\ wait \in 0..MaxWait
  /\ attempt \in 0..MaxAttempts
  /\ attempt > 0 <=> pc \in {"ready", "attempt", "backoff"}
  /\ cancelled \in BOOLEAN /\ sinceTerm \in Nat /\ sincePoll \in Nat

\* What the call main is in and the calls before it take since Poll returned.
PollBudget ==
  /\ pc = "sleep" => sincePoll + left <= Before(1)
  /\ pc = "ready" => sincePoll <= Before(attempt)
  /\ pc = "attempt" => sincePoll + left <= Before(attempt) + Timeout
  /\ pc = "backoff" => /\ attempt < MaxAttempts
                       /\ sincePoll + left <= Before(attempt + 1)
  /\ pc = "commit" => sincePoll + left <= Before(MaxAttempts) + Timeout + BrokerTime
  /\ pc = "token" => sincePoll + left <= 2 * PostTime
  /\ pc = "top" => sincePoll <= MaxPollInterval
  /\ pc \notin Handling \cup {"top"} => sincePoll = 0

\* What may still pass before main has returned, if SIGTERM comes now or came
\* sinceTerm ago.
GraceBudget ==
  LET used == sinceTerm + BrokerTime + FlushTime IN  \* with Close and Flush
  /\ ~cancelled => sinceTerm = 0
  /\ pc = "top" => used <= Grace
  /\ pc \in {"start", "commit", "token"} => used + left <= Grace
  /\ pc = "poll" => /\ used + left + 2 * PostTime <= Grace
                    /\ used + left + Delay + BrokerTime <= Grace
  /\ pc = "sleep" => used + left + BrokerTime <= Grace
  /\ pc \in {"ready", "attempt", "backoff"} => used + BrokerTime <= Grace
  /\ pc = "close" => sinceTerm + left + FlushTime <= Grace
  /\ pc = "flush" => sinceTerm + left <= Grace

TimeInv == TypeOK /\ PollBudget /\ GraceBudget

\* "max.poll.interval.ms": a pod that handles a message or fetches a token is
\* back in Poll before the group takes its partitions, whatever the retries.
PollInTime == sincePoll <= MaxPollInterval

\* "Give the pod enough time to finish processing + commit offsets on
\* shutdown": wherever SIGTERM meets main, it returns before the kill.
ExitInTime == pc # "exited" => sinceTerm <= Grace
=============================================================================
