------------------------------ MODULE Producer ------------------------------
(* One run of cmd/producer: main with its produce loop and deferred flush,  *)
(* the signal goroutine, handleEvents, and the health server; librdkafka    *)
(* and the broker as far as the code sees them.  ScramSpec is the variant   *)
(* of src/kafka-cluster/cluster-without-oauth, which knows no tokens.       *)
EXTENDS Integers, FiniteSets

CONSTANTS MaxMessages,  \* bound: messages the loop attempts
          QueueLimit    \* queue.buffering.max.messages of librdkafka

ASSUME ProducerAssumption == MaxMessages \in Nat /\ QueueLimit \in Nat

Messages == 1..MaxMessages

\* Where a message is: not attempted, refused by Produce, in librdkafka's queue,
\* a delivery report in the Events channel, or counted by handleEvents.
Places == {"none", "refused", "queue", "acked", "failed", "success", "error"}

MainStates == {"boot", "setup", "connected", "loop", "flush", "exited", "dead"}

VARIABLES
  main,     \* where main is; "dead" is the end of a process that did not return
  next,     \* i + 1: the number of the next message
  at,       \* [Messages -> Places]
  stored,   \* the messages the topic holds
  events,   \* handleEvents: "none", "select", "fetch" (a token) or "stopped"
  refresh,  \* an OAuthBearerTokenRefresh waits in the Events channel
  fatal,    \* a fatal kafka.Error: "no", "raised" (in the channel) or "handled"
  sig,      \* the signal goroutine: "waiting", "caught", "unready" or "done"
  ctxDone,  \* cancel() was called
  ready, healthy,  \* health.Status
  server    \* the health server: "none", "up", "failed" (to listen) or "down"

vars == <<main, next, at, stored, events, refresh, fatal, sig, ctxDone, ready, healthy, server>>
mainVars == <<main, next>>
kafkaVars == <<stored, refresh, fatal>>
statusVars == <<sig, ctxDone, ready, healthy, server>>

Alive == main \notin {"exited", "dead"}
InPlace(s) == {m \in Messages : at[m] \in s}

Init ==
  /\ main = "boot" /\ next = 1
  /\ at = [m \in Messages |-> "none"]
  /\ stored = {}
  /\ events = "none" /\ refresh = FALSE /\ fatal = "no"
  /\ sig = "waiting" /\ ctxDone = FALSE
  /\ ready = FALSE /\ healthy = TRUE /\ server = "none"

------------------------------------------------------------------------------
(* main *)

\* NewStatus, the health server starts, signal.Notify takes the signals over.
Notify ==
  /\ main = "boot"
  /\ main' = "setup"
  /\ server' = "up"
  /\ UNCHANGED <<next, at, events, kafkaVars, sig, ctxDone, ready, healthy>>

\* First token, NewProducer, refresh loop, handleEvents.
Connect ==
  /\ main = "setup"
  /\ main' = "connected"
  /\ events' = "select"
  /\ UNCHANGED <<next, at, kafkaVars, statusVars>>

\* Any of them fails: log.Fatal.
ConnectFails ==
  /\ main = "setup"
  /\ main' = "dead"
  /\ UNCHANGED <<next, at, events, kafkaVars, statusVars>>

\* SetReady(true), whatever the signal goroutine did meanwhile.
EnterLoop ==
  /\ main = "connected"
  /\ main' = "loop"
  /\ ready' = TRUE
  /\ UNCHANGED <<next, at, events, kafkaVars, sig, ctxDone, healthy, server>>

\* Mutant: i += i for i++.
NumberDoubles == next + next

\* i++
Number == next + 1

\* The ticker fires: the next message, which Produce enqueues ...
Attempt(place) ==
  /\ main = "loop" /\ next \in Messages
  /\ at' = [at EXCEPT ![next] = place]
  /\ next' = Number
  /\ UNCHANGED <<main, events, kafkaVars, statusVars>>

QueueFull == Cardinality(InPlace({"queue"})) >= QueueLimit

Enqueue == ~QueueFull /\ fatal = "no" /\ Attempt("queue")

\* Mutant: a message that could not be enqueued is taken for enqueued.
RefuseSilent == (QueueFull \/ fatal # "no") /\ Attempt("acked")

\* ... or refuses, and main counts an error.
Refuse == (QueueFull \/ fatal # "no") /\ Attempt("refused")

\* The select sees the context done and main returns into its defers.
StopLoop ==
  /\ main = "loop" /\ ctxDone
  /\ main' = "flush"
  /\ UNCHANGED <<next, at, events, kafkaVars, statusVars>>

\* What Flush waits for: messages without a report and events nobody has read.
Outstanding == InPlace({"queue", "acked", "failed"}) # {} \/ refresh \/ fatal = "raised"

\* Mutant: Flush(-1), without a timeout.
FlushForever ==
  /\ main = "flush" /\ ~Outstanding
  /\ main' = "exited"
  /\ UNCHANGED <<next, at, events, kafkaVars, statusVars>>

\* Flush(10000) returns when nothing is outstanding or its time is over; the
\* producer is closed and main returns.
Flush ==
  /\ main = "flush"
  /\ main' = "exited"
  /\ UNCHANGED <<next, at, events, kafkaVars, statusVars>>

------------------------------------------------------------------------------
(* The signal goroutine and the health server *)

\* SIGTERM, which kills the process before signal.Notify.
Sigterm ==
  /\ Alive /\ sig = "waiting"
  /\ IF main = "boot" THEN main' = "dead" /\ UNCHANGED sig
                      ELSE sig' = "caught" /\ UNCHANGED main
  /\ UNCHANGED <<next, at, events, kafkaVars, ctxDone, ready, healthy, server>>

SetUnready ==
  /\ Alive /\ sig = "caught"
  /\ sig' = "unready"
  /\ ready' = FALSE
  /\ UNCHANGED <<mainVars, at, events, kafkaVars, ctxDone, healthy, server>>

Cancel ==
  /\ Alive /\ sig = "unready"
  /\ sig' = "done"
  /\ ctxDone' = TRUE
  /\ UNCHANGED <<mainVars, at, events, kafkaVars, ready, healthy, server>>

\* What a listening server answers to the kubelet's probes.
Answer(flag) == IF flag THEN 200 ELSE 503
HealthAnswer == Answer(healthy)
ReadyAnswer == Answer(ready)

\* ListenAndServe returns an error (the port is taken), which is only logged.
ListenFails ==
  /\ Alive /\ server = "up"
  /\ server' = "failed"
  /\ UNCHANGED <<mainVars, at, events, kafkaVars, sig, ctxDone, ready, healthy>>

\* The liveness probe finds nobody listening, or an answer of 503, and the
\* kubelet stops the container.
LivenessKill ==
  /\ server = "up" => HealthAnswer # 200
  /\ server \in {"up", "failed"}
  /\ Sigterm

\* The server's second goroutine shuts it down.
ShutDown ==
  /\ Alive /\ ctxDone /\ server = "up"
  /\ server' = "down"
  /\ UNCHANGED <<mainVars, at, events, kafkaVars, sig, ctxDone, ready, healthy>>

\* SIGKILL or an out-of-memory kill.
Crash ==
  /\ Alive
  /\ main' = "dead"
  /\ UNCHANGED <<next, at, events, kafkaVars, statusVars>>

------------------------------------------------------------------------------
(* librdkafka and the broker *)

\* A request reaches the in-sync replicas; it may be one whose answer nobody
\* waits for any more, or whose sender is gone.
Append(m) ==
  /\ at[m] \in {"queue", "failed", "error"} /\ m \notin stored
  /\ stored' = stored \cup {m}
  /\ UNCHANGED <<mainVars, at, events, refresh, fatal, statusVars>>

\* Mutant: "acks" 0, the report does not wait for the broker.
AcknowledgeUnseen(m) ==
  /\ Alive /\ at[m] = "queue"
  /\ at' = [at EXCEPT ![m] = "acked"]
  /\ UNCHANGED <<mainVars, events, kafkaVars, statusVars>>

\* "acks" all: the report of success follows the append.
Acknowledge(m) ==
  /\ Alive /\ at[m] = "queue" /\ m \in stored
  /\ at' = [at EXCEPT ![m] = "acked"]
  /\ UNCHANGED <<mainVars, events, kafkaVars, statusVars>>

\* message.timeout.ms, retries used up, a fatal error: a report of failure.
DeliveryFails(m) ==
  /\ Alive /\ at[m] = "queue"
  /\ at' = [at EXCEPT ![m] = "failed"]
  /\ UNCHANGED <<mainVars, events, kafkaVars, statusVars>>

\* librdkafka asks for a token.
RefreshAsked ==
  /\ Alive /\ events # "none" /\ ~refresh
  /\ refresh' = TRUE
  /\ UNCHANGED <<mainVars, at, stored, events, fatal, statusVars>>

\* The idempotent producer cannot go on: every later Produce is refused.
FatalRaised ==
  /\ Alive /\ events # "none" /\ fatal = "no"
  /\ fatal' = "raised"
  /\ UNCHANGED <<mainVars, at, stored, events, refresh, statusVars>>

------------------------------------------------------------------------------
(* handleEvents *)

Selecting == Alive /\ events = "select"

CountSuccess(m) ==
  /\ Selecting /\ at[m] = "acked"
  /\ at' = [at EXCEPT ![m] = "success"]
  /\ UNCHANGED <<mainVars, events, kafkaVars, statusVars>>

CountError(m) ==
  /\ Selecting /\ at[m] = "failed"
  /\ at' = [at EXCEPT ![m] = "error"]
  /\ UNCHANGED <<mainVars, events, kafkaVars, statusVars>>

\* OAuthBearerTokenRefresh: FetchUMAToken blocks the goroutine ...
StartFetch ==
  /\ Selecting /\ refresh
  /\ refresh' = FALSE
  /\ events' = "fetch"
  /\ UNCHANGED <<mainVars, at, stored, fatal, statusVars>>

\* Mutant: a failed refresh returns instead of `continue`.
FetchReturnsStops ==
  /\ Alive /\ events = "fetch"
  /\ events' \in {"select", "stopped"}
  /\ UNCHANGED <<mainVars, at, kafkaVars, statusVars>>

\* ... and goes on with SetOAuthBearerToken or SetOAuthBearerTokenFailure.
FetchReturns ==
  /\ Alive /\ events = "fetch"
  /\ events' = "select"
  /\ UNCHANGED <<mainVars, at, kafkaVars, statusVars>>

\* kafka.Error is logged.
HandleError ==
  /\ Selecting /\ fatal = "raised"
  /\ fatal' = "handled"
  /\ UNCHANGED <<mainVars, at, stored, events, refresh, statusVars>>

\* The select sees the context done; what is in the channel stays there.
EventsStop ==
  /\ Selecting /\ ctxDone
  /\ events' = "stopped"
  /\ UNCHANGED <<mainVars, at, kafkaVars, statusVars>>
------------------------------------------------------------------------------

Main == Notify \/ Connect \/ EnterLoop \/ StopLoop \/ Flush
Signal == SetUnready \/ Cancel
Report(m) == Acknowledge(m) \/ DeliveryFails(m)
Count(m) == CountSuccess(m) \/ CountError(m)

Next ==
  \/ Main \/ ConnectFails \/ Enqueue \/ Refuse
  \/ Sigterm \/ Signal \/ ListenFails \/ ShutDown \/ Crash
  \/ RefreshAsked \/ FatalRaised
  \/ StartFetch \/ FetchReturns \/ HandleError \/ EventsStop
  \/ \E m \in Messages : Append(m) \/ Report(m) \/ Count(m)

Spec == Init /\ [][Next]_vars

\* The variant with a SCRAM password: nobody asks for tokens or fetches them.
ScramMain == Main \/ ConnectFails \/ Enqueue \/ Refuse
ScramEvents == HandleError \/ EventsStop \/ \E m \in Messages : Count(m)
ScramSignal == Sigterm \/ Signal
ScramHealth == ListenFails \/ ShutDown

ScramNext ==
  \/ ScramMain \/ ScramEvents \/ ScramSignal \/ ScramHealth
  \/ Crash \/ FatalRaised
  \/ \E m \in Messages : Append(m) \/ Report(m)

ScramSpec == Init /\ [][ScramNext]_vars

\* The goroutines run; librdkafka reports every message by message.timeout.ms;
\* the Events channel is first in, first out, so a report in it is handled
\* although token requests keep coming.  The probe of a broken server fails as
\* often as failureThreshold asks.
Fairness ==
  /\ WF_vars(LivenessKill)
  /\ WF_vars(Main) /\ WF_vars(Signal) /\ WF_vars(ShutDown)
  /\ WF_vars(FetchReturns)
  /\ \A m \in Messages : WF_vars(Report(m)) /\ SF_vars(Count(m))

FairSpec == Spec /\ Fairness

------------------------------------------------------------------------------
(* Properties *)

TypeOK ==
  /\ main \in MainStates /\ next \in 1..(MaxMessages + 1)
  /\ at \in [Messages -> Places] /\ stored \subseteq Messages
  /\ events \in {"none", "select", "fetch", "stopped"}
  /\ refresh \in BOOLEAN /\ fatal \in {"no", "raised", "handled"}
  /\ sig \in {"waiting", "caught", "unready", "done"}
  /\ ctxDone \in BOOLEAN /\ ready \in BOOLEAN /\ healthy \in BOOLEAN
  /\ server \in {"none", "up", "failed", "down"}

\* The messages: numbered in order, a report of success only for a stored one,
\* nothing in the topic that Produce refused.
MessageInv ==
  /\ \A m \in Messages : (at[m] = "none") <=> (m >= next)
  /\ \A m \in Messages : at[m] \in {"acked", "success"} => m \in stored
  /\ \A m \in stored : at[m] \notin {"none", "refused"}

\* Shutdown: each goroutine is only as far as the ones before it.
ShutdownInv ==
  /\ ctxDone <=> sig = "done"
  /\ main \in {"flush", "exited"} \/ events = "stopped" \/ server = "down" => ctxDone
  /\ main \in {"boot", "setup"} => events = "none" /\ ~ready
  /\ main = "loop" /\ ~ready => sig \in {"unready", "done"}

PInv == TypeOK /\ MessageInv /\ ShutdownInv

\* What has become of each message.
Verdict == [m \in Messages |->
              IF at[m] \in {"success", "error", "refused"} THEN at[m] ELSE "open"]

\* What the producer owes: every message gets one verdict at most, "success"
\* only when the topic holds it, refused messages never get there, whatever the
\* order of reports, shutdown and crash.
D == INSTANCE Delivery WITH
       attempted <- InPlace(Places \ {"none"}),
       stored <- stored,
       verdict <- Verdict
DeliverySpec == D!Spec

\* A pod told to stop exits, although handleEvents may have stopped with
\* delivery reports in the channel, which Flush then waits for in vain.
SignalExits == sig = "caught" ~> ~Alive

\* A pod that nobody can probe does not stay: the failed liveness probe stops
\* it through the signal goroutine, the loop and the flush, wherever it is.
ProbeRestarts == server = "failed" ~> ~Alive

\* While nobody stops the producer, every message it took is counted in the
\* end, whatever token refreshes fail or take their time.
Counted == \A m \in Messages :
             at[m] = "queue" ~> (at[m] \in {"success", "error"} \/ ctxDone \/ ~Alive)

\* "flipped to false on fatal errors": once handleEvents has a fatal error in
\* its hands, which makes Produce refuse every later message, /health tells the
\* kubelet so, or the process ends.
FatalIsSeen == fatal = "handled" ~> (HealthAnswer = 503 \/ ~Alive)

\* "stop accepting readiness traffic": once the signal goroutine has taken the
\* pod out of readiness, /ready does not answer 200 again.
StaysUnready == Alive /\ server = "up" /\ sig \in {"unready", "done"} => ReadyAnswer = 503
=============================================================================
