------------------------------ MODULE Consumer ------------------------------
(* The consumer group of src/kafka-go-app/cmd/consumer: each consumer is    *)
(* one pod running main(), whose main goroutine polls Kafka, retries the    *)
(* processing of one record at a time, hands what keeps failing to the dead *)
(* letter queue (DLQ) publisher and commits the offset of the record        *)
(* whatever happened to it.  Beside it run the signal goroutine, which      *)
(* cancels the context, the background threads of librdkafka and, in the    *)
(* broker, the group coordinator of the eager rebalance protocol.           *)
(*                                                                          *)
(* Out of this module: OAuth tokens (TokenRefresh), the durations of the    *)
(* back-off, the payload, headers and metrics.                              *)
EXTENDS Integers, FiniteSets

CONSTANTS Consumers,    \* the pods of the deployment
          Partitions,   \* the partitions of KAFKA_TOPIC
          MaxOffset,    \* bound: records produced to each partition
          MaxAttempts,  \* RetryConfig.MaxAttempts
          MaxFaults,    \* bound: how many faults happen in a behaviour
          FaultKinds,   \* which kinds of fault may happen
          NoRecord      \* "no record is being handled"

AllFaultKinds == {"sigterm", "crash", "fatal", "evict", "commit",
                  "produce", "delivery", "flush"}

ASSUME OffsetAssumption == MaxOffset \in Nat
ASSUME AttemptsAssumption == MaxAttempts \in Nat \ {0}
ASSUME FaultsAssumption == MaxFaults \in Nat /\ FaultKinds \subseteq AllFaultKinds

Rec(p, o) == [part |-> p, off |-> o]
Offsets == 0..(MaxOffset - 1)
Records == [part : Partitions, off : Offsets]
ASSUME NoRecordAssumption == NoRecord \notin Records

VARIABLES
  \* The broker: the topic, the group's offsets, the group coordinator.
  logEnd,     \* [Partitions -> Nat]: the offset the next record will get
  committed,  \* [Partitions -> Int]: the group's committed offset, -1 when none
  members,    \* the consumers the coordinator counts as members of the group
  joined,     \* the members that sent JoinGroup in the rebalance under way
  stable,     \* FALSE while a rebalance is under way
  target,     \* [Consumers -> SUBSET Partitions]: the coordinator's assignment
  dlqTopic,   \* the records whose copy is in KAFKA_DLQ_TOPIC
  \* A pod.
  pc,         \* [Consumers -> Locations]: where the main goroutine is
  ctxDone,    \* [Consumers -> BOOLEAN]: cancel() has been called
  ready,      \* [Consumers -> BOOLEAN]: health.Status.ready
  cst,        \* [Consumers -> GroupStates]: the group state of the client
  assigned,   \* [Consumers -> SUBSET Partitions]: what Assign() was last given
  pos,        \* [Consumers -> [Partitions -> Nat]]: the next offset to fetch
  cur,        \* [Consumers -> Records \cup {NoRecord}]: the event e of the loop
  attempts,   \* [Consumers -> Nat]: failed attempts of WithRetry at cur
  dlqQueue,   \* [Consumers -> SUBSET Records]: in the DLQ producer's queue
  \* History, read by the properties and by no guard.
  done,       \* the records some processMessage returned nil for
  sent,       \* the records given to Publisher.Publish
  skipped,    \* the records auto.offset.reset jumped over
  delivered,  \* the records Poll has returned
  failed,     \* the records whose commit failed although the pod was a member
  served,     \* [Consumers -> BOOLEAN]: this process has had an assignment
  faults      \* how many faults happened, and the kinds of them

brokerVars == <<logEnd, committed, members, joined, stable, target, dlqTopic>>
groupVars  == <<members, joined, stable, target>>
clientVars == <<cst, assigned, pos, ready, served>>
history    == <<done, sent, skipped, delivered, failed>>
vars == <<logEnd, committed, members, joined, stable, target, dlqTopic, pc, ctxDone,
          ready, cst, assigned, pos, cur, attempts, dlqQueue, done, sent, skipped,
          delivered, failed, served, faults>>

\* Where main() is: not running, before Subscribe, at the top of the loop, in
\* Poll, in an attempt of WithRetry, waiting between two attempts, in Publish,
\* in CommitMessage, in the deferred consumer.Close, in the deferred
\* dlqPub.Close.
Busy == {"attempt", "backoff", "publish", "commit"}
Locations == {"down", "starting", "loop", "poll", "close", "flush"} \cup Busy

\* The client in the group: not subscribed, about to join as a new member,
\* about to rejoin as the member it is, waiting for its assignment, owning one.
GroupStates == {"none", "joining", "rejoining", "joined", "assigned"}

\* What the code counts as dealt with: "DLQ'd messages are still handled".
Handled == done \cup sent \cup skipped

Fault(k) == /\ k \in FaultKinds
            /\ faults.count < MaxFaults
            /\ faults' = [count |-> faults.count + 1, kinds |-> faults.kinds \cup {k}]

Only(kinds) == faults.kinds \subseteq kinds

------------------------------------------------------------------------------
(* The environment *)

Init ==
  /\ logEnd = [p \in Partitions |-> 0]
  /\ committed = [p \in Partitions |-> -1]
  /\ members = {} /\ joined = {} /\ stable = TRUE
  /\ target = [c \in Consumers |-> {}]
  /\ dlqTopic = {}
  /\ pc = [c \in Consumers |-> "down"]
  /\ ctxDone = [c \in Consumers |-> FALSE]
  /\ ready = [c \in Consumers |-> FALSE]
  /\ cst = [c \in Consumers |-> "none"]
  /\ assigned = [c \in Consumers |-> {}]
  /\ pos = [c \in Consumers |-> [p \in Partitions |-> 0]]
  /\ cur = [c \in Consumers |-> NoRecord]
  /\ attempts = [c \in Consumers |-> 0]
  /\ dlqQueue = [c \in Consumers |-> {}]
  /\ done = {} /\ sent = {} /\ skipped = {} /\ delivered = {} /\ failed = {}
  /\ served = [c \in Consumers |-> FALSE]
  /\ faults = [count |-> 0, kinds |-> {}]

\* A producer appends a record to a partition.
Produce(p) ==
  /\ logEnd[p] < MaxOffset
  /\ logEnd' = [logEnd EXCEPT ![p] = @ + 1]
  /\ UNCHANGED <<committed, groupVars, dlqTopic, pc, ctxDone, clientVars, cur,
                 attempts, dlqQueue, history, faults>>

\* The coordinator forgets c: its session timed out.  For a pod that is gone
\* (a dead process, or a new one that has not joined yet) this only takes time;
\* for a live member (a pause, a partition) it is a fault.
Evict(c) ==
  /\ c \in members
  /\ \/ cst[c] \in {"none", "joining"} /\ UNCHANGED faults
     \/ cst[c] \notin {"none", "joining"} /\ Fault("evict")
  /\ members' = members \ {c}
  /\ joined' = joined \ {c}
  /\ stable' = FALSE
  /\ UNCHANGED <<logEnd, committed, target, dlqTopic, pc, ctxDone, clientVars, cur,
                 attempts, dlqQueue, history>>

\* librdkafka joins the group.  An old membership of a pod that died has to
\* time out first.
Join(c) ==
  /\ cst[c] \in {"joining", "rejoining"}
  /\ c \in members => cst[c] = "rejoining"
  /\ members' = members \cup {c}
  /\ joined' = joined \cup {c}
  /\ stable' = FALSE
  /\ cst' = [cst EXCEPT ![c] = "joined"]
  /\ UNCHANGED <<logEnd, committed, target, dlqTopic, pc, ctxDone, assigned, pos, ready,
                 served, cur, attempts, dlqQueue, history, faults>>

\* A member evicted while it waited for its assignment starts over.
JoinLost(c) ==
  /\ cst[c] = "joined" /\ c \notin members
  /\ cst' = [cst EXCEPT ![c] = "joining"]
  /\ UNCHANGED <<brokerVars, pc, ctxDone, assigned, pos, ready, served, cur, attempts,
                 dlqQueue, history, faults>>

\* Every member has rejoined: the coordinator gives each partition to one of
\* them and the rebalance ends.
Rebalanced ==
  /\ ~stable /\ members # {} /\ joined = members
  /\ \E owner \in [Partitions -> members] :
        target' = [c \in Consumers |-> {p \in Partitions : owner[p] = c}]
  /\ joined' = {}
  /\ stable' = TRUE
  /\ UNCHANGED <<logEnd, committed, members, dlqTopic, pc, ctxDone, clientVars, cur,
                 attempts, dlqQueue, history, faults>>

------------------------------------------------------------------------------
(* The life of the process *)

\* Kubernetes starts the container again.
Boot(c) ==
  /\ pc[c] = "down"
  /\ pc' = [pc EXCEPT ![c] = "starting"]
  /\ ctxDone' = [ctxDone EXCEPT ![c] = FALSE]
  /\ UNCHANGED <<brokerVars, clientVars, cur, attempts, dlqQueue, history, faults>>

\* The end of the startup: Subscribe returns at once (the group is joined in
\* the background) and the pod says it is ready.
Subscribe(c) ==
  /\ pc[c] = "starting"
  /\ pc' = [pc EXCEPT ![c] = "loop"]
  /\ cst' = [cst EXCEPT ![c] = "joining"]
  /\ ready' = [ready EXCEPT ![c] = TRUE]
  /\ UNCHANGED <<brokerVars, ctxDone, assigned, pos, served, cur, attempts, dlqQueue,
                 history, faults>>

\* The process is gone without running its defers: its membership stays until
\* the session times out, its producer queue is lost.
Gone(c) ==
  /\ pc' = [pc EXCEPT ![c] = "down"]
  /\ ready' = [ready EXCEPT ![c] = FALSE]
  /\ served' = [served EXCEPT ![c] = FALSE]
  /\ cst' = [cst EXCEPT ![c] = "none"]
  /\ assigned' = [assigned EXCEPT ![c] = {}]
  /\ pos' = [pos EXCEPT ![c] = [p \in Partitions |-> 0]]
  /\ cur' = [cur EXCEPT ![c] = NoRecord]
  /\ attempts' = [attempts EXCEPT ![c] = 0]
  /\ dlqQueue' = [dlqQueue EXCEPT ![c] = {}]
  /\ UNCHANGED <<brokerVars, ctxDone, history>>

\* SIGKILL, an OOM kill, a lost node.
Crash(c) == pc[c] # "down" /\ Fault("crash") /\ Gone(c)

\* log.Fatal calls os.Exit: an error of the startup, or ErrAllBrokersDown.
Fatal(c) == pc[c] \in {"starting", "poll"} /\ Fault("fatal") /\ Gone(c)

\* The signal goroutine: SIGTERM or SIGINT cancels the context, once.
Sigterm(c) ==
  /\ pc[c] # "down" /\ ~ctxDone[c]
  /\ Fault("sigterm")
  /\ ctxDone' = [ctxDone EXCEPT ![c] = TRUE]
  /\ UNCHANGED <<brokerVars, pc, clientVars, cur, attempts, dlqQueue, history>>

------------------------------------------------------------------------------
(* The consume loop *)

\* Mutant: `break` where the code has `return` only leaves the select.
CheckCtxBreaks(c) ==
  /\ pc[c] = "loop"
  /\ pc' = [pc EXCEPT ![c] = "poll"]
  /\ UNCHANGED <<brokerVars, ctxDone, clientVars, cur, attempts, dlqQueue, history, faults>>

\* The select at the top of the loop.
CheckCtx(c) ==
  /\ pc[c] = "loop"
  /\ pc' = [pc EXCEPT ![c] = IF ctxDone[c] THEN "close" ELSE "poll"]
  /\ UNCHANGED <<brokerVars, ctxDone, clientVars, cur, attempts, dlqQueue, history, faults>>

\* Poll times out, or returns an event that changes nothing modelled here.
PollNil(c) ==
  /\ pc[c] = "poll"
  /\ pc' = [pc EXCEPT ![c] = "loop"]
  /\ UNCHANGED <<brokerVars, ctxDone, clientVars, cur, attempts, dlqQueue, history, faults>>

\* Mutant: every assignment starts at the end of the log.
StartOffsetLatest(p) == logEnd[p]

\* The position a partition starts from: the committed offset, or without one
\* the end of the log ("auto.offset.reset": "latest").
StartOffset(p) == IF committed[p] = -1 THEN logEnd[p] ELSE committed[p]

\* The records that starting there leaves behind unseen.
SkippedOf(p) == IF committed[p] = -1 THEN {Rec(p, o) : o \in 0..(logEnd[p] - 1)} ELSE {}

\* Mutant: rebalanceCb forgets SetReady(true).
PollAssignedSilent(c) ==
  /\ pc[c] = "poll"
  /\ cst[c] = "joined" /\ c \in members \ joined
  /\ pc' = [pc EXCEPT ![c] = "loop"]
  /\ cst' = [cst EXCEPT ![c] = "assigned"]
  /\ served' = [served EXCEPT ![c] = TRUE]
  /\ assigned' = [assigned EXCEPT ![c] = target[c]]
  /\ pos' = [pos EXCEPT ![c] = [p \in Partitions |-> IF p \in target[c] THEN StartOffset(p) ELSE 0]]
  /\ skipped' = skipped \cup UNION {SkippedOf(p) : p \in target[c]}
  /\ UNCHANGED <<brokerVars, ready, ctxDone, cur, attempts, dlqQueue, done, sent, delivered,
                 failed, faults>>

\* Poll runs rebalanceCb with AssignedPartitions.
PollAssigned(c) ==
  /\ pc[c] = "poll"
  /\ cst[c] = "joined" /\ c \in members \ joined
  /\ pc' = [pc EXCEPT ![c] = "loop"]
  /\ cst' = [cst EXCEPT ![c] = "assigned"]
  /\ ready' = [ready EXCEPT ![c] = TRUE]
  /\ served' = [served EXCEPT ![c] = TRUE]
  /\ assigned' = [assigned EXCEPT ![c] = target[c]]
  /\ pos' = [pos EXCEPT ![c] = [p \in Partitions |-> IF p \in target[c] THEN StartOffset(p) ELSE 0]]
  /\ skipped' = skipped \cup UNION {SkippedOf(p) : p \in target[c]}
  /\ UNCHANGED <<brokerVars, ctxDone, cur, attempts, dlqQueue, done, sent, delivered,
                 failed, faults>>

\* Mutant: rebalanceCb forgets Unassign.
PollRevokedKeeps(c) ==
  /\ pc[c] = "poll"
  /\ cst[c] = "assigned" /\ (c \notin members \/ ~stable)
  /\ pc' = [pc EXCEPT ![c] = "loop"]
  /\ cst' = [cst EXCEPT ![c] = IF c \in members THEN "rejoining" ELSE "joining"]
  /\ ready' = [ready EXCEPT ![c] = FALSE]
  /\ UNCHANGED <<brokerVars, ctxDone, assigned, pos, served, cur, attempts, dlqQueue,
                 history, faults>>

\* Poll runs rebalanceCb with RevokedPartitions: a rebalance began, or the
\* member was evicted.  The callback's SetReady and Unassign are one step, as
\* everything Poll does before it returns.
PollRevoked(c) ==
  /\ pc[c] = "poll"
  /\ cst[c] = "assigned" /\ (c \notin members \/ ~stable)
  /\ pc' = [pc EXCEPT ![c] = "loop"]
  /\ cst' = [cst EXCEPT ![c] = IF c \in members THEN "rejoining" ELSE "joining"]
  /\ ready' = [ready EXCEPT ![c] = FALSE]
  /\ assigned' = [assigned EXCEPT ![c] = {}]
  /\ pos' = [pos EXCEPT ![c] = [p \in Partitions |-> 0]]
  /\ UNCHANGED <<brokerVars, ctxDone, served, cur, attempts, dlqQueue, history, faults>>

\* Poll returns the next record of an assigned partition.
PollMessage(c) ==
  /\ pc[c] = "poll"
  /\ \E p \in assigned[c] :
        /\ pos[c][p] < logEnd[p]
        /\ cur' = [cur EXCEPT ![c] = Rec(p, pos[c][p])]
        /\ delivered' = delivered \cup {Rec(p, pos[c][p])}
        /\ pos' = [pos EXCEPT ![c][p] = @ + 1]
  /\ pc' = [pc EXCEPT ![c] = "attempt"]
  /\ UNCHANGED <<brokerVars, ctxDone, ready, served, cst, assigned, attempts, dlqQueue,
                 done, sent, skipped, failed, faults>>

\* What Poll may return besides nothing.
PollEvent(c) == PollAssigned(c) \/ PollRevoked(c) \/ PollMessage(c)

------------------------------------------------------------------------------
(* WithRetry around processMessage *)

\* processMessage finds the context alive and returns nil.
AttemptOk(c) ==
  /\ pc[c] = "attempt" /\ ~ctxDone[c]
  /\ pc' = [pc EXCEPT ![c] = "commit"]
  /\ done' = done \cup {cur[c]}
  /\ attempts' = [attempts EXCEPT ![c] = 0]
  /\ UNCHANGED <<brokerVars, ctxDone, clientVars, cur, dlqQueue, sent, skipped,
                 delivered, failed, faults>>

\* Mutant: attempt > MaxAttempts instead of attempt == MaxAttempts.
AttemptFailLate(c) ==
  /\ pc[c] = "attempt"
  /\ LET last == attempts[c] + 1 > MaxAttempts IN
        /\ pc' = [pc EXCEPT ![c] = IF last THEN "publish" ELSE "backoff"]
        /\ attempts' = [attempts EXCEPT ![c] = @ + 1]
  /\ UNCHANGED <<brokerVars, ctxDone, clientVars, cur, dlqQueue, history, faults>>

\* Mutant: the last attempt allowed is never made.
AttemptFailEarly(c) ==
  /\ pc[c] = "attempt"
  /\ LET last == attempts[c] + 1 >= MaxAttempts - 1 IN
        /\ pc' = [pc EXCEPT ![c] = IF last THEN "publish" ELSE "backoff"]
        /\ attempts' = [attempts EXCEPT ![c] = @ + 1]
  /\ UNCHANGED <<brokerVars, ctxDone, clientVars, cur, dlqQueue, history, faults>>

\* It returns an error: the context is cancelled, or the business logic failed
\* (FORCE_FAIL_RATIO).  The last attempt leaves the loop of WithRetry.
AttemptFail(c) ==
  /\ pc[c] = "attempt"
  /\ LET last == attempts[c] + 1 = MaxAttempts IN
        /\ pc' = [pc EXCEPT ![c] = IF last THEN "publish" ELSE "backoff"]
        /\ attempts' = [attempts EXCEPT ![c] = @ + 1]
  /\ UNCHANGED <<brokerVars, ctxDone, clientVars, cur, dlqQueue, history, faults>>

\* The back-off timer fires.  With the context cancelled too, select may still
\* take this branch.
BackoffElapsed(c) ==
  /\ pc[c] = "backoff"
  /\ pc' = [pc EXCEPT ![c] = "attempt"]
  /\ UNCHANGED <<brokerVars, ctxDone, clientVars, cur, attempts, dlqQueue, history, faults>>

\* Mutant: a cancelled retry is taken for a success.
BackoffCancelledDropped(c) ==
  /\ pc[c] = "backoff" /\ ctxDone[c]
  /\ pc' = [pc EXCEPT ![c] = "commit"]
  /\ attempts' = [attempts EXCEPT ![c] = 0]
  /\ UNCHANGED <<brokerVars, ctxDone, clientVars, cur, dlqQueue, history, faults>>

\* The context is cancelled before it fires: WithRetry gives up early.
BackoffCancelled(c) ==
  /\ pc[c] = "backoff" /\ ctxDone[c]
  /\ pc' = [pc EXCEPT ![c] = "publish"]
  /\ UNCHANGED <<brokerVars, ctxDone, clientVars, cur, attempts, dlqQueue, history, faults>>

------------------------------------------------------------------------------
(* The dead letter queue and the commit *)

\* Publish enqueues the record in the DLQ producer, or logs that it could not;
\* the loop goes on to the commit either way.
Publish(c) ==
  /\ pc[c] = "publish"
  /\ pc' = [pc EXCEPT ![c] = "commit"]
  /\ sent' = sent \cup {cur[c]}
  /\ attempts' = [attempts EXCEPT ![c] = 0]
  /\ \/ dlqQueue' = [dlqQueue EXCEPT ![c] = @ \cup {cur[c]}] /\ UNCHANGED faults
     \/ Fault("produce") /\ UNCHANGED dlqQueue
  /\ UNCHANGED <<brokerVars, ctxDone, clientVars, cur, done, skipped, delivered,
                 failed>>

\* Mutants: the offset of the record itself; one offset too many.
NextOffsetSame(r) == r.off
NextOffsetSkips(r) == IF r.off + 2 <= MaxOffset THEN r.off + 2 ELSE r.off + 1

\* CommitMessage(e) commits the offset after e.
NextOffset(r) == r.off + 1

\* The coordinator accepts the commit of a member, during a rebalance too.
CommitOk(c) ==
  /\ pc[c] = "commit"
  /\ c \in members
  /\ committed' = [committed EXCEPT ![cur[c].part] = NextOffset(cur[c])]
  /\ pc' = [pc EXCEPT ![c] = "loop"]
  /\ cur' = [cur EXCEPT ![c] = NoRecord]
  /\ UNCHANGED <<logEnd, groupVars, dlqTopic, ctxDone, clientVars, attempts, dlqQueue,
                 history, faults>>

\* It refuses the one of an evicted consumer, and a request may fail; the error
\* is logged and the loop goes on.
CommitFails(c) ==
  /\ pc[c] = "commit"
  /\ \/ c \notin members /\ UNCHANGED <<failed, faults>>
     \/ c \in members /\ Fault("commit") /\ failed' = failed \cup {cur[c]}
  /\ pc' = [pc EXCEPT ![c] = "loop"]
  /\ cur' = [cur EXCEPT ![c] = NoRecord]
  /\ UNCHANGED <<brokerVars, ctxDone, clientVars, attempts, dlqQueue, done, sent, skipped,
                 delivered>>

\* The broker acknowledges a record of the DLQ producer.
DlqDeliver(c) ==
  /\ \E r \in dlqQueue[c] :
        /\ dlqQueue' = [dlqQueue EXCEPT ![c] = @ \ {r}]
        /\ dlqTopic' = dlqTopic \cup {r}
  /\ UNCHANGED <<logEnd, committed, groupVars, pc, ctxDone, clientVars, cur, attempts,
                 history, faults>>

\* It gives a record up: the drain goroutine logs it and forgets it.
DlqDeliveryFails(c) ==
  /\ Fault("delivery")
  /\ \E r \in dlqQueue[c] : dlqQueue' = [dlqQueue EXCEPT ![c] = @ \ {r}]
  /\ UNCHANGED <<brokerVars, pc, ctxDone, clientVars, cur, attempts, history>>

------------------------------------------------------------------------------
(* The defers of main, last one first *)

\* consumer.Close revokes the assignment and leaves the group.
CloseConsumer(c) ==
  /\ pc[c] = "close"
  /\ pc' = [pc EXCEPT ![c] = "flush"]
  /\ cst' = [cst EXCEPT ![c] = "none"]
  /\ ready' = [ready EXCEPT ![c] = IF cst[c] = "assigned" THEN FALSE ELSE @]
  /\ assigned' = [assigned EXCEPT ![c] = {}]
  /\ pos' = [pos EXCEPT ![c] = [p \in Partitions |-> 0]]
  /\ IF cst[c] # "joining" /\ c \in members
     THEN /\ members' = members \ {c}
          /\ joined' = joined \ {c}
          /\ stable' = FALSE
     ELSE UNCHANGED <<members, joined, stable>>
  /\ UNCHANGED <<logEnd, committed, target, dlqTopic, ctxDone, served, cur, attempts,
                 dlqQueue, history, faults>>

\* Mutant: Close without Flush.
CloseDlqNoFlush(c) ==
  /\ pc[c] = "flush"
  /\ UNCHANGED faults
  /\ Gone(c)

\* dlqPub.Close: Flush returns when the queue is empty or after 5 s, Close
\* throws away what is left and main returns.
CloseDlq(c) ==
  /\ pc[c] = "flush"
  /\ \/ dlqQueue[c] = {} /\ UNCHANGED faults
     \/ dlqQueue[c] # {} /\ Fault("flush")
  /\ Gone(c)

------------------------------------------------------------------------------
(* Specification *)

\* A step of the main goroutine of c.
Main(c) == \/ Subscribe(c) \/ CheckCtx(c) \/ PollNil(c) \/ PollEvent(c)
           \/ AttemptOk(c) \/ AttemptFail(c)
           \/ BackoffElapsed(c) \/ BackoffCancelled(c)
           \/ Publish(c) \/ CommitOk(c) \/ CommitFails(c)
           \/ CloseConsumer(c) \/ CloseDlq(c)

\* A step of librdkafka, of the coordinator or of Kubernetes about c.
Background(c) == \/ Boot(c) \/ Crash(c) \/ Fatal(c) \/ Sigterm(c)
                 \/ Evict(c) \/ Join(c) \/ JoinLost(c)
                 \/ DlqDeliver(c) \/ DlqDeliveryFails(c)

Next == \/ \E p \in Partitions : Produce(p)
        \/ Rebalanced
        \/ \E c \in Consumers : Main(c) \/ Background(c)

Spec == Init /\ [][Next]_vars

\* The consumer of the SCRAM variant, which has files of its own: static
\* credentials, so that Poll returns no token request, and otherwise the steps
\* above, one operator for each of its functions.
ScramStartup(c) == Boot(c) \/ Subscribe(c)
ScramLoop(c) == CheckCtx(c) \/ PollNil(c) \/ PollMessage(c) \/ CommitOk(c) \/ CommitFails(c)
ScramRebalanceCb(c) == PollAssigned(c) \/ PollRevoked(c)
ScramRetry(c) == AttemptFail(c) \/ BackoffElapsed(c) \/ BackoffCancelled(c)
ScramPublisher(c) == Publish(c) \/ DlqDeliver(c) \/ DlqDeliveryFails(c)
ScramClose(c) == CloseConsumer(c) \/ CloseDlq(c)

ScramNext ==
  \/ \E p \in Partitions : Produce(p)
  \/ Rebalanced
  \/ \E c \in Consumers :
        \/ ScramStartup(c) \/ ScramLoop(c) \/ ScramRebalanceCb(c)
        \/ AttemptOk(c) \/ ScramRetry(c) \/ ScramPublisher(c) \/ ScramClose(c)
        \/ Sigterm(c) \/ Fatal(c) \/ Crash(c)
        \/ Evict(c) \/ Join(c) \/ JoinLost(c)

ScramSpec == Init /\ [][ScramNext]_vars

\* The session of a pod that is gone times out in the end.
SessionTimeout(c) == cst[c] \in {"none", "joining"} /\ Evict(c)

\* main runs on, an event that stays available is returned by some Poll, the
\* coordinator, librdkafka and the kubelet do their work.  No fault is fair.
Fairness ==
  /\ WF_vars(Rebalanced)
  /\ \A c \in Consumers :
        /\ WF_vars(Main(c)) /\ SF_vars(PollEvent(c))
        /\ WF_vars(Boot(c)) /\ WF_vars(SessionTimeout(c))
        /\ WF_vars(Join(c)) /\ WF_vars(JoinLost(c)) /\ WF_vars(DlqDeliver(c))

FairSpec == Spec /\ Fairness

------------------------------------------------------------------------------
(* Safety *)

TypeOK ==
  /\ logEnd \in [Partitions -> 0..MaxOffset]
  /\ committed \in [Partitions -> -1..MaxOffset]
  /\ members \subseteq Consumers /\ joined \subseteq members /\ stable \in BOOLEAN
  /\ target \in [Consumers -> SUBSET Partitions]
  /\ dlqTopic \subseteq Records
  /\ pc \in [Consumers -> Locations]
  /\ ctxDone \in [Consumers -> BOOLEAN] /\ ready \in [Consumers -> BOOLEAN]
  /\ cst \in [Consumers -> GroupStates]
  /\ assigned \in [Consumers -> SUBSET Partitions]
  /\ pos \in [Consumers -> [Partitions -> 0..MaxOffset]]
  /\ cur \in [Consumers -> Records \cup {NoRecord}]
  /\ attempts \in [Consumers -> 0..MaxAttempts]
  /\ dlqQueue \in [Consumers -> SUBSET Records]
  /\ done \subseteq Records /\ sent \subseteq Records
  /\ skipped \subseteq Records /\ delivered \subseteq Records /\ failed \subseteq Records
  /\ served \in [Consumers -> BOOLEAN]
  /\ faults \in [count : 0..MaxFaults, kinds : SUBSET AllFaultKinds]

\* Every record below the committed offset of its partition was dealt with:
\* processed, given to the DLQ publisher, or jumped over by "latest".  The
\* commit of a record commits everything before it too, so this depends on the
\* order of the loop and on no record being in flight across a rebalance.
CommittedHandled ==
  \A p \in Partitions, o \in Offsets : o < committed[p] => Rec(p, o) \in Handled

\* Two members of the group never own the same partition, although the
\* coordinator moves on without asking whether an evicted pod has stopped.
ExclusiveOwner ==
  \A c, d \in members : c # d => assigned[c] \cap assigned[d] = {}

\* The committed offset of a partition never goes back: a pod that was evicted
\* in the middle of a record cannot undo the progress of its successor.
CommitMonotone == [][\A p \in Partitions : committed'[p] >= committed[p]]_vars

\* Outside Poll and Close, where rebalanceCb runs, a pod that has had an
\* assignment is a ready endpoint exactly while it has one: every path that
\* ends an assignment (a rebalance, an eviction, the stop) takes the endpoint
\* away, every path to a new one brings it back, and SetReady(true) at the end
\* of the startup comes before the first.
ReadyIffAssigned ==
  \A c \in Consumers : pc[c] \notin {"poll", "close"} =>
     /\ cst[c] = "assigned" => ready[c]
     /\ served[c] /\ cst[c] # "assigned" => ~ready[c]

\* The group implements the promise of OffsetLedger.
Ledger == INSTANCE OffsetLedger WITH handled <- Handled
LedgerSpec == Ledger!Spec

\* Who holds a partition as the coordinator sees it, and where it reads.
Holders == [p \in Partitions |-> {c \in members : p \in assigned[c]}]
HolderPos == [c \in Consumers |-> [p \in Partitions |->
                IF c \in Holders[p] THEN pos[c][p] ELSE 0]]

\* The group keeps the discipline of PartitionLease: whatever an evicted pod
\* still does with its record, only the member that holds a partition commits
\* it, at the position it has read up to, and its successor starts there.
Lease == INSTANCE PartitionLease WITH holder <- Holders, next <- HolderPos
LeaseSpec == Lease!Spec

\* The faults that take no record out of a pod's hands before its commit.
Orderly == {"sigterm", "commit", "produce", "delivery", "flush"}

\* Without crashes and evictions the only record delivered a second time is one
\* whose own commit failed: a rolling restart, a scale-up or a DLQ failure costs
\* no duplicates, and a commit that failed no others, since the next commit of
\* the partition makes up for it.
NoRedelivery ==
  [][Only(Orderly)
       => \A c \in Consumers :
             cur'[c] # cur[c] /\ cur'[c] # NoRecord /\ cur'[c] \in delivered
               => cur'[c] \in failed]_vars

\* A record given to the publisher is in the DLQ topic or still in the queue
\* of a running pod ("DLQ must be durable").
DlqDurable == \A r \in sent : r \in dlqTopic \/ \E c \in Consumers : r \in dlqQueue[c]

\* A record whose offset is committed did not vanish: it was processed, or its
\* copy is in the DLQ or on the way there, or the group never started there.
NothingLost ==
  \A p \in Partitions, o \in Offsets :
     o < committed[p] =>
        \/ Rec(p, o) \in done \cup dlqTopic \cup skipped
        \/ \E c \in Consumers : Rec(p, o) \in dlqQueue[c]

\* Restarts, evictions and failed commits lose nothing as long as no pod
\* crashes and the DLQ works: the flush comes after leaving the group, but
\* before the process ends.
DurableWithoutCrash == Only({"sigterm", "evict", "commit"}) => DlqDurable /\ NothingLost

\* "manual commit after processing": the offset never passes a record that
\* some Poll returned and nobody processed or sent to the DLQ.
CommitAfterProcessing ==
  \A p \in Partitions, o \in Offsets :
     o < committed[p] /\ Rec(p, o) \in delivered => Rec(p, o) \in done \cup sent

\* "All retries exhausted -> DLQ": what goes to the DLQ failed MaxAttempts times.
DlqOnlyWhenExhausted ==
  \A c \in Consumers : pc[c] = "publish" => attempts[c] = MaxAttempts

\* What the two claims above come to.  Without crashes and evictions "latest"
\* jumps over no record that any pod has seen, however the partitions move
\* before their first commit, but one that was dealt with and whose commit
\* failed; so the first claim holds.
SkippedUnseen ==
  Only(Orderly) => skipped \cap delivered \subseteq failed /\ CommitAfterProcessing

\* A record goes to the DLQ before its attempts are used up only in a pod that
\* is told to stop.
EarlyOnlyOnStop ==
  \A c \in Consumers : pc[c] = "publish" => attempts[c] = MaxAttempts \/ ctxDone[c]

\* How many steps main may take once the context is cancelled: one more record
\* from a Poll under way, and for a record two steps per attempt that is left.
StepsLeft(c) ==
  LET retries == 2 * (MaxAttempts - attempts[c]) IN
  CASE pc[c] = "poll"     -> 2 * MaxAttempts + 5
    [] pc[c] = "backoff"  -> retries + 5
    [] pc[c] = "attempt"  -> retries + 4
    [] pc[c] = "publish"  -> 5
    [] pc[c] = "commit"   -> 4
    [] pc[c] = "starting" -> 4
    [] pc[c] = "loop"     -> 3
    [] pc[c] = "close"    -> 2
    [] pc[c] = "flush"    -> 1
    [] pc[c] = "down"     -> 0

\* Shutdown makes progress: from SIGTERM until it is down the context stays
\* cancelled, and whatever a main goroutine does brings it nearer the exit, so
\* that it is down after StepsLeft steps of its own.
StopShrinks ==
  [][\A c \in Consumers : ctxDone[c] /\ pc[c] # "down" =>
        /\ ctxDone'[c]
        /\ pc'[c] # pc[c] => StepsLeft(c)' \in 0..(StepsLeft(c) - 1)]_vars

------------------------------------------------------------------------------
(* The inductive invariant behind the safety properties *)

\* The main goroutine: it holds a record exactly between PollMessage and the
\* commit, the record before its fetch position in a partition it owns, it
\* reaches the commit with a record that was processed or sent to the DLQ, and
\* it is in the group only between Subscribe and consumer.Close.
LoopInv == \A c \in Consumers :
  /\ pc[c] \in Busy => /\ cur[c] \in Records
                       /\ cur[c].part \in assigned[c]
                       /\ pos[c][cur[c].part] = cur[c].off + 1
  /\ pc[c] \notin Busy => cur[c] = NoRecord
  /\ pc[c] \in {"attempt", "backoff"} => attempts[c] < MaxAttempts
  /\ pc[c] \notin {"attempt", "backoff", "publish"} => attempts[c] = 0
  /\ pc[c] = "commit" => cur[c] \in done \cup sent
  /\ pc[c] \in {"down", "starting", "flush"} => cst[c] = "none"
  /\ pc[c] \in {"down", "starting"} => ~served[c]

\* The group: a consumer that has joined the rebalance has let go of its
\* partitions, a member owns nothing the coordinator did not give it, and the
\* coordinator gives a partition once.
GroupInv ==
  /\ \A c \in Consumers :
        /\ assigned[c] # {} => cst[c] = "assigned" /\ ready[c]
        /\ cst[c] = "assigned" => ready[c]
        /\ served[c] /\ cst[c] # "assigned" => ~ready[c]
        /\ c \in joined => assigned[c] = {}
        /\ c \in members => assigned[c] \subseteq target[c]
  /\ \A c, d \in Consumers : c # d => target[c] \cap target[d] = {}

\* The positions: below the fetch position of an owner every record was dealt
\* with or is the one it holds, and a member is never behind the committed
\* offset of a partition it owns.
PosInv ==
  /\ \A p \in Partitions : committed[p] <= logEnd[p]
  /\ \A c \in Consumers : \A p \in assigned[c] :
        /\ pos[c][p] <= logEnd[p]
        /\ \A o \in Offsets : o < pos[c][p] => Rec(p, o) \in Handled \/ cur[c] = Rec(p, o)
        /\ c \in members => committed[p] <= pos[c][p]

IInv == TypeOK /\ LoopInv /\ GroupInv /\ PosInv /\ CommittedHandled

------------------------------------------------------------------------------
(* Liveness *)

\* Every record of the topic is dealt with in the end.
EventuallyHandled ==
  \A p \in Partitions, o \in Offsets : (o < logEnd[p]) ~> (Rec(p, o) \in Handled)

\* The lag of the group drains: once a partition has a committed offset, that
\* offset reaches the end of the log.  A commit that failed is not tried again
\* but made up for by the next one, so that only the last record of the log can
\* be left, when its own commit failed.
LagDrains ==
  \A p \in Partitions :
     (committed[p] # -1) ~> \/ committed[p] = logEnd[p]
                            \/ committed[p] = logEnd[p] - 1 /\ Rec(p, logEnd[p] - 1) \in failed

\* A pod told to stop leaves its loop and exits, whatever it was doing.
SigtermExits == \A c \in Consumers : ctxDone[c] ~> (pc[c] = "down")
=============================================================================
