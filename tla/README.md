# Verification of the Kafka clients of k8s-stuff

The repository is a Kubernetes platform: a Kafka cluster with OAuth authorization, the
identity provider Keycloak, monitoring, and so on. Nearly all of it is configuration of
third-party software. The program of its own is `kafka-go-app`: a producer, a consumer, and
the packages they share. A second copy, which logs in with SCRAM passwords instead of OAuth
tokens, lives under `kafka-cluster/cluster-without-oauth/`. A small second program is
`echo-app`, a TLS server and its client. This project models these programs, checks the
models with TLC on small instances and proves their safety properties and refinements with
TLAPS for every value of the constants.

Paths below are relative to `src/kafka-go-app/` unless they begin with `src/`.

## 1. Inventory

| component | state | operations | talks to |
|---|---|---|---|
| consumer (`cmd/consumer/main.go`) | context, position in the consume loop, the record in hand, the partitions and fetch positions of its librdkafka handle | startup, `Poll` and its five outcomes, `rebalanceCb`, `WithRetry`, `Publish`, `CommitMessage`, deferred closes | group coordinator, DLQ publisher, token client, health status |
| retry middleware (`internal/middleware/retry.go`) | attempt, wait | attempt, back-off, cancellation | called by the consumer |
| DLQ publisher (`internal/dlq/publisher.go`) | queue of a librdkafka producer, its token | `Publish`, drain goroutine, `UpdateToken`, `Close` | Kafka, consumer, token client |
| token client (`internal/auth/keycloak.go`) | cached token with its expiry, refresh loop | two POSTs per refresh, refresh loop with `OnRefresh`, refresh on demand | Keycloak, the librdkafka handles |
| producer (`cmd/producer/main.go`) | message counter, librdkafka queue, Events channel, the success and error counters | startup, `Produce` once a second, `handleEvents`, signal goroutine, deferred `Flush` | Kafka, token client, health status |
| health server (`internal/health/server.go`) | `ready`, `healthy` | `/health`, `/ready`, shutdown with the context | kubelet |
| echo-app (`src/echo-app`) | the server's certificate in memory, the mounted files, the client's kept connection | start, answer, `Get` every 5 s | cert-manager, kubelet |
| logger (`internal/logger`) | none | formats lines | everybody |
| SCRAM variant (`src/kafka-cluster/cluster-without-oauth/kafka-go-app`) | as above, without tokens | as above, without tokens | as above, without Keycloak |
| deployments and KEDA scaling (`manifests/`) | replicas, pods | restart, stop with a grace period, scale by lag | pods, group |
| authorization in Keycloak (`src/keycloak-kafka-terraform`) | policies and permissions | none, a table | the tokens' content |

The rest (`PROJECT.json` lists it under `components`) is test and load scripts, a Vault
backup workflow, Terraform records, and Helm values.

What is hard in it:

* **The consumer group.** Several pods, each with a main goroutine that holds one record at
  a time, a signal goroutine, librdkafka's threads, and in the broker a coordinator that
  rebalances while records are in hand, evicts pods that still believe in their partitions,
  and refuses their commits. The offset is committed whatever became of the record, and
  what failed goes to an asynchronous producer whose queue lives in memory. Correct means:
  commits only pass handled records and never go back, a partition has one owner, every
  record is handled in the end, nothing is lost or repeated without a reason.
* **Tokens.** Two goroutines refresh one cache at the same time, one of them on a schedule
  computed from the cache, and the handles get their tokens by two different ways. Correct
  means that no handle is left with an expired token.
* **Shutdown.** Signals at any moment, in the startup too; defers in reverse order; a
  `Flush` that waits for events whose reader has already gone; two deadlines
  (`max.poll.interval.ms`, the grace period) against sleeps, retries and requests that do
  not listen to the context.
* **Certificates.** The echo server reads its certificate once and its client keeps its
  connection, while both the Secret and the mounted files are replaced behind them. Correct
  means that what is stale is known to be so only after a known time.
* **Delivery reports.** They come in any order, after failure, after the reader stopped; a
  report of failure does not mean that the message is not in the topic.

## 2. Modules

| module | models | remark |
|---|---|---|
| `OffsetLedger` | abstract: what a consumer group owes its topic. Records are appended and handled, committed offsets advance over handled records | no consumer in it |
| `PartitionLease` | abstract: what a consumer may count on when it commits. One holder of a partition at a time, who alone moves its committed offset, to the position it has read up to; the next holder starts there | no protocol and no loop in it |
| `Consumer` | `cmd/consumer`, `retry.go`, `publisher.go` as pods of a group, with coordinator and broker | implements `OffsetLedger` and `PartitionLease` |
| `MCConsumer` | `Consumer` with the symmetry of the pods | |
| `ConsumerTiming` | the main goroutine of one pod against its two deadlines | time in ticks |
| `TokenRefresh` | `keycloak.go`, `OnRefresh`, the refresh on demand, both handles | time in ticks |
| `Delivery` | abstract: what a producer owes for each message | no producer in it |
| `Producer` | `cmd/producer` with health server, its probe, librdkafka and broker; also the SCRAM variant | implements `Delivery` |
| `EchoTls` | `src/echo-app`, server and client, with the life of the certificate | time in ticks |
| `ConsumerProofs`, `ConsumerOnceProofs`, `ConsumerLeaseProofs`, `ConsumerTimingProofs`, `TokenRefreshProofs`, `ProducerProofs`, `EchoTlsProofs` | the theorems | |

### Consumer

A pod is a column of arrays: `pc` (where main is), `ctxDone`, `ready`, `cst` (the client's
state in the group), `assigned` and `pos` (what `Assign` gave it and the next offset to
fetch), `cur` (the record in hand), `attempts`, `dlqQueue`. The broker is `logEnd`,
`committed`, `dlqTopic` and the coordinator (`members`, `joined`, `stable`, `target`). The
loop of `main` is one action per statement that another actor can observe: `CheckCtx`,
`PollNil`, `PollMessage`, `PollAssigned`, `PollRevoked`, `AttemptOk`, `AttemptFail`,
`BackoffElapsed`, `BackoffCancelled`, `Publish`, `CommitOk`, `CommitFails`, `CloseConsumer`,
`CloseDlq`. The rebalance callback runs inside `Poll` and is therefore part of the `Poll`
actions. The coordinator speaks the eager protocol (librdkafka's default): everybody gives
up everything and joins before anybody gets anything. `Evict` takes a member away without
asking it; `JoinLost` is what it sees later. Everything that may go wrong is a named fault;
`faults` counts them and collects their kinds, so a property can say "unless a pod crashed".
The kinds are a restart (`sigterm`), `crash`, `fatal` (all brokers down, `log.Fatal`),
`evict`, a failed `commit`, a `produce` error of the publisher, a failed `delivery` and a
`flush` that runs into its time limit.

`done`, `sent`, `skipped`, `delivered`, `failed` (records whose own commit failed) and `served`
(this process has had an assignment) are history variables; no guard reads them.

`PollRevoked` is the whole revocation callback, `SetReady(false)` and `Unassign`, in one
step. Between the two statements an owner is unready for an instant; the properties about
readiness are therefore stated outside `Poll` and `Close`, where the callback runs.

`ScramSpec` is the consumer of the SCRAM variant, one operator for each function of its
files. Its functions are those of the OAuth consumer without the token event, which in
`Consumer` is a `PollNil`.

### ConsumerTiming

`pc` and `left` are the call main is in and the longest that call may still take. A call
ends earlier at will; only `time.Sleep` and `time.After` take exactly their time. Time does
not pass in an attempt or a back-off once the context is done: `WithRetry` and
`processMessage` listen to it, which for an attempt is the contract of the context the
business logic is given. Nothing else listens: not the delay, not
`FetchUMAToken` (two POSTs of at most 10 s), not `CommitMessage`. `producer.Close`, after the
`Flush` of the DLQ publisher, only ends threads of the client and takes no tick. Two external times are
one constant, `BrokerTime`: the longest commit and the longest `consumer.Close`. The code
gives them no limit, so what is shown is conditional on it.

This module is what stands between `Consumer` and the cluster: it says under which settings
the `Evict` of a pod that works, and the `Crash` of a pod that was only told to stop, are
not the pod's own doing.

### TokenRefresh

`current` is the cache, `mainTok` and `dlqTok` are what the tokens of the two handles have
left at the broker, `loop` and `timer` are the refresh loop, `phase`, `age` and `issued` the
two goroutines' requests. All times are remaining times, so nothing grows. A token loses
time while its answer travels, and the client believes in a later expiry than the broker
does: `issued` may be older than `current` says by up to one POST. `Tick` waits for what is
urgent (a timer at zero, a POST at its timeout, a token to hand over): the assumption is
that the process gets the CPU within a tick, nothing else. `rest` is the time since the
loop's last request ended, `spent` says that the loop has had its one request after the
cancellation, `late` is how long the loop has outlived the cancellation, and `lastFailed`
that its last request failed; the four are history. When the timer and the context are ready together `select`
takes either, so `Wake` is possible although the context is done. So is `Demand`: the `Poll`
under way may still return the event. `OnRefresh` has no error branch: the handles refuse a
token that has expired or come too late, and under the assumptions none has when it is set.

### Producer

`at` says for each message where it is: not attempted, refused by `Produce`, in the queue of
librdkafka, a report in the Events channel, counted as a success or an error. `main`,
`events` (the goroutine `handleEvents`) and `sig` (the signal goroutine) are the control
state, `ready`, `healthy` and `server` the health server; `HealthAnswer` and `ReadyAnswer`
are its two handlers, and `ListenFails` is a listener that could not start, which the code
only logs. `LivenessKill` is the kubelet's SIGTERM to a pod whose `/health` does not
answer 200. `Append` may put a message in the topic after it was reported as failed, and
after the process has ended. `ScramSpec` is the producer of the SCRAM variant: the same
without token events.

### EchoTls

A certificate is the time it has left: `secret` in the Secret, `file` in the mounted
volume, `crt` in the server's memory. `Renew` is cert-manager, `Sync` the kubelet, which
swaps both files at once. `Start` and `ReadKey` are the two reads of `ListenAndServeTLS`: a
swap between them ends `main`. `Get` is one turn of the client's loop; over a kept
connection no certificate is asked for. In the manifests a gateway stands between the two
and takes the client's part towards the server. Nothing reloads the certificate and nothing
restarts the server, so `up` (how long it serves already) is all that decides. A renewal brings
a new key: the Certificate names no `rotationPolicy`, and the cert-manager the repository
installs (v1.20.2, `src/cert-manager/base/kustomization.yaml`) then makes one. With a key that
is kept every pair would fit, and the model would be stricter than the deployment. `missed`
(the last start failed) is history.

## 3. Runs

| run | question | result |
|---|---|---|
| `consumer_faults` | two pods, any two faults of the eight kinds: invariants, monotone commits, refinement of `OffsetLedger` and of `PartitionLease`, duplicates, losses, skipped records, readiness, early dead letters, progress of a shutdown | holds |
| `consumer_live` | after any one restart, crash, eviction or failed commit: is every record handled, does the lag drain, does a stopped pod exit | holds |
| `consumer_timing` | deployed settings: back in `Poll` in time, out of the process in time | holds |
| `token_refresh` | two failures at most: no gap unless the loop's last request failed, no gap slept through, recovery, the loop leaves Keycloak the pause that is due and does not outlive its context by more than two POSTs | holds |
| `producer` | two messages: one verdict each, refinement of `Delivery`, exit after a signal or a failed probe, no report forgotten | holds |
| `echo_tls` | how long does a certificate loaded once last, does a start that meets a swap recover, and with the next start already | holds |
| `consumer_loss`, `consumer_drain`, `consumer_latest` | statements of the comments about the DLQ, the retries and the commits | violated, findings 1-3 |
| `token_retry` | statement of a comment about the retry | violated, finding 4 |
| `producer_ready`, `producer_fatal` | statements of the comments about readiness and health | violated, findings 5-6 |

**Bounds, and why they are enough.** Consumer: two pods, one partition, two records. Every
interaction of the group is between an old and a new owner of one partition; a third pod
repeats one of the two roles, and pods are symmetric (`SYMMETRY` in the safety run only).
Two records let a commit cover an earlier record, the case in which order matters. Two
faults, in every order, give the histories in which one meets the consequences of another:
an eviction during a record followed by a restart of the new owner, a failed commit followed
by a crash. `MaxAttempts` is 2 in the passing runs: it gives an attempt
before and one after a back-off; the code's 3 is used in the violation runs. The proofs have
none of these bounds. Timing: ticks of 500 ms with the real settings (poll rounded up to one
tick), `BrokerTime` 4.5 s, the largest that `GraceAssumption` allows: in the
worst case (SIGTERM at the start of a `Poll` that returns a token request) the pod exits in
the very last tick. Tokens: ticks of 5 s, so a POST is 2, the buffer 6, the retry 1; a
lifetime of 12 is long against the buffer, and longer ones add only sleep. That a lifetime
exceeds the buffer is `LifetimeAssumption`; the realm grants an hour. Lifetimes that exceed
it by one tick or two are covered by the proofs. Producer: two
messages and a queue of one, so that the second is refused while the first waits, or
follows its report; a third one multiplies the states and repeats one of the two. `producer_fatal`
needs one message only: what it shows begins when the last report has been read. Echo:
ticks of 5 min, so the 1 h and 30 min of the Certificate are 12 and 6; the kubelet's delay
and its longest back-off are one tick each.

**Deadlock** is checked in all runs but the producer's, whose process really ends. The pods
of `Consumer`, `ConsumerTiming` and `EchoTls` are restarted by their Deployment, and in
`TokenRefresh` time goes on.

**Fairness, and why the code justifies it.** `Consumer`: weak fairness of each main
goroutine and of the kubelet, the coordinator and the DLQ producer's thread; strong fairness
of `PollEvent`, because an event that stays available is not missed by every `Poll` for
ever although each single `Poll` may return nil; the session timeout of a pod that is gone.
No fault is fair, and nothing is assumed about which branch an attempt takes.
`TokenRefresh`: time passes, Keycloak answers in the end, goroutines run; librdkafka need
not ask. `Producer`: goroutines run; librdkafka reports every message (its
`message.timeout.ms`), and the kubelet acts on a probe that fails for good; strong fairness of `Count`, because the Events channel is first in,
first out: a report in it is reached whatever token requests come after it. Under weak
fairness the model could serve token requests for ever. `EchoTls`: time passes, cert-manager
and the kubelet do their work, `main` runs.

**Properties** that deserve a word:

* `CommittedHandled`, `CommitMonotone`, `ExclusiveOwner`: they hold although an evicted pod
  goes on with its record. They depend on the order of the loop, on the coordinator refusing
  commits of non-members, and on the callback that empties the assignment before the pod
  joins again.
* `NoRedelivery`: a rolling restart or a DLQ failure costs no duplicates, only crashes and
  evictions do; a failed commit costs at most its own record, since the next commit of the
  partition makes up for it. `LagDrains` says so of the lag: at most the last record of the
  log stays uncommitted, and only if its own commit failed. `DurableWithoutCrash`: restarts, evictions and failed
  commits lose nothing, although the pod leaves the group before it flushes its DLQ queue.
* `LeaseSpec`: an evicted pod goes on with its record and tries to commit it, and a handle
  may have an assignment the coordinator does not know of. In the end each commit is one by
  the pod that holds the partition by its own account and by the coordinator's, at the
  position it has read up to, and a partition changes hands only after it was let go.
* `SkippedUnseen`, `EarlyOnlyOnStop`: what findings 3 and 2 come to. "latest" jumps over a
  record some pod has seen only after a crash or an eviction, or if it was dealt with and its
  own commit failed; a record is
  dead-lettered before its attempts are used up only in a pod that was told to stop.
* `ReadyIffAssigned`: four places write the readiness and none of them on shutdown. Outside
  `Poll` and `Close` a pod that has had an assignment is ready exactly while it has one.
  Before its first assignment it is ready without one, which is the code's choice.
* `StopShrinks`: from SIGTERM on every step of main brings it nearer the exit. It takes at
  most `2 * MaxAttempts + 5` of them, of which there can be that many because the `Poll`
  under way may still bring a record.
* `NoMainGap`, `NoDlqGap`: as long as the loop's last request succeeded, no token runs out,
  however many failed before it or on demand. The 30 s of `refreshBuffer` have to cover two
  POSTs of 10 s and the up to 10 s the token was old when it came. They are exactly enough.
* `OutageIsSeen`: when the consumer's token has run out, the loop is in a request or in the
  wait after a failed one, never asleep. The loop plans with the cache, whose expiry is later
  than the broker's; the buffer has to cover the difference also when the other goroutine
  writes the cache.
* `Paced`: two goroutines write the cache the loop computes its sleep from, and a token
  that lives hardly longer than the buffer gives a sleep of hardly anything. For every lifetime
  above the buffer no interleaving lets the loop ask Keycloak sooner than `Pause` after its
  last request: the retry time after a failure, and after a success that or, if it is less,
  what the lifetime leaves beyond the buffer. `AtMostOneLate`: the loop sees its context only in a `select`, so one request may
  come after the cancellation; that it is one, and none after it, is what the deferred
  closes of `main` rest on. `StopsInTime`: the loop outlives its context by two POSTs at most.
* `ProbeRestarts`: a pod whose health server could not listen goes on producing; it ends by
  its liveness probe, and through the same loop and flush as any other, wherever it is.
* `NoFailWhileFresh`: a server that has been up for less than `renewBefore` less the mount's
  delay is never refused, even if it started just before a renewal. Beyond that the code
  promises nothing. `BackUp` needs a back-off that is shorter than the time between two
  renewals; with one that is not, each start could meet a swap. `SecondStart` says how it
  comes back: one start may meet a swap, the next one cannot.
* `SignalExits`: `handleEvents` stops before `Flush`, so `Flush` can wait for reports nobody
  reads; it ends all the same, by its time limit, and only by that.

## 4. Findings

1. `consumer_loss`: a record handed to the DLQ publisher is committed while its copy is in
   memory only; a crash then loses it ("DLQ must be durable", `internal/dlq/publisher.go:33`).
2. `consumer_drain`: SIGTERM during the retries dead-letters a record that was tried once
   ("All retries exhausted → DLQ", `cmd/consumer/main.go:224`).
3. `consumer_latest`: with `auto.offset.reset` latest, a pod that dies before the first
   commit of a partition makes the group jump over the record it held.
4. `token_retry`: after a failed refresh the loop reads the cache again; if a refresh on
   demand has renewed it meanwhile, the loop sleeps for a lifetime and the DLQ producer,
   which only the loop feeds, is left behind ("On failure retry every 5s",
   `internal/auth/keycloak.go:96`).
5. `producer_ready`: SIGTERM in the startup is followed by `SetReady(true)` ("stop accepting
   readiness traffic", `cmd/producer/main.go:79`).
6. `producer_fatal`: `handleEvents` only logs a fatal error and nobody in `cmd/producer` calls
   `SetHealthy`; from then on every `Produce` is refused while `/health` answers 200, so the
   kubelet never restarts the pod ("flipped to false on fatal errors",
   `internal/health/server.go:18`).

Met while reading, without a run of their own: the DLQ producer has no token until the loop's
first `OnRefresh`, almost a lifetime after the start, although a comment says "It reuses the
same OAuth token" (`internal/dlq/publisher.go:12`), so what is published before waits that long
or runs into its time limit (`Recovers` says that the first token does come, `NoDlqGap` what
follows it); the refresh loop's one late request may hand its token to a handle that is being closed, in the time
between `defer`s; the page of the echo server shows the certificate in the file, which after
a renewal is not the one it serves; the echo client prints `OK` for every HTTP status, and
as long as its connection is kept it does not see that the certificate has expired; the
consumer is ready right after
`Subscribe`, before it is connected ("flipped to true once connected to Kafka",
`internal/health/server.go:17`); a refresh on demand does not call `OnRefresh` ("called
after every successful token refresh", `internal/auth/keycloak.go:42`); reports that come
after `handleEvents` has stopped are counted by nobody; a cancelled `WithRetry` returns the
error of the context and not "the last error" (`internal/middleware/retry.go:38`); the third
wait of "500ms → 1s → 2s" (`internal/middleware/retry.go:23`) never happens with three
attempts.

## 5. Proofs

Every theorem is proved for all values of the constants that satisfy the named assumptions.

**`ConsumerProofs`** (`OffsetAssumption`, `AttemptsAssumption`, `FaultsAssumption`,
`NoRecordAssumption`). `CommittedHandled` is not inductive. A commit is safe because the pod
holds the record just before its fetch position, everything before that position was dealt
with, and a member is never behind the committed offset of what it owns; that in turn needs
that ownership is exclusive, hence that who has joined a rebalance owns nothing and that
nobody owns more than the coordinator gave it. So the inductive invariant is
`IInv == TypeOK /\ LoopInv /\ GroupInv /\ PosInv /\ CommittedHandled`. From it follow
`TypeCorrect`, `CommitSafety`, `Ownership`, `Readiness`, the action property `Monotone`, and
`ImplementsLedger`: every step of the group is a step of the ledger or a stutter. Every step
of the SCRAM variant is one of `Next` (`ScramSteps`), so `ScramImplementsLedger` follows.

**`ConsumerLeaseProofs`** (the same assumptions). `ImplementsLease`: the consumer implements
`PartitionLease`. A partition is held by a pod that is a member and has it assigned, so an
eviction is a release, what an evicted pod reads and the commits it is refused are
stutters, and a revocation seen late lets go of nothing. That the coordinator gives only
what nobody holds is `GroupInv`; that a commit is at the holder's position is `LoopInv` and
`PosInv`. `StopBounded` (`StopShrinks`) has `StepsLeft`, the most steps main has before it,
as its variant: each action lowers it. `EarlyPublish` states `EarlyOnlyOnStop`, and
`ScramLease` all three of the SCRAM variant.

**`ConsumerOnceProofs`** (the same assumptions). What holds only while certain faults have
not happened. `Durability` (`DurableWithoutCrash`): with restarts, evictions and failed
commits only, every record sent to the DLQ is in the topic or in the queue of a process that
is alive (`DurableInv`). `NoDuplicates` (`NoRedelivery`): with restarts, DLQ failures
and failed commits only, no record is handed to a main goroutine a second time but one in `failed`.
It needs that nobody falls out of the group unseen, `Once`: `Staying` (who believes in its membership is a member), `Seen`
(a delivered record is below the committed offset, or some pod has it in hand, or its commit
failed) and `Ahead` (an owner's fetch position is past every delivered record of its partition
that is not in `failed`).
`SkipsOnlyUnseen` (`SkippedUnseen`) rests on it: a record "latest" has jumped over is in the
log and below the committed offset (`Below`), behind every owner's fetch position (`Past`),
and was not delivered, or is in `failed` (`Apart`) and then was dealt with before its commit
(`Dealt`). `ScramSafety`: the SCRAM variant has the safety properties
of these two modules.

**`ConsumerTimingProofs`** (`TimingAssumption`, `PollAssumption`, `GraceAssumption`). Two
budgets. `PollBudget`: what has passed since `Poll` plus what the current call may take is
at most the sum of the calls up to it; the k-th attempt begins at most
`Before(k) = Delay + (k - 1) * (Timeout + MaxWait)` after `Poll`. `GraceBudget`: what has
passed since SIGTERM plus what may still come fits into the grace period, and before SIGTERM
it would fit from here. `NeverEvicted` and `NeverKilled` follow: the assumptions are the
sizing rules for the settings in the manifest.

**`TokenRefreshProofs`** (`TimeAssumption`; `BufferAssumption`: the buffer is at least
three POST times; `LifetimeAssumption`: a lifetime is more than the buffer). `TInv` says what a handle's token must
have left at each point of the loop's way to the next one (`Enough`): a whole buffer less one
POST while it sleeps, and so on down to the moment of handing over. `MainCovered` and
`DlqCovered` state `NoMainGap` and `NoDlqGap`. `OutageNoticed` (`OutageIsSeen`) needs
`CacheInv`: the cache promises no more than one POST time beyond the token the handle has,
and the sleep ends a buffer before the cache does. `StopBounded` (`StopsInTime`) needs
`LateInv`: after the cancellation only a request takes time, and there is one at most. For
`KeycloakSpared` (`Paced`) and `OneLateRequest` (`AtMostOneLate`) the induction
needs `PaceInv`: what the loop has waited and what it will still
wait is at least `Pause`, and a plan made after its last request is one with a fresh token,
whose sleep cannot be zero.

**`ProducerProofs`** (`ProducerAssumption`). `PInv` is the numbering of the messages, the
meaning of a report (`MessageInv`), and how far each goroutine of a shutdown may be
(`ShutdownInv`). `ImplementsDelivery`: the producer implements `Delivery`; and
`ScramImplementsDelivery`: so does the SCRAM variant, under the same invariant.

**`EchoTlsProofs`** (`EchoAssumption`: the delay is less than `RenewBefore`, and both
together less than the lifetime; `BackOffAssumption`: so are the two and the back-off). `EInv`: the files are those of the Secret, or the ones
before and then still `RenewBefore` less the delay; so a server that starts has at least that, and loses only
the time it is up. `FreshServes` states `NoFailWhileFresh`. `SecondStartServes` (`SecondStart`) needs `SwapInv`:
after a failed start the files are the new ones, and too new to be changed before the next
start has read them.

**Only model-checked:** liveness, which is out of the prover's reach. For some of it there is
a proved property that says why it holds, given that the steps are taken: `SigtermExits` has
`StopShrinks`, `CancelStops` has `StopsInTime`, `BackUp` has `SecondStart`, and `Recovers` has
`OutageIsSeen`, by which the loop is already at work when a token has run out.
`EventuallyHandled`, `LagDrains`, `SignalExits`, `ProbeRestarts` and `Counted` have the
invariants only. Every invariant and every action property of the passing runs is proved, and
so are the three refinements.

## 6. Abstractions

Payload, headers, keys, metrics and log lines are left out. A record is its partition and
offset. librdkafka, the broker, the coordinator, Keycloak, the kubelet and the clock are
external: modelled from how the code uses them, in the configuration it gives them. The
eager assignment is any assignment in which every partition has one owner. A `kafka.Error`
that is not fatal only logs and is a `Poll` that returned nothing. The second SIGTERM is
ignored, as in the code (the signal goroutine receives once). `/health` and `/ready` read
one flag each; the readiness probe only decides about endpoints, which none of these
programs has clients behind, so of the two probes only the liveness probe is an action.
`/metrics` is the Prometheus library's handler.

## 7. Not modelled

* *Logger*, payloads, metrics: no state the program reads back.
* *KEDA* (`manifests/consumer-scaling-with-keda.yaml` and its Prometheus variant): the
  manifests give thresholds to a third-party controller whose rules are not in the
  repository. What its decisions do to the program, pods that come and pods that are told to
  stop, is in `Consumer`, at any moment and in any order.
* *Authorization in Keycloak* (`src/keycloak-kafka-terraform`): a table; the decision
  procedure that would give it a meaning is Keycloak's.
* *Vault backup workflow*: three steps in a straight line, and Argo is told to forbid two at
  a time. Nothing in the repository can go wrong between them that Argo does not decide.
* *Bridge and console test scripts*, *load and fuzz scripts*: one request after another at
  the choice of a person; the state is that of the services they call.
* *Promotion of the welcome app*: names of environments; the order is kept by a third-party
  controller.
* *Terraform, Helm values, Strimzi resources, sample applications*: declarations for
  programs that are not here.
