------------------------ MODULE ConsumerLeaseProofs ------------------------
(* Consumer implements PartitionLease, for any number of pods, partitions,  *)
(* records and faults; a pod told to stop comes nearer the exit with every  *)
(* step, in the SCRAM variant too.                                          *)
EXTENDS ConsumerProofs

USE OffsetAssumption, AttemptsAssumption, FaultsAssumption, NoRecordAssumption

\* A step that leaves the log, the offsets and the holders alone.
Frame == UNCHANGED <<logEnd, committed, members, assigned, pos>>

LEMMA FrameMaps == Frame => UNCHANGED Lease!vars
  BY DEF Frame, Lease!vars, Holders, HolderPos

\* What a consumer holds, by its own account and by the coordinator's.
LEMMA Held ==
  ASSUME NEW c, NEW p \in Partitions
  PROVE  c \in Holders[p] <=> c \in members /\ p \in assigned[c]
  BY DEF Holders

LEMMA HeldNext ==
  ASSUME NEW c, NEW p \in Partitions
  PROVE  c \in Holders'[p] <=> c \in members' /\ p \in assigned'[c]
  BY DEF Holders

LEMMA HeldPos ==
  ASSUME NEW c \in Consumers, NEW p \in Partitions, c \in Holders[p]
  PROVE  HolderPos[c][p] = pos[c][p]
  BY DEF HolderPos

\* To know where one consumer reads afterwards is to know where all do.
LEMMA PosUpdate ==
  ASSUME NEW c \in Consumers, NEW f, HolderPos'[c] = f,
         \A d \in Consumers \ {c} : HolderPos'[d] = HolderPos[d]
  PROVE  HolderPos' = [HolderPos EXCEPT ![c] = f]
<1> DEFINE g == [HolderPos EXCEPT ![c] = f]
<1>1. HolderPos' = [d \in Consumers |-> HolderPos'[d]]
  BY DEF HolderPos
<1>2. g = [d \in Consumers |-> IF d = c THEN f ELSE HolderPos[d]]
  BY DEF HolderPos
<1>3. \A d \in Consumers : HolderPos'[d] = IF d = c THEN f ELSE HolderPos[d]
  OBVIOUS
<1>q. QED
  BY <1>1, <1>2, <1>3, Zenon

\* The others keep what they hold, and where they read.
Others(c) == \A d \in Consumers \ {c} : /\ d \in members' <=> d \in members
                                        /\ assigned'[d] = assigned[d] /\ pos'[d] = pos[d]

\* A consumer that is no member any more, or has nothing assigned, has let go.
LEMMA ReleaseMaps ==
  ASSUME TypeOK, TypeOK', NEW c \in Consumers, UNCHANGED <<logEnd, committed>>, Others(c),
         c \notin members' \/ assigned'[c] = {}
  PROVE  Lease!Release(c)
<1>1. \A p \in Partitions : Holders'[p] = Holders[p] \ {c}
  <2> SUFFICES ASSUME NEW p \in Partitions, NEW d
               PROVE  d \in Holders'[p] <=> d \in Holders[p] /\ d # c
    OBVIOUS
  <2>1. CASE d = c
    BY <2>1, HeldNext
  <2>2. CASE d # c
    <3>1. d \in members \/ d \in members' => d \in Consumers \ {c}
      BY <2>2 DEF TypeOK
    <3>q. QED
      BY <2>2, <3>1, Held, HeldNext DEF Others
  <2>q. QED
    BY <2>1, <2>2
<1>2. Holders' = [p \in Partitions |-> Holders[p] \ {c}]
  BY <1>1 DEF Holders
<1>3. \A p \in Partitions : HolderPos'[c][p] = 0
  BY <1>1 DEF HolderPos
<1>4. HolderPos'[c] = Lease!Nowhere
  BY <1>3 DEF HolderPos, Lease!Nowhere
<1>5. ASSUME NEW d \in Consumers \ {c} PROVE HolderPos'[d] = HolderPos[d]
  BY <1>1 DEF Others, HolderPos
<1>6. HolderPos' = [HolderPos EXCEPT ![c] = Lease!Nowhere]
  BY <1>4, <1>5, PosUpdate
<1>q. QED
  BY <1>2, <1>6 DEF Lease!Release

\* What the coordinator gives is held by nobody, and is taken up where the
\* group has committed.
LEMMA AcquireMaps ==
  ASSUME IInv, IInv', NEW c \in Consumers, PollAssigned(c)
  PROVE  Lease!Acquire(c)
<1> DEFINE S == target[c]
<1>1. S \in SUBSET Partitions /\ c \in members /\ assigned[c] = {} /\ members \subseteq Consumers
  BY DEF IInv, TypeOK, PollAssigned, GroupInv
<1>2. /\ assigned' = [assigned EXCEPT ![c] = S]
      /\ pos' = [pos EXCEPT ![c] = [p \in Partitions |-> IF p \in S THEN StartOffset(p) ELSE 0]]
      /\ UNCHANGED <<logEnd, committed, members>>
  BY DEF PollAssigned, brokerVars, groupVars
<1>3. assigned \in [Consumers -> SUBSET Partitions] /\ pos \in [Consumers -> [Partitions -> 0..MaxOffset]]
  BY DEF IInv, TypeOK
<1>4. \A d \in Consumers \ {c} : assigned'[d] = assigned[d] /\ pos'[d] = pos[d]
  BY <1>2, <1>3
<1>5. assigned'[c] = S
  BY <1>2, <1>3
<1>6. pos'[c] = [p \in Partitions |-> IF p \in S THEN StartOffset(p) ELSE 0]
  BY <1>2, <1>3
<1>7. ASSUME NEW p \in Partitions PROVE c \notin Holders[p]
  BY <1>1, Held
<1>8. ASSUME NEW p \in S PROVE Holders[p] = {}
  <2> SUFFICES ASSUME NEW d \in Holders[p] PROVE FALSE
    OBVIOUS
  <2>1. p \in Partitions
    BY <1>1
  <2>2. d \in members /\ p \in assigned[d] /\ d \in Consumers
    BY <1>1, <2>1, Held
  <2>3. d # c /\ p \in target[d]
    BY <1>1, <2>2 DEF IInv, GroupInv
  <2>q. QED
    BY <2>2, <2>3 DEF IInv, GroupInv
<1>9. ASSUME NEW p \in Partitions
      PROVE  Holders'[p] = IF p \in S THEN {c} ELSE Holders[p]
  <2>1. ASSUME NEW d PROVE d \in Holders'[p] <=> d \in members /\ p \in assigned'[d]
    BY <1>2, HeldNext
  <2>2. ASSUME NEW d, d # c PROVE d \in Holders'[p] <=> d \in Holders[p]
    BY <1>1, <1>4, <2>1, <2>2, Held
  <2>3. c \in Holders'[p] <=> p \in S
    BY <1>1, <1>5, <2>1
  <2>4. CASE p \in S
    BY <1>8, <2>2, <2>3, <2>4
  <2>5. CASE p \notin S
    <3>1. Holders[p] = {d \in members : p \in assigned[d]}
      BY DEF Holders
    <3>2. \A d : d \in Holders'[p] <=> d \in Holders[p]
      BY <1>7, <2>2, <2>3, <2>5
    <3>3. Holders'[p] = Holders[p]
      BY <3>1, <3>2
    <3>q. QED
      BY <2>5, <3>3
  <2>q. QED
    BY <2>4, <2>5
<1>10. Holders' = [p \in Partitions |-> IF p \in S THEN {c} ELSE Holders[p]]
  BY <1>9 DEF Holders
<1>11. \A p \in Partitions : StartOffset(p) = Lease!Start(p)
  BY DEF StartOffset, Lease!Start
<1>12. ASSUME NEW p \in Partitions
       PROVE  HolderPos'[c][p] = IF p \in S THEN Lease!Start(p) ELSE 0
  <2>1. c \in Holders'[p] <=> p \in S
    BY <1>7, <1>9
  <2>q. QED
    BY <1>6, <1>11, <2>1 DEF HolderPos
<1>13. HolderPos'[c] = [p \in Partitions |-> IF p \in S THEN Lease!Start(p) ELSE 0]
  BY <1>12 DEF HolderPos
<1>14. ASSUME NEW d \in Consumers \ {c} PROVE HolderPos'[d] = HolderPos[d]
  <2>1. \A p \in Partitions : d \in Holders'[p] <=> d \in Holders[p]
    BY <1>2, <1>4, Held, HeldNext
  <2>q. QED
    BY <1>4, <2>1 DEF HolderPos
<1>15. HolderPos' = [HolderPos EXCEPT ![c] =
                       [p \in Partitions |-> IF p \in S THEN Lease!Start(p) ELSE 0]]
  BY <1>13, <1>14, PosUpdate
<1>q. QED
  BY <1>1, <1>2, <1>7, <1>8, <1>10, <1>15, Zenon DEF Lease!Acquire

\* A member reads a record; what an evicted pod reads is out of the lease.
LEMMA ReadMaps ==
  ASSUME IInv, NEW c \in Consumers, PollMessage(c)
  PROVE  (\E p \in Partitions : Lease!Read(c, p)) \/ UNCHANGED Lease!vars
<1>1. PICK p \in assigned[c] : pos[c][p] < logEnd[p] /\ pos' = [pos EXCEPT ![c][p] = @ + 1]
  BY DEF PollMessage
<1>2. UNCHANGED <<logEnd, committed, members, assigned>>
  BY DEF PollMessage, brokerVars, groupVars
<1>3. p \in Partitions /\ pos \in [Consumers -> [Partitions -> 0..MaxOffset]]
  BY DEF IInv, TypeOK
<1>4. Holders' = Holders
  BY <1>2 DEF Holders
<1>5. \A d \in Consumers, q \in Partitions :
         pos'[d][q] = IF d = c /\ q = p THEN pos[c][p] + 1 ELSE pos[d][q]
  BY <1>1, <1>3
<1>6. CASE c \notin members
  <2>1. \A q \in Partitions : c \notin Holders[q]
    BY <1>6, Held
  <2>2. HolderPos' = HolderPos
    BY <1>4, <1>5, <2>1 DEF HolderPos
  <2>q. QED
    BY <1>2, <1>4, <2>2 DEF Lease!vars
<1>7. CASE c \in members
  <2>1. c \in Holders[p]
    BY <1>3, <1>7, Held
  <2>2. HolderPos[c][p] = pos[c][p]
    BY <1>3, <2>1, HeldPos
  <2>3. \A d \in Consumers, q \in Partitions :
           HolderPos'[d][q] = IF d = c /\ q = p THEN HolderPos[c][p] + 1 ELSE HolderPos[d][q]
    BY <1>3, <1>4, <1>5, <2>1 DEF HolderPos
  <2>4. HolderPos' = [HolderPos EXCEPT ![c][p] = @ + 1]
    <3>1. \A d \in Consumers : /\ HolderPos'[d] = [q \in Partitions |-> HolderPos'[d][q]]
                               /\ HolderPos[d] = [q \in Partitions |-> HolderPos[d][q]]
      BY DEF HolderPos
    <3>2. HolderPos'[c] = [HolderPos[c] EXCEPT ![p] = @ + 1]
      BY <2>3, <3>1
    <3>3. \A d \in Consumers \ {c} : HolderPos'[d] = HolderPos[d]
      <4> SUFFICES ASSUME NEW d \in Consumers \ {c} PROVE HolderPos'[d] = HolderPos[d]
        OBVIOUS
      <4>1. \A q \in Partitions : HolderPos'[d][q] = HolderPos[d][q]
        BY <2>3
      <4>q. QED
        BY <3>1, <4>1, Zenon
    <3>q. QED
      BY <3>2, <3>3, PosUpdate
  <2>5. Lease!Read(c, p)
    BY <1>1, <1>2, <1>4, <2>1, <2>2, <2>4 DEF Lease!Read
  <2>q. QED
    BY <1>3, <2>5
<1>q. QED
  BY <1>6, <1>7

\* The member that commits holds the partition and has read up to the offset.
LEMMA CommitMaps ==
  ASSUME IInv, NEW c \in Consumers, CommitOk(c)
  PROVE  \E p \in Partitions : Lease!Commit(c, p)
<1> DEFINE p == cur[c].part
<1>1. /\ cur[c] \in Records /\ p \in assigned[c] /\ pos[c][p] = cur[c].off + 1 /\ c \in members
  BY DEF CommitOk, IInv, LoopInv, Busy
<1>2. p \in Partitions /\ committed[p] <= pos[c][p]
  BY <1>1 DEF Records, IInv, PosInv
<1>3. committed' = [committed EXCEPT ![p] = pos[c][p]]
  BY <1>1 DEF CommitOk, NextOffset
<1>4. c \in Holders[p]
  BY <1>1, <1>2, Held
<1>5. HolderPos[c][p] = pos[c][p]
  BY <1>2, <1>4, HeldPos
<1>6. UNCHANGED <<logEnd, Holders, HolderPos>>
  BY DEF CommitOk, groupVars, clientVars, Holders, HolderPos
<1>7. Lease!Commit(c, p)
  BY <1>2, <1>3, <1>4, <1>5, <1>6 DEF Lease!Commit
<1>q. QED
  BY <1>2, <1>7

\* A step of the main goroutine.
LEMMA LeaseMain ==
  ASSUME IInv, IInv', NEW c \in Consumers, Main(c)
  PROVE  Lease!Next \/ UNCHANGED Lease!vars
<1>1. CASE PollAssigned(c)
  BY <1>1, AcquireMaps DEF Lease!Next
<1>2. CASE PollMessage(c)
  BY <1>2, ReadMaps DEF Lease!Next
<1>3. CASE CommitOk(c)
  BY <1>3, CommitMaps DEF Lease!Next
<1>4. CASE PollRevoked(c) \/ CloseConsumer(c) \/ CloseDlq(c)
  <2>1. /\ assigned' = [assigned EXCEPT ![c] = {}]
        /\ pos' = [pos EXCEPT ![c] = [p \in Partitions |-> 0]]
    BY <1>4 DEF PollRevoked, CloseConsumer, CloseDlq, Gone
  <2>2. members' = members \/ members' = members \ {c}
    BY <1>4 DEF PollRevoked, CloseConsumer, CloseDlq, Gone, brokerVars
  <2>3. UNCHANGED <<logEnd, committed>>
    BY <1>4 DEF PollRevoked, CloseConsumer, CloseDlq, Gone, brokerVars
  <2>4. assigned'[c] = {} /\ Others(c)
    BY <2>1, <2>2 DEF Others, IInv, TypeOK
  <2>5. Lease!Release(c)
    BY <2>3, <2>4, ReleaseMaps DEF IInv
  <2>q. QED
    BY <2>5 DEF Lease!Next
<1>5. CASE ~(\/ PollAssigned(c) \/ PollMessage(c) \/ CommitOk(c)
             \/ PollRevoked(c) \/ CloseConsumer(c) \/ CloseDlq(c))
  <2>1. Frame
    BY <1>5 DEF Main, PollEvent, Subscribe, CheckCtx, PollNil, AttemptOk, AttemptFail,
       BackoffElapsed, BackoffCancelled, Publish, CommitFails, brokerVars, groupVars,
       clientVars, Frame
  <2>q. QED
    BY <2>1, FrameMaps
<1>q. QED
  BY <1>1, <1>2, <1>3, <1>4, <1>5

\* A step of the environment: a pod that dies, is evicted or joins holds
\* nothing afterwards.
LEMMA LeaseBackground ==
  ASSUME IInv, IInv', NEW c \in Consumers, Background(c)
  PROVE  Lease!Next \/ UNCHANGED Lease!vars
<1>1. CASE Crash(c) \/ Fatal(c)
  <2>1. /\ assigned' = [assigned EXCEPT ![c] = {}]
        /\ pos' = [pos EXCEPT ![c] = [p \in Partitions |-> 0]]
        /\ UNCHANGED <<logEnd, committed, members>>
    BY <1>1 DEF Crash, Fatal, Gone, brokerVars
  <2>2. assigned'[c] = {} /\ Others(c)
    BY <2>1 DEF Others, IInv, TypeOK
  <2>3. Lease!Release(c)
    BY <2>1, <2>2, ReleaseMaps DEF IInv
  <2>q. QED
    BY <2>3 DEF Lease!Next
<1>2. CASE Evict(c)
  <2>1. members' = members \ {c} /\ UNCHANGED <<logEnd, committed, assigned, pos>>
    BY <1>2 DEF Evict, clientVars
  <2>2. c \notin members' /\ Others(c)
    BY <2>1 DEF Others
  <2>3. Lease!Release(c)
    BY <2>1, <2>2, ReleaseMaps DEF IInv
  <2>q. QED
    BY <2>3 DEF Lease!Next
<1>3. CASE Join(c)
  <2>1. members' = members \cup {c} /\ UNCHANGED <<logEnd, committed, assigned, pos>>
    BY <1>3 DEF Join
  <2>2. assigned'[c] = {}
    BY <1>3, <2>1 DEF Join, IInv, GroupInv
  <2>3. Others(c)
    BY <2>1 DEF Others
  <2>4. Lease!Release(c)
    BY <2>1, <2>2, <2>3, ReleaseMaps DEF IInv
  <2>q. QED
    BY <2>4 DEF Lease!Next
<1>4. CASE ~(Crash(c) \/ Fatal(c) \/ Evict(c) \/ Join(c))
  <2>1. Frame
    BY <1>4 DEF Background, Boot, Sigterm, JoinLost, DlqDeliver, DlqDeliveryFails, brokerVars,
       groupVars, clientVars, Frame
  <2>q. QED
    BY <2>1, FrameMaps
<1>q. QED
  BY <1>1, <1>2, <1>3, <1>4

\* Every step is one of the lease, or one it does not see.
LEMMA LeaseStep ==
  ASSUME IInv, IInv', Next
  PROVE  Lease!Next \/ UNCHANGED Lease!vars
<1>1. CASE Rebalanced
  BY <1>1, FrameMaps DEF Rebalanced, clientVars, Frame
<1>2. ASSUME NEW p \in Partitions, Produce(p) PROVE Lease!Next
  <2>1. UNCHANGED <<committed, Holders, HolderPos>>
    BY <1>2 DEF Produce, groupVars, clientVars, Holders, HolderPos
  <2>2. Lease!Append(p)
    BY <1>2, <2>1 DEF Produce, Lease!Append
  <2>q. QED
    BY <2>2 DEF Lease!Next
<1>q. QED
  BY <1>1, <1>2, LeaseMain, LeaseBackground DEF Next

\* Only the member that holds a partition moves its committed offset, to the
\* position it has read up to, and whoever takes it up begins there.
THEOREM ImplementsLease == Spec => LeaseSpec
<1>1. Init => Lease!Init
  <2> SUFFICES ASSUME Init PROVE Lease!Init
    OBVIOUS
  <2>1. Holders = [p \in Partitions |-> {}]
    BY DEF Init, Holders
  <2>2. HolderPos = [c \in Consumers |-> Lease!Nowhere]
    BY <2>1 DEF HolderPos, Lease!Nowhere
  <2>q. QED
    BY <2>1, <2>2 DEF Init, Lease!Init
<1>2. IInv /\ IInv' /\ [Next]_vars => [Lease!Next]_(Lease!vars)
  <2>1. CASE UNCHANGED vars
    <3>1. Frame
      BY <2>1 DEF vars, Frame
    <3>q. QED
      BY <3>1, FrameMaps
  <2>2. ASSUME IInv, IInv', Next PROVE [Lease!Next]_(Lease!vars)
    BY <2>2, LeaseStep
  <2>q. QED
    BY <2>1, <2>2
<1>q. QED
  BY <1>1, <1>2, Invariance, PTL DEF Spec, LeaseSpec, Lease!Spec

-----------------------------------------------------------------------------
(* Shutdown *)

\* The steps left, place by place, before and after a step.
LEMMA Steps ==
  ASSUME NEW c
  PROVE  /\ pc[c] = "poll" => StepsLeft(c) = 2 * MaxAttempts + 5
         /\ pc[c] = "backoff" => StepsLeft(c) = 2 * (MaxAttempts - attempts[c]) + 5
         /\ pc[c] = "attempt" => StepsLeft(c) = 2 * (MaxAttempts - attempts[c]) + 4
         /\ pc[c] = "publish" => StepsLeft(c) = 5
         /\ pc[c] \in {"commit", "starting"} => StepsLeft(c) = 4
         /\ pc[c] = "loop" => StepsLeft(c) = 3
         /\ pc[c] = "close" => StepsLeft(c) = 2
         /\ pc[c] = "flush" => StepsLeft(c) = 1
  BY DEF StepsLeft

LEMMA StepsNext ==
  ASSUME NEW c
  PROVE  /\ pc'[c] = "backoff" => StepsLeft(c)' = 2 * (MaxAttempts - attempts'[c]) + 5
         /\ pc'[c] = "attempt" => StepsLeft(c)' = 2 * (MaxAttempts - attempts'[c]) + 4
         /\ pc'[c] = "publish" => StepsLeft(c)' = 5
         /\ pc'[c] = "commit" => StepsLeft(c)' = 4
         /\ pc'[c] = "loop" => StepsLeft(c)' = 3
         /\ pc'[c] = "close" => StepsLeft(c)' = 2
         /\ pc'[c] = "flush" => StepsLeft(c)' = 1
         /\ pc'[c] = "down" => StepsLeft(c)' = 0
  BY DEF StepsLeft

\* A pod that runs has a step left at least.
LEMMA StepsPositive ==
  ASSUME TypeOK, NEW c \in Consumers, pc[c] # "down"
  PROVE  StepsLeft(c) \in Nat /\ StepsLeft(c) > 0
<1>1. pc[c] \in {"starting", "loop", "poll", "attempt", "backoff", "publish", "commit",
                 "close", "flush"}
  BY DEF TypeOK, Locations, Busy
<1>2. MaxAttempts - attempts[c] \in Nat /\ MaxAttempts \in Nat
  BY DEF TypeOK
<1>q. QED
  BY <1>1, <1>2, Steps

\* Where a cancelled main goroutine goes next is nearer the exit.
LEMMA ShrinkMain ==
  ASSUME TypeOK, LoopInv, NEW c \in Consumers, ctxDone[c], Main(c)
  PROVE  ctxDone'[c] /\ StepsLeft(c)' \in 0..(StepsLeft(c) - 1)
<1>1. pc \in [Consumers -> Locations] /\ attempts \in [Consumers -> 0..MaxAttempts]
  BY DEF TypeOK
<1>2. attempts[c] \in Nat /\ MaxAttempts \in Nat
  BY <1>1
<1>3. ctxDone' = ctxDone
  BY DEF Main, PollEvent, Subscribe, CheckCtx, PollNil, PollAssigned, PollRevoked, PollMessage,
     AttemptOk, AttemptFail, BackoffElapsed, BackoffCancelled, Publish, CommitOk, CommitFails,
     CloseConsumer, CloseDlq, Gone
<1>4. CASE Subscribe(c) \/ PollNil(c) \/ PollAssigned(c) \/ PollRevoked(c)
           \/ CommitOk(c) \/ CommitFails(c)
  <2>1. pc[c] \in {"starting", "poll", "commit"} /\ pc'[c] = "loop"
    BY <1>1, <1>4 DEF Subscribe, PollNil, PollAssigned, PollRevoked, CommitOk, CommitFails
  <2>q. QED
    BY <1>2, <1>3, <2>1, Steps, StepsNext
<1>5. CASE CheckCtx(c)
  <2>1. pc[c] = "loop" /\ pc'[c] = "close"
    BY <1>1, <1>5 DEF CheckCtx
  <2>q. QED
    BY <1>3, <2>1, Steps, StepsNext
<1>6. CASE PollMessage(c)
  <2>1. pc[c] = "poll" /\ pc'[c] = "attempt" /\ attempts'[c] = attempts[c]
    BY <1>1, <1>6 DEF PollMessage
  <2>2. attempts[c] = 0
    BY <2>1 DEF LoopInv
  <2>q. QED
    BY <1>2, <1>3, <2>1, <2>2, Steps, StepsNext
<1>7. CASE AttemptFail(c)
  <2>1. pc[c] = "attempt" /\ attempts'[c] = attempts[c] + 1
        /\ pc'[c] = IF attempts[c] + 1 = MaxAttempts THEN "publish" ELSE "backoff"
    BY <1>1, <1>7 DEF AttemptFail
  <2>2. attempts[c] < MaxAttempts
    BY <2>1 DEF LoopInv
  <2>3. CASE attempts[c] + 1 = MaxAttempts
    BY <1>2, <1>3, <2>1, <2>2, <2>3, Steps, StepsNext
  <2>4. CASE attempts[c] + 1 # MaxAttempts
    BY <1>2, <1>3, <2>1, <2>2, <2>4, Steps, StepsNext
  <2>q. QED
    BY <2>3, <2>4
<1>8. CASE BackoffElapsed(c) \/ BackoffCancelled(c)
  <2>1. pc[c] = "backoff" /\ pc'[c] \in {"attempt", "publish"} /\ attempts'[c] = attempts[c]
    BY <1>1, <1>8 DEF BackoffElapsed, BackoffCancelled
  <2>2. attempts[c] < MaxAttempts
    BY <2>1 DEF LoopInv
  <2>q. QED
    BY <1>2, <1>3, <2>1, <2>2, Steps, StepsNext
<1>9. CASE Publish(c)
  <2>1. pc[c] = "publish" /\ pc'[c] = "commit"
    BY <1>1, <1>9 DEF Publish
  <2>q. QED
    BY <1>3, <2>1, Steps, StepsNext
<1>10. CASE CloseConsumer(c)
  <2>1. pc[c] = "close" /\ pc'[c] = "flush"
    BY <1>1, <1>10 DEF CloseConsumer
  <2>q. QED
    BY <1>3, <2>1, Steps, StepsNext
<1>11. CASE CloseDlq(c)
  <2>1. pc[c] = "flush" /\ pc'[c] = "down"
    BY <1>1, <1>11 DEF CloseDlq, Gone
  <2>q. QED
    BY <1>3, <2>1, Steps, StepsNext
<1>12. ~AttemptOk(c)
  BY DEF AttemptOk
<1>q. QED
  BY <1>4, <1>5, <1>6, <1>7, <1>8, <1>9, <1>10, <1>11, <1>12 DEF Main, PollEvent

\* Nothing else moves it, but for a process that dies.
LEMMA ShrinkBackground ==
  ASSUME TypeOK, NEW c \in Consumers, ctxDone[c], pc[c] # "down", Background(c)
  PROVE  ctxDone'[c] /\ (pc'[c] # pc[c] => StepsLeft(c)' \in 0..(StepsLeft(c) - 1))
<1>1. CASE Crash(c) \/ Fatal(c)
  <2>1. pc'[c] = "down" /\ ctxDone' = ctxDone
    BY <1>1 DEF Crash, Fatal, Gone, TypeOK
  <2>q. QED
    BY <2>1, StepsNext, StepsPositive
<1>2. CASE ~(Crash(c) \/ Fatal(c))
  <2>1. UNCHANGED <<pc, ctxDone>>
    BY <1>2 DEF Background, Boot, Sigterm, Evict, Join, JoinLost, DlqDeliver, DlqDeliveryFails
  <2>q. QED
    BY <2>1
<1>q. QED
  BY <1>1, <1>2

\* A step of one pod moves no other.
LEMMA ShrinkOther ==
  ASSUME TypeOK, NEW c \in Consumers, NEW d \in Consumers, c # d, Main(d) \/ Background(d)
  PROVE  ctxDone'[c] = ctxDone[c] /\ pc'[c] = pc[c]
<1>1. pc \in [Consumers -> Locations] /\ ctxDone \in [Consumers -> BOOLEAN]
  BY DEF TypeOK
<1>2. ctxDone'[c] = ctxDone[c]
  <2>1. CASE Main(d)
    BY <2>1 DEF Main, PollEvent, Subscribe, CheckCtx, PollNil, PollAssigned, PollRevoked,
       PollMessage, AttemptOk, AttemptFail, BackoffElapsed, BackoffCancelled, Publish, CommitOk,
       CommitFails, CloseConsumer, CloseDlq, Gone
  <2>2. CASE Boot(d) \/ Sigterm(d)
    BY <1>1, <2>2 DEF Boot, Sigterm
  <2>3. CASE Background(d) /\ ~(Boot(d) \/ Sigterm(d))
    BY <2>3 DEF Background, Crash, Fatal, Gone, Evict, Join, JoinLost, DlqDeliver,
       DlqDeliveryFails
  <2>q. QED
    BY <2>1, <2>2, <2>3
<1>3. pc' = [pc EXCEPT ![d] = pc'[d]]
  <2>1. CASE Main(d)
    <3>1. CASE PollEvent(d) \/ Subscribe(d) \/ CheckCtx(d) \/ PollNil(d)
      BY <1>1, <3>1 DEF PollEvent, Subscribe, CheckCtx, PollNil, PollAssigned, PollRevoked,
         PollMessage
    <3>2. CASE AttemptOk(d) \/ AttemptFail(d) \/ BackoffElapsed(d) \/ BackoffCancelled(d)
      BY <1>1, <3>2 DEF AttemptOk, AttemptFail, BackoffElapsed, BackoffCancelled
    <3>3. CASE Publish(d) \/ CommitOk(d) \/ CommitFails(d) \/ CloseConsumer(d) \/ CloseDlq(d)
      BY <1>1, <3>3 DEF Publish, CommitOk, CommitFails, CloseConsumer, CloseDlq, Gone
    <3>q. QED
      BY <2>1, <3>1, <3>2, <3>3 DEF Main
  <2>2. CASE Boot(d) \/ Crash(d) \/ Fatal(d)
    BY <1>1, <2>2 DEF Boot, Crash, Fatal, Gone
  <2>3. CASE Background(d) /\ ~(Boot(d) \/ Crash(d) \/ Fatal(d))
    <3>1. pc' = pc
      BY <2>3 DEF Background, Sigterm, Evict, Join, JoinLost, DlqDeliver, DlqDeliveryFails
    <3>q. QED
      BY <1>1, <3>1
  <2>q. QED
    BY <2>1, <2>2, <2>3
<1>q. QED
  BY <1>1, <1>2, <1>3

\* A pod told to stop is down after at most 2 * MaxAttempts + 5 steps of its
\* main goroutine, wherever it was: no step leads it away from the exit.
THEOREM StopBounded == Spec => StopShrinks
<1> DEFINE Shrinks(c) == ctxDone[c] /\ pc[c] # "down" =>
                            /\ ctxDone'[c]
                            /\ pc'[c] # pc[c] => StepsLeft(c)' \in 0..(StepsLeft(c) - 1)
<1>1. ASSUME IInv, Next, NEW c \in Consumers PROVE Shrinks(c)
  <2>1. CASE Rebalanced \/ \E p \in Partitions : Produce(p)
    BY <2>1 DEF Rebalanced, Produce
  <2>2. ASSUME NEW d \in Consumers, Main(d) \/ Background(d) PROVE Shrinks(c)
    <3>1. CASE d = c
      BY <1>1, <2>2, <3>1, ShrinkMain, ShrinkBackground DEF IInv
    <3>2. CASE d # c
      BY <1>1, <2>2, <3>2, ShrinkOther DEF IInv
    <3>q. QED
      BY <3>1, <3>2
  <2>q. QED
    BY <1>1, <2>1, <2>2 DEF Next
<1>2. IInv /\ [Next]_vars => [\A c \in Consumers : Shrinks(c)]_vars
  BY <1>1
<1>q. QED
  BY <1>2, Invariance, PTL DEF Spec, StopShrinks

\* What a step does to one pod's main goroutine keeps the cause of an early
\* publish.
LEMMA EarlyStep ==
  ASSUME TypeOK, EarlyOnlyOnStop, Next
  PROVE  EarlyOnlyOnStop'
<1>1. /\ pc \in [Consumers -> Locations] /\ attempts \in [Consumers -> 0..MaxAttempts]
      /\ ctxDone \in [Consumers -> BOOLEAN]
  BY DEF TypeOK
<1>2. ASSUME UNCHANGED <<pc, ctxDone, attempts>> PROVE EarlyOnlyOnStop'
  BY <1>2 DEF EarlyOnlyOnStop
<1>3. ASSUME NEW c \in Consumers, NEW x, pc' = [pc EXCEPT ![c] = x], x # "publish",
             UNCHANGED ctxDone, \A d \in Consumers \ {c} : attempts'[d] = attempts[d]
      PROVE  EarlyOnlyOnStop'
  BY <1>1, <1>3 DEF EarlyOnlyOnStop
<1>4. ASSUME NEW c \in Consumers, Main(c) PROVE EarlyOnlyOnStop'
  <2>1. CASE AttemptFail(c)
    <3>1. /\ pc' = [pc EXCEPT ![c] = IF attempts[c] + 1 = MaxAttempts THEN "publish" ELSE "backoff"]
          /\ attempts' = [attempts EXCEPT ![c] = attempts[c] + 1] /\ ctxDone' = ctxDone
      BY <2>1 DEF AttemptFail
    <3>2. attempts'[c] = attempts[c] + 1 /\ \A d \in Consumers \ {c} : attempts'[d] = attempts[d]
      BY <1>1, <3>1
    <3>3. pc'[c] = "publish" => attempts[c] + 1 = MaxAttempts
      BY <1>1, <3>1
    <3>4. \A d \in Consumers \ {c} : pc'[d] = pc[d]
      BY <1>1, <3>1
    <3>q. QED
      BY <3>1, <3>2, <3>3, <3>4 DEF EarlyOnlyOnStop
  <2>2. CASE BackoffCancelled(c)
    BY <1>1, <2>2 DEF BackoffCancelled, EarlyOnlyOnStop
  <2>3. CASE PollEvent(c) \/ Subscribe(c) \/ CheckCtx(c) \/ PollNil(c) \/ BackoffElapsed(c)
    <3>1. /\ pc' = [pc EXCEPT ![c] = pc'[c]] /\ pc'[c] # "publish"
          /\ UNCHANGED <<ctxDone, attempts>>
      BY <1>1, <2>3 DEF PollEvent, Subscribe, CheckCtx, PollNil, PollAssigned, PollRevoked,
         PollMessage, BackoffElapsed
    <3>q. QED
      BY <1>3, <3>1
  <2>4. CASE AttemptOk(c) \/ Publish(c) \/ CloseDlq(c)
    <3>1. /\ pc' = [pc EXCEPT ![c] = pc'[c]] /\ pc'[c] # "publish" /\ UNCHANGED ctxDone
          /\ attempts' = [attempts EXCEPT ![c] = 0]
      BY <1>1, <2>4 DEF AttemptOk, Publish, CloseDlq, Gone
    <3>q. QED
      BY <1>1, <1>3, <3>1
  <2>5. CASE CommitOk(c) \/ CommitFails(c) \/ CloseConsumer(c)
    <3>1. /\ pc' = [pc EXCEPT ![c] = pc'[c]] /\ pc'[c] # "publish"
          /\ UNCHANGED <<ctxDone, attempts>>
      BY <1>1, <2>5 DEF CommitOk, CommitFails, CloseConsumer
    <3>q. QED
      BY <1>3, <3>1
  <2>q. QED
    BY <1>4, <2>1, <2>2, <2>3, <2>4, <2>5 DEF Main
<1>5. ASSUME NEW c \in Consumers, Background(c) PROVE EarlyOnlyOnStop'
  <2>1. CASE Boot(c)
    BY <1>1, <2>1 DEF Boot, EarlyOnlyOnStop
  <2>2. CASE Sigterm(c)
    BY <1>1, <2>2 DEF Sigterm, EarlyOnlyOnStop
  <2>3. CASE Crash(c) \/ Fatal(c)
    <3>1. /\ pc' = [pc EXCEPT ![c] = "down"] /\ UNCHANGED ctxDone
          /\ attempts' = [attempts EXCEPT ![c] = 0]
      BY <2>3 DEF Crash, Fatal, Gone
    <3>q. QED
      BY <1>1, <1>3, <3>1
  <2>4. CASE ~(Boot(c) \/ Sigterm(c) \/ Crash(c) \/ Fatal(c))
    <3>1. UNCHANGED <<pc, ctxDone, attempts>>
      BY <1>5, <2>4 DEF Background, Evict, Join, JoinLost, DlqDeliver, DlqDeliveryFails
    <3>q. QED
      BY <1>2, <3>1
  <2>q. QED
    BY <2>1, <2>2, <2>3, <2>4
<1>6. CASE Rebalanced \/ \E p \in Partitions : Produce(p)
  BY <1>2, <1>6 DEF Rebalanced, Produce
<1>q. QED
  BY <1>4, <1>5, <1>6 DEF Next

\* Nothing but the end of the pod makes WithRetry give up before its last attempt.
THEOREM EarlyPublish == Spec => []EarlyOnlyOnStop
<1>1. Init => EarlyOnlyOnStop
  BY DEF Init, EarlyOnlyOnStop
<1>2. TypeOK /\ EarlyOnlyOnStop /\ [Next]_vars => EarlyOnlyOnStop'
  <2>1. EarlyOnlyOnStop /\ UNCHANGED vars => EarlyOnlyOnStop'
    BY DEF EarlyOnlyOnStop, vars
  <2>q. QED
    BY <2>1, EarlyStep
<1>q. QED
  BY <1>1, <1>2, TypeCorrect, PTL DEF Spec

-----------------------------------------------------------------------------
(* The SCRAM variant *)

\* It keeps the lease, stops in as many steps, and gives up no sooner.
THEOREM ScramLease == ScramSpec => LeaseSpec /\ StopShrinks /\ []EarlyOnlyOnStop
  BY ScramSteps, ImplementsLease, StopBounded, EarlyPublish
=============================================================================
