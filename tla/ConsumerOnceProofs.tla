------------------------ MODULE ConsumerOnceProofs ------------------------
(* What the consumer group keeps as long as only some kinds of fault have   *)
(* happened: nothing is lost without a crash or a DLQ failure, nothing is   *)
(* delivered twice or skipped after it was seen without a crash or an       *)
(* eviction, but for a record whose own commit failed.  The SCRAM variant   *)
(* keeps what Consumer keeps.                                               *)
EXTENDS ConsumerProofs

USE OffsetAssumption, AttemptsAssumption, FaultsAssumption, NoRecordAssumption

\* The faults that may delay a record but lose none.
Lossless == {"sigterm", "evict", "commit"}

\* Faults are only added, so what no fault has spoiled was never spoiled.
LEMMA FaultsGrow ==
  ASSUME TypeOK, Next
  PROVE  faults.kinds \subseteq faults'.kinds
<1>1. ASSUME NEW k, Fault(k) PROVE faults.kinds \subseteq faults'.kinds
  BY <1>1 DEF Fault
<1>2. ASSUME UNCHANGED faults PROVE faults.kinds \subseteq faults'.kinds
  BY <1>2
<1>3. ASSUME NEW c \in Consumers, Main(c) PROVE UNCHANGED faults \/ \E k \in FaultKinds : Fault(k)
  <2>1. CASE Publish(c) \/ CommitFails(c) \/ CloseDlq(c)
    BY <2>1 DEF Publish, CommitFails, CloseDlq, Fault
  <2>2. CASE ~(Publish(c) \/ CommitFails(c) \/ CloseDlq(c))
    BY <1>3, <2>2 DEF Main, PollEvent, Subscribe, CheckCtx, PollNil, PollAssigned, PollRevoked,
       PollMessage, AttemptOk, AttemptFail, BackoffElapsed, BackoffCancelled, CommitOk,
       CloseConsumer
  <2>q. QED
    BY <2>1, <2>2
<1>4. ASSUME NEW c \in Consumers, Background(c)
      PROVE  UNCHANGED faults \/ \E k \in FaultKinds : Fault(k)
  <2>1. CASE Evict(c) \/ Crash(c) \/ Fatal(c) \/ Sigterm(c) \/ DlqDeliveryFails(c)
    BY <2>1 DEF Evict, Crash, Fatal, Sigterm, DlqDeliveryFails, Fault
  <2>2. CASE Boot(c) \/ Join(c) \/ JoinLost(c) \/ DlqDeliver(c)
    BY <2>2 DEF Boot, Join, JoinLost, DlqDeliver
  <2>q. QED
    BY <1>4, <2>1, <2>2 DEF Background
<1>5. ASSUME \/ Rebalanced
             \/ \E p \in Partitions : Produce(p)
      PROVE  UNCHANGED faults
  BY <1>5 DEF Rebalanced, Produce
<1>q. QED
  BY <1>1, <1>2, <1>3, <1>4, <1>5 DEF Next

\* A fault leaves its mark.
LEMMA FaultMarks ==
  ASSUME NEW k, NEW kinds, Fault(k), faults'.kinds \subseteq kinds
  PROVE  k \in kinds
  BY DEF Fault

-----------------------------------------------------------------------------
(* Nothing is lost *)

\* What was sent to the DLQ is there or on the way, as long as it may be.
DurableInv == Only(Lossless) => DlqDurable

\* A main goroutine enqueues what it publishes, and ends with an empty queue.
LEMMA DurableMain ==
  ASSUME TypeOK, LoopInv, DlqDurable, faults'.kinds \subseteq Lossless,
         NEW c \in Consumers, Main(c)
  PROVE  DlqDurable'
<1>1. CASE Publish(c)
  <2>1. ~Fault("produce")
    BY FaultMarks DEF Lossless
  <2>2. sent' = sent \cup {cur[c]} /\ dlqTopic' = dlqTopic
        /\ dlqQueue' = [dlqQueue EXCEPT ![c] = @ \cup {cur[c]}]
    BY <1>1, <2>1 DEF Publish, brokerVars
  <2>3. \A d \in Consumers : dlqQueue[d] \subseteq dlqQueue'[d]
    BY <2>2 DEF TypeOK
  <2>4. cur[c] \in dlqQueue'[c]
    BY <2>2 DEF TypeOK
  <2>q. QED
    BY <2>2, <2>3, <2>4 DEF DlqDurable
<1>2. CASE CloseDlq(c)
  <2>1. ~Fault("flush")
    BY FaultMarks DEF Lossless
  <2>2. dlqQueue[c] = {} /\ dlqQueue' = [dlqQueue EXCEPT ![c] = {}]
        /\ UNCHANGED <<sent, dlqTopic>>
    BY <1>2, <2>1 DEF CloseDlq, Gone, brokerVars, history
  <2>3. dlqQueue' = dlqQueue
    BY <2>2 DEF TypeOK
  <2>q. QED
    BY <2>2, <2>3 DEF DlqDurable
<1>3. CASE ~Publish(c) /\ ~CloseDlq(c)
  <2>1. UNCHANGED <<sent, dlqTopic, dlqQueue>>
    BY <1>3 DEF Main, PollEvent, Subscribe, CheckCtx, PollNil, PollAssigned, PollRevoked,
       PollMessage, AttemptOk, AttemptFail, BackoffElapsed, BackoffCancelled, CommitOk,
       CommitFails, CloseConsumer, brokerVars, history
  <2>q. QED
    BY <2>1 DEF DlqDurable
<1>q. QED
  BY <1>1, <1>2, <1>3

\* A delivery moves a record from the queue to the topic; only a fault loses it.
LEMMA DurableBackground ==
  ASSUME TypeOK, DlqDurable, faults'.kinds \subseteq Lossless,
         NEW c \in Consumers, Background(c)
  PROVE  DlqDurable'
<1>1. ~Fault("crash") /\ ~Fault("fatal") /\ ~Fault("delivery")
  BY FaultMarks DEF Lossless
<1>2. CASE DlqDeliver(c)
  <2>1. PICK r \in dlqQueue[c] : /\ dlqQueue' = [dlqQueue EXCEPT ![c] = @ \ {r}]
                                 /\ dlqTopic' = dlqTopic \cup {r}
    BY <1>2 DEF DlqDeliver
  <2>2. \A d \in Consumers : \A q \in dlqQueue[d] : q \in dlqQueue'[d] \/ q \in dlqTopic'
    BY <2>1 DEF TypeOK
  <2>3. sent' = sent /\ dlqTopic \subseteq dlqTopic'
    BY <1>2, <2>1 DEF DlqDeliver, history
  <2>q. QED
    BY <2>2, <2>3 DEF DlqDurable
<1>3. CASE ~DlqDeliver(c)
  <2>1. UNCHANGED <<sent, dlqTopic, dlqQueue>>
    BY <1>1, <1>3 DEF Background, Boot, Crash, Fatal, Sigterm, Evict, Join, JoinLost,
       DlqDeliveryFails, brokerVars, history
  <2>q. QED
    BY <2>1 DEF DlqDurable
<1>q. QED
  BY <1>2, <1>3

LEMMA DurableStep == IInv /\ DurableInv /\ [Next]_vars => DurableInv'
<1>1. ASSUME DurableInv, UNCHANGED vars PROVE DurableInv'
  BY <1>1 DEF DurableInv, DlqDurable, Only, vars
<1>2. ASSUME IInv, DurableInv, Next PROVE DurableInv'
  <2> SUFFICES ASSUME faults'.kinds \subseteq Lossless PROVE DlqDurable'
    BY DEF DurableInv, Only
  <2>1. DlqDurable
    BY <1>2, FaultsGrow DEF DurableInv, Only, IInv
  <2>2. ASSUME NEW c \in Consumers, Main(c) PROVE DlqDurable'
    BY <1>2, <2>1, <2>2, DurableMain DEF IInv
  <2>3. ASSUME NEW c \in Consumers, Background(c) PROVE DlqDurable'
    BY <1>2, <2>1, <2>3, DurableBackground DEF IInv
  <2>4. ASSUME \/ Rebalanced
               \/ \E p \in Partitions : Produce(p)
        PROVE  DlqDurable'
    BY <2>1, <2>4 DEF Rebalanced, Produce, history, DlqDurable
  <2>q. QED
    BY <1>2, <2>2, <2>3, <2>4 DEF Next
<1>q. QED
  BY <1>1, <1>2

\* As long as no pod crashes and the DLQ works, a record that was sent to the
\* DLQ is durable, and none whose offset is committed vanishes, whatever
\* restarts, evictions and failed commits there are.
THEOREM Durability == Spec => []DurableWithoutCrash
<1>1. Init => DurableInv
  BY DEF Init, DurableInv, DlqDurable
<1>2. Spec => []DurableInv
  BY <1>1, DurableStep, Invariance, PTL DEF Spec
<1>3. IInv /\ DurableInv => DurableWithoutCrash
  <2> SUFFICES ASSUME CommittedHandled, DlqDurable PROVE NothingLost
    BY DEF IInv, DurableInv, DurableWithoutCrash, Lossless
  <2> SUFFICES ASSUME NEW p \in Partitions, NEW o \in Offsets, o < committed[p]
               PROVE  \/ Rec(p, o) \in done \cup dlqTopic \cup skipped
                      \/ \E c \in Consumers : Rec(p, o) \in dlqQueue[c]
    BY DEF NothingLost
  <2>1. Rec(p, o) \in Handled
    BY DEF CommittedHandled
  <2>q. QED
    BY <2>1 DEF DlqDurable, Handled
<1>q. QED
  BY <1>2, <1>3, Invariance, PTL

-----------------------------------------------------------------------------
(* Nothing is delivered twice *)

\* Who is in the group for itself is in it for the coordinator; a record that
\* was delivered is committed, in somebody's hands or one whose commit failed;
\* and every owner of a partition is past what was delivered of it, but for
\* such records.
Staying == \A c \in Consumers : cst[c] \in {"rejoining", "joined", "assigned"} => c \in members
Seen == \A p \in Partitions, o \in Offsets :
          Rec(p, o) \in delivered =>
             /\ o < logEnd[p]
             /\ \/ o < committed[p]
                \/ \E c \in Consumers : cur[c] = Rec(p, o)
                \/ Rec(p, o) \in failed
Ahead == \A c \in Consumers : \A p \in assigned[c] : \A o \in Offsets :
           Rec(p, o) \in delivered => o < pos[c][p] \/ Rec(p, o) \in failed
Once == Staying /\ Seen /\ Ahead
OnceInv == Only(Orderly) => Once

\* Nobody leaves the group of the coordinator without knowing it.
LEMMA StayingStep ==
  ASSUME IInv, Staying, Next, faults'.kinds \subseteq Orderly
  PROVE  Staying'
<1>1. ~Fault("evict")
  BY FaultMarks DEF Orderly
<1>2. cst \in [Consumers -> GroupStates]
  BY DEF IInv, TypeOK
<1>3. ASSUME NEW c \in Consumers, Main(c) PROVE Staying'
  <2>1. CASE PollAssigned(c) \/ PollRevoked(c)
    <3>1. members' = members /\ c \in members
      BY <2>1 DEF PollAssigned, PollRevoked, brokerVars, Staying
    <3>2. \A d \in Consumers \ {c} : cst'[d] = cst[d]
      BY <1>2, <2>1 DEF PollAssigned, PollRevoked
    <3>q. QED
      BY <3>1, <3>2 DEF Staying
  <2>2. CASE Subscribe(c) \/ CloseDlq(c)
    BY <1>2, <2>2 DEF Subscribe, CloseDlq, Gone, brokerVars, Staying
  <2>3. CASE CloseConsumer(c)
    BY <1>2, <2>3 DEF CloseConsumer, Staying
  <2>4. CASE ~(\/ PollAssigned(c) \/ PollRevoked(c) \/ Subscribe(c) \/ CloseDlq(c)
               \/ CloseConsumer(c))
    <3>1. UNCHANGED <<cst, members>>
      BY <1>3, <2>4 DEF Main, PollEvent, CheckCtx, PollNil, PollMessage, AttemptOk,
         AttemptFail, BackoffElapsed, BackoffCancelled, Publish, CommitOk, CommitFails,
         brokerVars, groupVars, clientVars
    <3>q. QED
      BY <3>1 DEF Staying
  <2>q. QED
    BY <2>1, <2>2, <2>3, <2>4
<1>4. ASSUME NEW c \in Consumers, Background(c) PROVE Staying'
  <2>1. CASE Evict(c)
    BY <1>1, <2>1 DEF Evict, clientVars, Staying
  <2>2. CASE Join(c) \/ JoinLost(c)
    BY <1>2, <2>2 DEF Join, JoinLost, brokerVars, Staying
  <2>3. CASE Crash(c) \/ Fatal(c)
    BY <1>2, <2>3 DEF Crash, Fatal, Gone, brokerVars, Staying
  <2>4. CASE Boot(c) \/ Sigterm(c) \/ DlqDeliver(c) \/ DlqDeliveryFails(c)
    BY <2>4 DEF Boot, Sigterm, DlqDeliver, DlqDeliveryFails, brokerVars, groupVars,
       clientVars, Staying
  <2>q. QED
    BY <1>4, <2>1, <2>2, <2>3, <2>4 DEF Background
<1>5. ASSUME \/ Rebalanced
             \/ \E p \in Partitions : Produce(p)
      PROVE  Staying'
  BY <1>5 DEF Rebalanced, Produce, groupVars, clientVars, Staying
<1>q. QED
  BY <1>3, <1>4, <1>5 DEF Next

\* A pod that holds a record is the one owner of its partition.
LEMMA Holder ==
  ASSUME IInv, Staying, NEW c \in Consumers, NEW d \in Consumers, c # d,
         NEW p \in assigned[c]
  PROVE  /\ p \notin assigned[d]
         /\ cur[d] # NoRecord => cur[d].part # p
<1>1. c \in members /\ (assigned[d] # {} => d \in members)
  BY DEF IInv, GroupInv, Staying
<1>2. p \notin assigned[d]
  BY <1>1, Exclusive DEF IInv, ExclusiveOwner
<1>3. cur[d] # NoRecord => cur[d].part \in assigned[d]
  BY DEF IInv, LoopInv
<1>q. QED
  BY <1>2, <1>3

\* Steps that deliver, commit and assign nothing: what is said of delivered
\* and of skipped records stays true.
Quiet == /\ UNCHANGED <<delivered, skipped, failed, cur, committed>>
         /\ \A p \in Partitions : logEnd[p] <= logEnd'[p]
         /\ \A c \in Consumers : \/ assigned'[c] = {}
                                 \/ assigned'[c] = assigned[c] /\ pos'[c] = pos[c]

LEMMA QuietKeeps ==
  ASSUME TypeOK, TypeOK', Seen, Ahead, Quiet
  PROVE  Seen' /\ Ahead'
<1>1. \A p \in Partitions : logEnd[p] \in Int /\ logEnd'[p] \in Int
  BY DEF TypeOK
<1>2. Seen'
  BY <1>1 DEF Quiet, Seen, Offsets
<1>3. Ahead'
  BY DEF Quiet, Ahead
<1>q. QED
  BY <1>2, <1>3

\* Most steps of the main goroutine are quiet.
LEMMA QuietMain ==
  ASSUME IInv, NEW c \in Consumers, Main(c),
         ~PollAssigned(c), ~PollMessage(c), ~CommitOk(c), ~CommitFails(c)
  PROVE  Quiet
<1>0. \A p \in Partitions : logEnd[p] <= logEnd[p]
  BY DEF IInv, TypeOK
<1>1. CASE PollRevoked(c)
  <2>1. UNCHANGED <<delivered, skipped, failed, cur, committed, logEnd>>
    BY <1>1 DEF PollRevoked, brokerVars, history
  <2>2. \A d \in Consumers : assigned'[d] = {} \/ (assigned'[d] = assigned[d] /\ pos'[d] = pos[d])
    BY <1>1 DEF PollRevoked, IInv, TypeOK
  <2>q. QED
    BY <1>0, <2>1, <2>2 DEF Quiet
<1>2. CASE CloseConsumer(c)
  BY <1>0, <1>2 DEF CloseConsumer, history, Quiet, IInv, TypeOK
<1>3. CASE CloseDlq(c)
  <2>1. cur[c] = NoRecord
    BY <1>3 DEF CloseDlq, IInv, LoopInv, Busy
  <2>2. cur' = cur
    BY <1>3, <2>1 DEF CloseDlq, Gone, IInv, TypeOK
  <2>3. \A d \in Consumers : assigned'[d] = {} \/ (assigned'[d] = assigned[d] /\ pos'[d] = pos[d])
    BY <1>3 DEF CloseDlq, Gone, IInv, TypeOK
  <2>q. QED
    BY <1>0, <1>3, <2>2, <2>3 DEF CloseDlq, Gone, brokerVars, history, Quiet
<1>4. CASE ~(PollRevoked(c) \/ CloseConsumer(c) \/ CloseDlq(c))
  <2>1. UNCHANGED <<delivered, skipped, failed, cur, committed, logEnd, assigned, pos>>
    BY <1>4 DEF Main, PollEvent, Subscribe, CheckCtx, PollNil, AttemptOk, AttemptFail,
       BackoffElapsed, BackoffCancelled, Publish, brokerVars, clientVars, history
  <2>q. QED
    BY <1>0, <2>1 DEF Quiet
<1>q. QED
  BY <1>1, <1>2, <1>3, <1>4

\* So is everything else, unless a pod dies with a record in its hands.
LEMMA QuietOthers ==
  ASSUME IInv, faults'.kinds \subseteq Orderly,
         \/ Rebalanced
         \/ \E p \in Partitions : Produce(p)
         \/ \E c \in Consumers : Background(c)
  PROVE  Quiet
<1>0. \A p \in Partitions : logEnd[p] \in Int
  BY DEF IInv, TypeOK
<1>1. ASSUME NEW c \in Consumers, Background(c) PROVE Quiet
  <2>1. ~Fault("crash") /\ ~Fault("fatal")
    BY FaultMarks DEF Orderly
  <2>2. UNCHANGED <<delivered, skipped, failed, cur, committed, logEnd, assigned, pos>>
    BY <1>1, <2>1 DEF Background, Boot, Crash, Fatal, Sigterm, Evict, Join, JoinLost,
       DlqDeliver, DlqDeliveryFails, brokerVars, clientVars, history
  <2>q. QED
    BY <1>0, <2>2 DEF Quiet
<1>2. CASE Rebalanced
  BY <1>0, <1>2 DEF Rebalanced, clientVars, history, Quiet
<1>3. ASSUME NEW p \in Partitions, Produce(p) PROVE Quiet
  <2>1. \A r \in Partitions : logEnd[r] <= logEnd'[r]
    BY <1>0, <1>3 DEF Produce, IInv, TypeOK
  <2>q. QED
    BY <1>3, <2>1 DEF Produce, groupVars, clientVars, history, Quiet
<1>q. QED
  BY <1>1, <1>2, <1>3

\* The record that Poll returns is new, or one whose commit failed, and nobody
\* else owns its partition.
LEMMA OnceMessage ==
  ASSUME IInv, Once, NEW c \in Consumers, PollMessage(c)
  PROVE  Seen' /\ Ahead' /\ (cur'[c] \in delivered => cur'[c] \in failed)
<1>1. PICK p \in assigned[c] : /\ pos[c][p] < logEnd[p]
                               /\ cur' = [cur EXCEPT ![c] = Rec(p, pos[c][p])]
                               /\ delivered' = delivered \cup {Rec(p, pos[c][p])}
                               /\ pos' = [pos EXCEPT ![c][p] = @ + 1]
  BY DEF PollMessage
<1>2. p \in Partitions /\ pos[c][p] \in Offsets
  <2>1. p \in Partitions
    BY DEF IInv, TypeOK
  <2>2. pos[c][p] \in 0..MaxOffset /\ logEnd[p] \in 0..MaxOffset
    BY <2>1 DEF IInv, TypeOK
  <2>3. pos[c][p] < logEnd[p]
    BY <1>1
  <2>q. QED
    BY <2>1, <2>2, <2>3 DEF Offsets
<1>3. cur'[c] = Rec(p, pos[c][p]) /\ \A d \in Consumers \ {c} : cur'[d] = cur[d]
  BY <1>1 DEF IInv, TypeOK
<1>4. cur[c] = NoRecord
  BY DEF PollMessage, IInv, LoopInv, Busy
<1>5. UNCHANGED <<logEnd, committed, assigned, failed>>
  BY DEF PollMessage, brokerVars
<1>6. \A q \in Partitions, o \in Offsets :
        Rec(q, o) \in delivered' => Rec(q, o) \in delivered \/ (q = p /\ o = pos[c][p])
  BY <1>1 DEF Rec
<1>7. Seen'
  <2>1. ASSUME NEW q \in Partitions, NEW o \in Offsets, Rec(q, o) \in delivered
        PROVE  /\ o < logEnd[q]
               /\ \/ o < committed[q]
                  \/ \E d \in Consumers : cur'[d] = Rec(q, o)
                  \/ Rec(q, o) \in failed
    <3>1. Rec(q, o) # NoRecord
      BY RecType
    <3>q. QED
      BY <1>3, <1>4, <2>1, <3>1 DEF Once, Seen
  <2>q. QED
    BY <1>1, <1>3, <1>5, <1>6, <2>1 DEF Seen
<1>8. Ahead'
  <2>1. \A q \in assigned[c] : /\ pos[c][q] \in Int
                               /\ pos'[c][q] = IF q = p THEN pos[c][q] + 1 ELSE pos[c][q]
    BY <1>1 DEF IInv, TypeOK
  <2>2. \A d \in Consumers \ {c} : pos'[d] = pos[d] /\ p \notin assigned[d]
    BY <1>1, Holder DEF IInv, TypeOK, Once
  <2>3. \A d \in Consumers : assigned[d] \subseteq Partitions
    BY DEF IInv, TypeOK
  <2>4. \A o \in Offsets : o \in Int
    BY DEF Offsets
  <2>5. ASSUME NEW q \in assigned[c], NEW o \in Offsets, Rec(q, o) \in delivered'
        PROVE  o < pos'[c][q] \/ Rec(q, o) \in failed
    BY <1>6, <2>1, <2>3, <2>4, <2>5 DEF Once, Ahead
  <2>6. ASSUME NEW d \in Consumers \ {c}, NEW q \in assigned[d], NEW o \in Offsets,
               Rec(q, o) \in delivered'
        PROVE  o < pos'[d][q] \/ Rec(q, o) \in failed
    BY <1>6, <2>2, <2>3, <2>6 DEF Once, Ahead
  <2>q. QED
    BY <1>5, <2>5, <2>6 DEF Ahead
<1>9. Rec(p, pos[c][p]) \in delivered => Rec(p, pos[c][p]) \in failed
  <2>1. pos[c][p] \in Int
    BY <1>2 DEF Offsets
  <2>q. QED
    BY <1>2, <2>1 DEF Once, Ahead
<1>q. QED
  BY <1>3, <1>7, <1>8, <1>9

\* Nobody has a record of a partition in hand when the partition is assigned.
LEMMA NobodyHolds ==
  ASSUME IInv, Staying, NEW c \in Consumers, PollAssigned(c),
         NEW p \in target[c], NEW o \in Offsets, NEW d \in Consumers
  PROVE  cur[d] # Rec(p, o)
<1>0. Rec(p, o) # NoRecord /\ Rec(p, o).part = p
  BY RecType DEF IInv, TypeOK
<1>1. cur[c] = NoRecord
  BY DEF PollAssigned, IInv, LoopInv, Busy
<1>2. CASE d # c /\ cur[d] # NoRecord
  <2>1. cur[d].part \in assigned[d]
    BY <1>2 DEF IInv, LoopInv
  <2>2. d \in members
    BY <2>1 DEF IInv, GroupInv, Staying
  <2>3. cur[d].part \in target[d]
    BY <2>1, <2>2 DEF IInv, GroupInv
  <2>4. cur[d].part # p
    BY <1>2, <2>3 DEF IInv, GroupInv
  <2>q. QED
    BY <1>0, <2>4
<1>q. QED
  BY <1>0, <1>1, <1>2

\* A new owner starts where the group has committed, and nobody holds more.
LEMMA OnceAssigned ==
  ASSUME IInv, Once, NEW c \in Consumers, PollAssigned(c)
  PROVE  Seen' /\ Ahead'
<1>1. UNCHANGED <<delivered, failed, cur, committed, logEnd>>
  BY DEF PollAssigned, brokerVars
<1>2. Seen'
  BY <1>1 DEF Once, Seen
<1>3. target[c] \subseteq Partitions
  BY DEF IInv, TypeOK
<1>4. /\ assigned'[c] = target[c]
      /\ \A p \in target[c] : pos'[c][p] = StartOffset(p)
      /\ \A d \in Consumers \ {c} : assigned'[d] = assigned[d] /\ pos'[d] = pos[d]
  BY <1>3 DEF PollAssigned, IInv, TypeOK
<1>6. ASSUME NEW p \in target[c], NEW o \in Offsets, Rec(p, o) \in delivered
      PROVE  o < StartOffset(p) \/ Rec(p, o) \in failed
  BY <1>3, <1>6, NobodyHolds DEF Once, Seen, StartOffset
<1>7. Ahead'
  <2>1. \A o \in Offsets, d \in Consumers \ {c} : \A p \in assigned[d] :
          Rec(p, o) \in delivered => o < pos[d][p] \/ Rec(p, o) \in failed
    BY DEF Once, Ahead
  <2>q. QED
    BY <1>1, <1>4, <1>6, <2>1 DEF Ahead
<1>q. QED
  BY <1>2, <1>7

\* The commit takes over what its pod lets go of.
LEMMA OnceCommit ==
  ASSUME IInv, Once, NEW c \in Consumers, CommitOk(c)
  PROVE  Seen' /\ Ahead'
<1>1. UNCHANGED <<delivered, failed, logEnd, assigned, pos>>
  BY DEF CommitOk, clientVars, history
<1>2. Ahead'
  BY <1>1 DEF Once, Ahead
<1>3. cur[c] \in Records /\ committed' = [committed EXCEPT ![cur[c].part] = cur[c].off + 1]
  BY DEF CommitOk, NextOffset, IInv, LoopInv, Busy
<1>4. \A d \in Consumers \ {c} : cur'[d] = cur[d]
  BY DEF CommitOk, IInv, TypeOK
<1>5. \A p \in Partitions : committed[p] \in Int /\ committed'[p] \in Int
                            /\ committed[p] <= committed'[p]
  <2>1. PICK p \in Partitions :
            /\ \A r \in Partitions \ {p} : committed'[r] = committed[r]
            /\ committed' = [committed EXCEPT ![p] = pos[c][p]]
            /\ committed[p] <= pos[c][p] /\ pos[c][p] \in Nat
    BY CommitStep
  <2>2. committed \in [Partitions -> -1..MaxOffset]
    BY DEF IInv, TypeOK
  <2>3. committed'[p] = pos[c][p]
    BY <2>1, <2>2
  <2>q. QED
    BY <2>1, <2>2, <2>3
<1>6. ASSUME NEW p \in Partitions, NEW o \in Offsets, cur[c] = Rec(p, o)
      PROVE  o < committed'[p]
  <2>1. cur[c].part = p /\ cur[c].off = o
    BY <1>6 DEF Rec
  <2>2. committed'[p] = o + 1
    BY <1>3, <2>1 DEF IInv, TypeOK
  <2>q. QED
    BY <2>2 DEF Offsets
<1>7. ASSUME NEW p \in Partitions, NEW o \in Offsets, Rec(p, o) \in delivered
      PROVE  /\ o < logEnd[p]
             /\ \/ o < committed'[p]
                \/ \E d \in Consumers : cur'[d] = Rec(p, o)
                \/ Rec(p, o) \in failed
  <2>1. o < logEnd[p]
    BY <1>7 DEF Once, Seen
  <2>2. CASE o < committed[p]
    BY <1>5, <2>1, <2>2 DEF Offsets
  <2>3. ASSUME NEW d \in Consumers, cur[d] = Rec(p, o)
        PROVE  o < committed'[p] \/ \E e \in Consumers : cur'[e] = Rec(p, o)
    BY <1>4, <1>6, <2>3
  <2>q. QED
    BY <1>7, <2>1, <2>2, <2>3 DEF Once, Seen
<1>q. QED
  BY <1>1, <1>2, <1>7 DEF Seen

\* A member's commit that fails leaves its record among the failed ones.
LEMMA OnceFails ==
  ASSUME IInv, Once, NEW c \in Consumers, CommitFails(c)
  PROVE  Seen' /\ Ahead'
<1>1. c \in members
  BY DEF CommitFails, IInv, LoopInv, GroupInv, Busy, Once, Staying
<1>2. failed' = failed \cup {cur[c]} /\ UNCHANGED <<delivered, committed, logEnd, assigned, pos>>
  BY <1>1 DEF CommitFails, brokerVars, clientVars
<1>3. \A d \in Consumers \ {c} : cur'[d] = cur[d]
  BY DEF CommitFails, IInv, TypeOK
<1>4. Seen'
  BY <1>2, <1>3 DEF Once, Seen
<1>5. Ahead'
  BY <1>2 DEF Once, Ahead
<1>q. QED
  BY <1>4, <1>5

LEMMA OnceStep == IInv /\ IInv' /\ OnceInv /\ [Next]_vars => OnceInv'
<1>1. ASSUME OnceInv, UNCHANGED vars PROVE OnceInv'
  BY <1>1 DEF OnceInv, Once, Staying, Seen, Ahead, Only, vars
<1>2. ASSUME IInv, IInv', OnceInv, Next PROVE OnceInv'
  <2> SUFFICES ASSUME faults'.kinds \subseteq Orderly PROVE Once'
    BY DEF OnceInv, Only
  <2>1. Once
    BY <1>2, FaultsGrow DEF OnceInv, Only, IInv
  <2>2. Staying'
    BY <1>2, <2>1, StayingStep DEF Once
  <2>3. ASSUME Quiet PROVE Seen' /\ Ahead'
    BY <1>2, <2>1, <2>3, QuietKeeps DEF Once, IInv
  <2>4. ASSUME NEW c \in Consumers, Main(c) PROVE Seen' /\ Ahead'
    <3>1. CASE PollMessage(c)
      BY <1>2, <2>1, <3>1, OnceMessage
    <3>2. CASE PollAssigned(c)
      BY <1>2, <2>1, <3>2, OnceAssigned
    <3>3. CASE CommitOk(c)
      BY <1>2, <2>1, <3>3, OnceCommit
    <3>4. CASE CommitFails(c)
      BY <1>2, <2>1, <3>4, OnceFails
    <3>5. CASE ~PollMessage(c) /\ ~PollAssigned(c) /\ ~CommitOk(c) /\ ~CommitFails(c)
      BY <1>2, <2>3, <2>4, <3>5, QuietMain
    <3>q. QED
      BY <3>1, <3>2, <3>3, <3>4, <3>5
  <2>5. ASSUME \/ Rebalanced
               \/ \E p \in Partitions : Produce(p)
               \/ \E c \in Consumers : Background(c)
        PROVE  Seen' /\ Ahead'
    BY <1>2, <2>3, <2>5, QuietOthers
  <2>q. QED
    BY <1>2, <2>2, <2>4, <2>5 DEF Next, Once
<1>q. QED
  BY <1>1, <1>2

\* A record comes into a pod's hands in PollMessage and nowhere else.
LEMMA OnlyPollTakes ==
  ASSUME TypeOK, Next, NEW c \in Consumers, cur'[c] # cur[c], cur'[c] # NoRecord
  PROVE  PollMessage(c)
<1>1. ASSUME NEW d \in Consumers, PollMessage(d) PROVE d = c
  BY <1>1 DEF PollMessage, TypeOK
<1>2. ASSUME NEW d \in Consumers, Main(d), ~PollMessage(d) PROVE FALSE
  <2>1. CASE CommitOk(d) \/ CommitFails(d) \/ CloseDlq(d)
    <3>1. cur' = [cur EXCEPT ![d] = NoRecord]
      BY <2>1 DEF CommitOk, CommitFails, CloseDlq, Gone
    <3>q. QED
      BY <3>1 DEF TypeOK
  <2>2. CASE ~(CommitOk(d) \/ CommitFails(d) \/ CloseDlq(d))
    BY <1>2, <2>2 DEF Main, PollEvent, Subscribe, CheckCtx, PollNil, PollAssigned,
       PollRevoked, AttemptOk, AttemptFail, BackoffElapsed, BackoffCancelled, Publish,
       CloseConsumer
  <2>q. QED
    BY <2>1, <2>2
<1>3. ASSUME NEW d \in Consumers, Background(d) PROVE FALSE
  <2>1. CASE Crash(d) \/ Fatal(d)
    <3>1. cur' = [cur EXCEPT ![d] = NoRecord]
      BY <2>1 DEF Crash, Fatal, Gone
    <3>q. QED
      BY <3>1 DEF TypeOK
  <2>2. CASE ~(Crash(d) \/ Fatal(d))
    BY <1>3, <2>2 DEF Background, Boot, Sigterm, Evict, Join, JoinLost, DlqDeliver,
       DlqDeliveryFails
  <2>q. QED
    BY <2>1, <2>2
<1>4. ~Rebalanced /\ ~\E p \in Partitions : Produce(p)
  BY DEF Rebalanced, Produce
<1>q. QED
  BY <1>1, <1>2, <1>3, <1>4 DEF Next

\* Nothing spoils what OnceInv says as long as it says it.
LEMMA OnceInvariance == Spec => []OnceInv
<1>1. Init => OnceInv
  BY DEF Init, OnceInv, Once, Staying, Seen, Ahead
<1>q. QED
  BY <1>1, OnceStep, Invariance, PTL DEF Spec

\* Restarts and DLQ failures cost no duplicates, and a commit that fails at
\* most its own record: unless a pod crashed or was evicted, every record that
\* Poll returns is new or one whose commit failed.
THEOREM NoDuplicates == Spec => NoRedelivery
<1>1. IInv /\ OnceInv /\ [Next]_vars
        => [Only(Orderly)
              => \A c \in Consumers :
                    cur'[c] # cur[c] /\ cur'[c] # NoRecord /\ cur'[c] \in delivered
                      => cur'[c] \in failed]_vars
  <2> SUFFICES ASSUME IInv, OnceInv, Next, Only(Orderly), NEW c \in Consumers,
                      cur'[c] # cur[c], cur'[c] # NoRecord, cur'[c] \in delivered
               PROVE  cur'[c] \in failed
    OBVIOUS
  <2>1. PollMessage(c)
    BY OnlyPollTakes DEF IInv
  <2>2. Once
    BY DEF OnceInv
  <2>q. QED
    BY <2>1, <2>2, OnceMessage
<1>q. QED
  BY <1>1, OnceInvariance, Invariance, PTL DEF Spec, NoRedelivery

-----------------------------------------------------------------------------
(* Nothing that was seen is skipped *)

\* A skipped record is below the committed offset, once there is one, and every
\* owner of its partition is past it; so it is never delivered, and it had been
\* before only if its commit failed.
Below == \A p \in Partitions, o \in Offsets :
           Rec(p, o) \in skipped => o < logEnd[p] /\ (committed[p] = -1 \/ o < committed[p])
Past == \A c \in Consumers : \A p \in assigned[c] : \A o \in Offsets :
          Rec(p, o) \in skipped => o < pos[c][p]
Apart == skipped \cap delivered \subseteq failed
Skip == Below /\ Past /\ Apart
SkipInv == Only(Orderly) => Skip

LEMMA SkipQuiet ==
  ASSUME TypeOK, TypeOK', Skip, Quiet
  PROVE  Skip'
<1>1. \A p \in Partitions : logEnd[p] \in Int /\ logEnd'[p] \in Int
  BY DEF TypeOK
<1>2. Below'
  BY <1>1 DEF Quiet, Skip, Below, Offsets
<1>3. Past'
  BY DEF Quiet, Skip, Past
<1>4. Apart'
  BY DEF Quiet, Skip, Apart
<1>q. QED
  BY <1>2, <1>3, <1>4 DEF Skip

\* Poll returns a record at a position, and skipped records are before it.
LEMMA SkipMessage ==
  ASSUME IInv, Skip, NEW c \in Consumers, PollMessage(c)
  PROVE  Skip'
<1>1. PICK p \in assigned[c] : /\ pos[c][p] < logEnd[p]
                               /\ delivered' = delivered \cup {Rec(p, pos[c][p])}
                               /\ pos' = [pos EXCEPT ![c][p] = @ + 1]
  BY DEF PollMessage
<1>2. UNCHANGED <<logEnd, committed, assigned, skipped, failed>>
  BY DEF PollMessage, brokerVars
<1>3. pos \in [Consumers -> [Partitions -> 0..MaxOffset]] /\ p \in Partitions
      /\ logEnd[p] \in 0..MaxOffset
  BY DEF IInv, TypeOK
<1>4. pos[c][p] \in Offsets
  <2>1. pos[c][p] \in 0..MaxOffset
    BY <1>3
  <2>q. QED
    BY <1>1, <1>3, <2>1 DEF Offsets
<1>5. Rec(p, pos[c][p]) \notin skipped
  <2>1. pos[c][p] \in Int
    BY <1>4 DEF Offsets
  <2>q. QED
    BY <1>4, <2>1 DEF Skip, Past
<1>6. Apart'
  BY <1>1, <1>2, <1>5 DEF Skip, Apart
<1>7. Past'
  <2>1. \A d \in Consumers, q \in Partitions :
           pos[d][q] \in Int /\ pos'[d][q] \in Int /\ pos[d][q] <= pos'[d][q]
    BY <1>1, <1>3
  <2>2. \A d \in Consumers : assigned[d] \subseteq Partitions
    BY DEF IInv, TypeOK
  <2>3. \A o \in Offsets : o \in Int
    BY DEF Offsets
  <2> SUFFICES ASSUME NEW d \in Consumers, NEW q \in assigned[d], NEW o \in Offsets,
                      Rec(q, o) \in skipped
               PROVE  o < pos'[d][q]
    BY <1>2 DEF Past
  <2>4. o < pos[d][q]
    BY DEF Skip, Past
  <2>q. QED
    BY <2>1, <2>2, <2>3, <2>4
<1>8. Below'
  BY <1>2 DEF Skip, Below
<1>q. QED
  BY <1>6, <1>7, <1>8 DEF Skip

\* "latest" takes effect before the first commit only: what was delivered would
\* be in somebody's hands, and nobody has a record of the partition, or its
\* commit has failed.
LEMMA SkipAssigned ==
  ASSUME IInv, Once, Skip, NEW c \in Consumers, PollAssigned(c)
  PROVE  Skip'
<1>1. UNCHANGED <<delivered, failed, committed, logEnd>>
  BY DEF PollAssigned, brokerVars
<1>2. target[c] \subseteq Partitions /\ \A o \in Offsets : o \in Nat
  BY DEF IInv, TypeOK, Offsets
<1>3. /\ assigned'[c] = target[c]
      /\ \A p \in target[c] : pos'[c][p] = StartOffset(p)
      /\ \A d \in Consumers \ {c} : assigned'[d] = assigned[d] /\ pos'[d] = pos[d]
  BY <1>2 DEF PollAssigned, IInv, TypeOK
<1>4. \A p \in Partitions : logEnd[p] \in 0..MaxOffset /\ committed[p] \in -1..MaxOffset
  BY DEF IInv, TypeOK
<1>5. ASSUME NEW p \in Partitions, NEW o \in Offsets, Rec(p, o) \in skipped'
      PROVE  Rec(p, o) \in skipped \/ (p \in target[c] /\ committed[p] = -1 /\ o < logEnd[p])
  <2>1. skipped' = skipped \cup UNION {SkippedOf(q) : q \in target[c]}
    BY DEF PollAssigned
  <2>2. CASE Rec(p, o) \in UNION {SkippedOf(q) : q \in target[c]}
    <3>1. PICK q \in target[c] : Rec(p, o) \in SkippedOf(q)
      BY <2>2, Zenon
    <3>2. committed[q] = -1
      BY <3>1 DEF SkippedOf
    <3>3. PICK n \in 0..(logEnd[q] - 1) : Rec(p, o) = Rec(q, n)
      BY <3>1 DEF SkippedOf
    <3>4. p = q /\ o = n
      BY <3>3 DEF Rec
    <3>q. QED
      BY <1>2, <1>4, <3>1, <3>2, <3>3, <3>4
  <2>q. QED
    BY <1>5, <2>1, <2>2
<1>6. Below'
  BY <1>1, <1>5 DEF Skip, Below
<1>7. Apart'
  <2> SUFFICES ASSUME NEW r \in skipped', r \in delivered', r \notin failed PROVE FALSE
    BY <1>1 DEF Apart
  <2>1. r \in Records /\ r \in delivered
    BY <1>1 DEF IInv, TypeOK
  <2>2. r.part \in Partitions /\ r.off \in Offsets /\ r = Rec(r.part, r.off)
    BY <2>1 DEF Records, Rec
  <2>3. r \notin skipped
    BY <2>1 DEF Skip, Apart
  <2>4. r.part \in target[c] /\ committed[r.part] = -1
    BY <1>5, <2>2, <2>3
  <2>5. r.off < committed[r.part]
    BY <2>1, <2>2, <2>4, NobodyHolds DEF Once, Seen
  <2>q. QED
    BY <1>2, <2>2, <2>4, <2>5
<1>8. Past'
  <2>1. ASSUME NEW p \in target[c], NEW o \in Offsets, Rec(p, o) \in skipped'
        PROVE  o < pos'[c][p]
    <3>1. o < logEnd[p] /\ (committed[p] = -1 \/ o < committed[p])
      BY <1>2, <1>5, <2>1 DEF Skip, Below
    <3>q. QED
      BY <1>3, <3>1 DEF StartOffset
  <2>2. ASSUME NEW d \in Consumers \ {c}, NEW p \in assigned[d], NEW o \in Offsets,
               Rec(p, o) \in skipped'
        PROVE  o < pos[d][p]
    <3>1. d \in members
      BY DEF IInv, GroupInv, Once, Staying
    <3>2. p \in target[d]
      BY <3>1 DEF IInv, GroupInv
    <3>3. p \notin target[c]
      BY <3>2 DEF IInv, GroupInv
    <3>4. p \in Partitions
      BY DEF IInv, TypeOK
    <3>5. Rec(p, o) \in skipped
      BY <1>5, <2>2, <3>3, <3>4
    <3>q. QED
      BY <3>5 DEF Skip, Past
  <2>q. QED
    BY <1>3, <2>1, <2>2 DEF Past
<1>q. QED
  BY <1>6, <1>7, <1>8 DEF Skip

\* The first commit of a partition is past what was skipped.
LEMMA SkipCommit ==
  ASSUME IInv, Skip, NEW c \in Consumers, CommitOk(c)
  PROVE  Skip'
<1>1. UNCHANGED <<delivered, skipped, failed, logEnd, assigned, pos>>
  BY DEF CommitOk, clientVars, history
<1>2. /\ cur[c] \in Records /\ cur[c].part \in assigned[c]
      /\ pos[c][cur[c].part] = cur[c].off + 1
  BY DEF CommitOk, IInv, LoopInv, Busy
<1>3. committed' = [committed EXCEPT ![cur[c].part] = pos[c][cur[c].part]]
  BY <1>2 DEF CommitOk, NextOffset
<1>4. committed \in [Partitions -> -1..MaxOffset] /\ cur[c].part \in Partitions
  BY <1>2 DEF IInv, TypeOK, Records
<1>5. Below'
  <2> SUFFICES ASSUME NEW p \in Partitions, NEW o \in Offsets, Rec(p, o) \in skipped
               PROVE  o < logEnd[p] /\ (committed'[p] = -1 \/ o < committed'[p])
    BY <1>1 DEF Below
  <2>1. o < logEnd[p] /\ (committed[p] = -1 \/ o < committed[p])
    BY DEF Skip, Below
  <2>2. CASE p = cur[c].part
    <3>1. o < pos[c][p]
      BY <1>2, <2>2 DEF Skip, Past
    <3>2. committed'[p] = pos[c][p]
      BY <1>3, <1>4, <2>2
    <3>q. QED
      BY <2>1, <3>1, <3>2
  <2>3. CASE p # cur[c].part
    BY <1>3, <1>4, <2>1, <2>3
  <2>q. QED
    BY <2>2, <2>3
<1>6. Past' /\ Apart'
  BY <1>1 DEF Skip, Past, Apart
<1>q. QED
  BY <1>5, <1>6 DEF Skip

\* A commit that fails adds to the failed records and to nothing else.
LEMMA SkipFails ==
  ASSUME Skip, NEW c \in Consumers, CommitFails(c)
  PROVE  Skip'
<1>1. UNCHANGED <<delivered, skipped, committed, logEnd, assigned, pos>>
      /\ failed \subseteq failed'
  BY DEF CommitFails, brokerVars, clientVars
<1>q. QED
  BY <1>1 DEF Skip, Below, Past, Apart

LEMMA SkipStep == IInv /\ IInv' /\ OnceInv /\ SkipInv /\ [Next]_vars => SkipInv'
<1>1. ASSUME SkipInv, UNCHANGED vars PROVE SkipInv'
  BY <1>1 DEF SkipInv, Skip, Below, Past, Apart, Only, vars
<1>2. ASSUME IInv, IInv', OnceInv, SkipInv, Next PROVE SkipInv'
  <2> SUFFICES ASSUME faults'.kinds \subseteq Orderly PROVE Skip'
    BY DEF SkipInv, Only
  <2>1. Once /\ Skip
    BY <1>2, FaultsGrow DEF OnceInv, SkipInv, Only, IInv
  <2>2. ASSUME Quiet PROVE Skip'
    BY <1>2, <2>1, <2>2, SkipQuiet DEF IInv
  <2>3. ASSUME NEW c \in Consumers, Main(c) PROVE Skip'
    <3>1. CASE PollMessage(c)
      BY <1>2, <2>1, <3>1, SkipMessage
    <3>2. CASE PollAssigned(c)
      BY <1>2, <2>1, <3>2, SkipAssigned
    <3>3. CASE CommitOk(c)
      BY <1>2, <2>1, <3>3, SkipCommit
    <3>4. CASE CommitFails(c)
      BY <2>1, <3>4, SkipFails
    <3>5. CASE ~PollMessage(c) /\ ~PollAssigned(c) /\ ~CommitOk(c) /\ ~CommitFails(c)
      BY <1>2, <2>2, <2>3, <3>5, QuietMain
    <3>q. QED
      BY <3>1, <3>2, <3>3, <3>4, <3>5
  <2>4. ASSUME \/ Rebalanced
               \/ \E p \in Partitions : Produce(p)
               \/ \E c \in Consumers : Background(c)
        PROVE  Skip'
    BY <1>2, <2>2, <2>4, QuietOthers
  <2>q. QED
    BY <1>2, <2>3, <2>4 DEF Next
<1>q. QED
  BY <1>1, <1>2

\* What a pod commits, or tries to, was processed or sent to the DLQ.
Dealt == failed \subseteq done \cup sent

LEMMA DealtStep == IInv /\ Dealt /\ [Next]_vars => Dealt'
<1>1. ASSUME Dealt, UNCHANGED vars PROVE Dealt'
  BY <1>1 DEF Dealt, vars
<1>2. ASSUME IInv, Dealt, NEW c \in Consumers, CommitFails(c) PROVE Dealt'
  <2>1. cur[c] \in done \cup sent
    BY <1>2 DEF CommitFails, IInv, LoopInv
  <2>2. failed' \subseteq failed \cup {cur[c]} /\ UNCHANGED <<done, sent>>
    BY <1>2 DEF CommitFails
  <2>q. QED
    BY <1>2, <2>1, <2>2 DEF Dealt
<1>3. ASSUME Dealt, NEW c \in Consumers, Main(c), ~CommitFails(c) PROVE Dealt'
  <2>1. failed' = failed /\ done \subseteq done' /\ sent \subseteq sent'
    BY <1>3 DEF Main, PollEvent, Subscribe, CheckCtx, PollNil, PollAssigned, PollRevoked,
       PollMessage, AttemptOk, AttemptFail, BackoffElapsed, BackoffCancelled, Publish, CommitOk,
       CloseConsumer, CloseDlq, Gone, history
  <2>q. QED
    BY <1>3, <2>1 DEF Dealt
<1>4. ASSUME Dealt, NEW c \in Consumers, Background(c) PROVE Dealt'
  BY <1>4 DEF Background, Boot, Crash, Fatal, Sigterm, Evict, Join, JoinLost, DlqDeliver,
     DlqDeliveryFails, Gone, history, Dealt
<1>5. ASSUME Dealt, Rebalanced \/ \E p \in Partitions : Produce(p) PROVE Dealt'
  BY <1>5 DEF Rebalanced, Produce, history, Dealt
<1>q. QED
  BY <1>1, <1>2, <1>3, <1>4, <1>5 DEF Next

\* Unless a pod crashed or was evicted, "latest" jumps over no record that a pod
\* has seen but one whose commit failed, and what is committed and was delivered
\* was processed or sent to the DLQ.
THEOREM SkipsOnlyUnseen == Spec => []SkippedUnseen
<1>1. Init => SkipInv /\ Dealt
  BY DEF Init, SkipInv, Skip, Below, Past, Apart, Dealt
<1>2. Spec => []SkipInv
  BY <1>1, SkipStep, OnceInvariance, Invariance, PTL DEF Spec
<1>3. Spec => []Dealt
  BY <1>1, DealtStep, Invariance, PTL DEF Spec
<1>4. IInv /\ SkipInv /\ Dealt => SkippedUnseen
  <2> SUFFICES ASSUME CommittedHandled, Skip, Dealt PROVE Apart /\ CommitAfterProcessing
    BY DEF IInv, SkipInv, SkippedUnseen, Apart
  <2>1. CommitAfterProcessing
    BY DEF CommittedHandled, CommitAfterProcessing, Handled, Skip, Apart, Dealt
  <2>q. QED
    BY <2>1 DEF Skip
<1>q. QED
  BY <1>2, <1>3, <1>4, Invariance, PTL

-----------------------------------------------------------------------------
(* The SCRAM variant *)

\* The consumer group of the SCRAM variant commits, delivers and loses no more
\* than that of kafka-go-app does.
THEOREM ScramSafety ==
  ScramSpec => /\ [](CommittedHandled /\ ExclusiveOwner /\ ReadyIffAssigned)
               /\ [](DurableWithoutCrash /\ SkippedUnseen)
               /\ CommitMonotone /\ NoRedelivery
  BY ScramSteps, CommitSafety, Ownership, Readiness, Durability, SkipsOnlyUnseen, Monotone,
     NoDuplicates, PTL
=============================================================================
