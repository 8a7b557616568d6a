--------------------------- MODULE ConsumerProofs ---------------------------
(* Proofs about Consumer, for any number of pods, partitions, records,      *)
(* attempts and faults: the inductive invariant IInv and what follows from  *)
(* it.                                                                      *)
EXTENDS Consumer, TLAPS

USE OffsetAssumption, AttemptsAssumption, FaultsAssumption, NoRecordAssumption

\* A record named by a partition and an offset in range is in Records, and its
\* fields are the two.
LEMMA RecType ==
  ASSUME NEW p \in Partitions, NEW o \in Offsets
  PROVE  Rec(p, o) \in Records /\ Rec(p, o).part = p /\ Rec(p, o).off = o
  BY DEF Rec, Records

\* The initial state satisfies the inductive invariant.
LEMMA InitIInv == Init => IInv
  BY DEF Init, IInv, TypeOK, LoopInv, GroupInv, PosInv, CommittedHandled, Locations,
         GroupStates, Busy, Offsets, Records

-----------------------------------------------------------------------------
(* The type invariant is preserved by every action, given the loop invariant *)

\* A step of the environment preserves the type invariant.
LEMMA TypeBackground ==
  ASSUME TypeOK, NEW c \in Consumers, Background(c)
  PROVE  TypeOK'
<1>1. CASE Boot(c)
  BY <1>1 DEF TypeOK, Boot, brokerVars, clientVars, history, Locations
<1>2. CASE Crash(c)
  BY <1>2 DEF TypeOK, Crash, Gone, Fault, brokerVars, history, Locations, GroupStates
<1>3. CASE Fatal(c)
  BY <1>3 DEF TypeOK, Fatal, Gone, Fault, brokerVars, history, Locations, GroupStates
<1>4. CASE Sigterm(c)
  BY <1>4 DEF TypeOK, Sigterm, Fault, brokerVars, clientVars, history
<1>5. CASE Evict(c)
  <2>1. members' \subseteq Consumers /\ joined' \subseteq members' /\ stable' \in BOOLEAN
    BY <1>5 DEF TypeOK, Evict
  <2>2. faults' \in [count : 0..MaxFaults, kinds : SUBSET AllFaultKinds]
    BY <1>5 DEF TypeOK, Evict, Fault
  <2>q. QED
    BY <1>5, <2>1, <2>2 DEF TypeOK, Evict, clientVars, history
<1>6. CASE Join(c)
  BY <1>6 DEF TypeOK, Join, history, GroupStates
<1>7. CASE JoinLost(c)
  BY <1>7 DEF TypeOK, JoinLost, brokerVars, history, GroupStates
<1>8. CASE DlqDeliver(c)
  BY <1>8 DEF TypeOK, DlqDeliver, groupVars, clientVars, history
<1>9. CASE DlqDeliveryFails(c)
  BY <1>9 DEF TypeOK, DlqDeliveryFails, Fault, brokerVars, clientVars, history
<1>q. QED
  BY <1>1, <1>2, <1>3, <1>4, <1>5, <1>6, <1>7, <1>8, <1>9 DEF Background

\* So does a step of the main goroutine.
LEMMA TypeMain ==
  ASSUME TypeOK, LoopInv, PosInv, NEW c \in Consumers, Main(c)
  PROVE  TypeOK'
<1>1. CASE Subscribe(c)
  BY <1>1 DEF TypeOK, Subscribe, brokerVars, history, Locations, GroupStates
<1>2. CASE CheckCtx(c)
  BY <1>2 DEF TypeOK, CheckCtx, brokerVars, clientVars, history, Locations
<1>3. CASE PollNil(c)
  BY <1>3 DEF TypeOK, PollNil, brokerVars, clientVars, history, Locations
<1>4. CASE PollAssigned(c)
  <2>1. \A p \in Partitions : StartOffset(p) \in 0..MaxOffset
    BY DEF TypeOK, StartOffset
  <2>2. \A p \in Partitions : SkippedOf(p) \subseteq Records
    BY DEF TypeOK, SkippedOf, Records, Rec, Offsets
  <2>3. target[c] \subseteq Partitions
    BY DEF TypeOK
  <2>4. skipped' \subseteq Records
    <3>1. skipped \subseteq Records
      BY DEF TypeOK
    <3>2. skipped' = skipped \cup UNION {SkippedOf(p) : p \in target[c]}
      BY <1>4 DEF PollAssigned
    <3>q. QED
      BY <2>2, <2>3, <3>1, <3>2, Zenon
  <2>5. pos' \in [Consumers -> [Partitions -> 0..MaxOffset]]
    BY <1>4, <2>1 DEF TypeOK, PollAssigned
  <2>q. QED
    BY <1>4, <2>3, <2>4, <2>5 DEF TypeOK, PollAssigned, brokerVars, Locations, GroupStates
<1>5. CASE PollRevoked(c)
  BY <1>5 DEF TypeOK, PollRevoked, brokerVars, history, Locations, GroupStates
<1>6. CASE PollMessage(c)
  <2>1. PICK p \in assigned[c] : /\ pos[c][p] < logEnd[p]
                                 /\ cur' = [cur EXCEPT ![c] = Rec(p, pos[c][p])]
                                 /\ delivered' = delivered \cup {Rec(p, pos[c][p])}
                                 /\ pos' = [pos EXCEPT ![c][p] = @ + 1]
    BY <1>6 DEF PollMessage
  <2>2. p \in Partitions /\ pos[c][p] \in Offsets /\ pos[c][p] + 1 \in 0..MaxOffset
    BY <2>1 DEF TypeOK, Offsets
  <2>3. Rec(p, pos[c][p]) \in Records
    BY <2>2, RecType
  <2>4. pos' \in [Consumers -> [Partitions -> 0..MaxOffset]]
    BY <2>1, <2>2 DEF TypeOK
  <2>q. QED
    BY <1>6, <2>1, <2>3, <2>4 DEF TypeOK, PollMessage, brokerVars, Locations, Busy
<1>7. CASE AttemptOk(c)
  BY <1>7 DEF TypeOK, LoopInv, AttemptOk, brokerVars, clientVars, Locations, Busy
<1>8. CASE AttemptFail(c)
  BY <1>8 DEF TypeOK, LoopInv, AttemptFail, brokerVars, clientVars, history, Locations, Busy
<1>9. CASE BackoffElapsed(c)
  BY <1>9 DEF TypeOK, BackoffElapsed, brokerVars, clientVars, history, Locations, Busy
<1>10. CASE BackoffCancelled(c)
  BY <1>10 DEF TypeOK, BackoffCancelled, brokerVars, clientVars, history, Locations, Busy
<1>11. CASE Publish(c)
  <2>1. cur[c] \in Records
    BY <1>11 DEF Publish, LoopInv, Busy
  <2>2. faults' \in [count : 0..MaxFaults, kinds : SUBSET AllFaultKinds]
    <3>1. faults \in [count : 0..MaxFaults, kinds : SUBSET AllFaultKinds]
      BY DEF TypeOK
    <3>2. faults' = faults \/ Fault("produce")
      BY <1>11 DEF Publish
    <3>q. QED
      BY <3>1, <3>2 DEF Fault
  <2>3. dlqQueue' \in [Consumers -> SUBSET Records]
    <3>1. dlqQueue \in [Consumers -> SUBSET Records]
      BY DEF TypeOK
    <3>2. \/ dlqQueue' = dlqQueue
          \/ dlqQueue' = [dlqQueue EXCEPT ![c] = @ \cup {cur[c]}]
      BY <1>11 DEF Publish
    <3>q. QED
      BY <2>1, <3>1, <3>2
  <2>4. sent' \subseteq Records
    BY <1>11, <2>1 DEF TypeOK, Publish
  <2>5. pc' \in [Consumers -> Locations] /\ attempts' \in [Consumers -> 0..MaxAttempts]
    BY <1>11 DEF TypeOK, Publish, Locations, Busy
  <2>6. UNCHANGED <<logEnd, committed, members, joined, stable, target, dlqTopic, ctxDone,
                    cst, assigned, pos, ready, served, cur, done, skipped, delivered, failed>>
    BY <1>11 DEF Publish, brokerVars, clientVars
  <2>q. QED
    BY <2>2, <2>3, <2>4, <2>5, <2>6 DEF TypeOK
<1>12. CASE CommitOk(c)
  <2>1. cur[c] \in Records
    BY <1>12 DEF CommitOk, LoopInv, Busy
  <2>2. cur[c].part \in Partitions /\ NextOffset(cur[c]) \in 0..MaxOffset
    BY <2>1 DEF Records, Offsets, NextOffset
  <2>3. committed' \in [Partitions -> -1..MaxOffset]
    BY <1>12, <2>2 DEF TypeOK, CommitOk
  <2>q. QED
    BY <1>12, <2>3 DEF TypeOK, CommitOk, groupVars, clientVars, history, Locations
<1>13. CASE CommitFails(c)
  <2>1. cur[c] \in Records
    BY <1>13 DEF CommitFails, LoopInv, Busy
  <2>2. failed' \subseteq Records
    BY <1>13, <2>1 DEF TypeOK, CommitFails
  <2>q. QED
    BY <1>13, <2>2 DEF TypeOK, CommitFails, Fault, brokerVars, clientVars, Locations
<1>14. CASE CloseConsumer(c)
  <2>1. members' \subseteq Consumers /\ joined' \subseteq members' /\ stable' \in BOOLEAN
    BY <1>14 DEF TypeOK, CloseConsumer
  <2>2. ready' \in [Consumers -> BOOLEAN]
    BY <1>14 DEF TypeOK, CloseConsumer
  <2>3. /\ pc' \in [Consumers -> Locations] /\ cst' \in [Consumers -> GroupStates]
        /\ assigned' \in [Consumers -> SUBSET Partitions]
        /\ pos' \in [Consumers -> [Partitions -> 0..MaxOffset]]
    BY <1>14 DEF TypeOK, CloseConsumer, Locations, GroupStates
  <2>q. QED
    BY <1>14, <2>1, <2>2, <2>3 DEF TypeOK, CloseConsumer, history
<1>15. CASE CloseDlq(c)
  BY <1>15 DEF TypeOK, CloseDlq, Gone, Fault, brokerVars, history, Locations, GroupStates
<1>q. QED
  BY <1>1, <1>2, <1>3, <1>4, <1>5, <1>6, <1>7, <1>8, <1>9, <1>10, <1>11, <1>12, <1>13,
     <1>14, <1>15 DEF Main, PollEvent

\* A step outside the consumers preserves the type invariant.
LEMMA TypeBroker ==
  ASSUME TypeOK, \/ Rebalanced
                 \/ \E p \in Partitions : Produce(p)
  PROVE  TypeOK'
<1>1. CASE Rebalanced
  BY <1>1 DEF TypeOK, Rebalanced, clientVars, history
<1>2. ASSUME NEW p \in Partitions, Produce(p) PROVE TypeOK'
  BY <1>2 DEF TypeOK, Produce, groupVars, clientVars, history
<1>q. QED
  BY <1>1, <1>2

-----------------------------------------------------------------------------
(* The loop invariant *)

\* A consumer's loop invariant depends on nothing another consumer or the
\* environment does, and what was processed or sent stays so.
LEMMA LoopBackground ==
  ASSUME TypeOK, LoopInv, NEW c \in Consumers, Background(c)
  PROVE  LoopInv'
<1>1. CASE Boot(c)
  BY <1>1 DEF TypeOK, LoopInv, Boot, clientVars, history, Busy
<1>2. CASE Crash(c)
  BY <1>2 DEF TypeOK, LoopInv, Crash, Gone, history, Busy
<1>3. CASE Fatal(c)
  BY <1>3 DEF TypeOK, LoopInv, Fatal, Gone, history, Busy
<1>4. CASE Sigterm(c)
  BY <1>4 DEF LoopInv, Sigterm, clientVars, history, Busy
<1>5. CASE Evict(c)
  BY <1>5 DEF LoopInv, Evict, clientVars, history, Busy
<1>6. CASE Join(c)
  BY <1>6 DEF LoopInv, Join, history, Busy
<1>7. CASE JoinLost(c)
  BY <1>7 DEF LoopInv, JoinLost, history, Busy
<1>8. CASE DlqDeliver(c)
  BY <1>8 DEF LoopInv, DlqDeliver, clientVars, history, Busy
<1>9. CASE DlqDeliveryFails(c)
  BY <1>9 DEF LoopInv, DlqDeliveryFails, clientVars, history, Busy
<1>q. QED
  BY <1>1, <1>2, <1>3, <1>4, <1>5, <1>6, <1>7, <1>8, <1>9 DEF Background

\* The main goroutine takes a record in PollMessage and lets go of it at the
\* commit; only then does it return to Poll, where partitions are revoked.
LEMMA LoopMain ==
  ASSUME TypeOK, LoopInv, NEW c \in Consumers, Main(c)
  PROVE  LoopInv'
<1>1. CASE Subscribe(c)
  BY <1>1 DEF TypeOK, LoopInv, Subscribe, history, Busy
<1>2. CASE CheckCtx(c)
  BY <1>2 DEF TypeOK, LoopInv, CheckCtx, clientVars, history, Busy
<1>3. CASE PollNil(c)
  BY <1>3 DEF TypeOK, LoopInv, PollNil, clientVars, history, Busy
<1>4. CASE PollAssigned(c)
  BY <1>4 DEF TypeOK, LoopInv, PollAssigned, Busy
<1>5. CASE PollRevoked(c)
  BY <1>5 DEF TypeOK, LoopInv, PollRevoked, history, Busy
<1>6. CASE PollMessage(c)
  <2>1. PICK p \in assigned[c] : /\ pos[c][p] < logEnd[p]
                                 /\ cur' = [cur EXCEPT ![c] = Rec(p, pos[c][p])]
                                 /\ pos' = [pos EXCEPT ![c][p] = @ + 1]
    BY <1>6 DEF PollMessage
  <2>2. p \in Partitions /\ pos[c][p] \in Offsets
    BY <2>1 DEF TypeOK, Offsets
  <2>3. /\ Rec(p, pos[c][p]) \in Records /\ Rec(p, pos[c][p]).part = p
        /\ Rec(p, pos[c][p]).off = pos[c][p]
    BY <2>2, RecType
  <2>4. cur'[c] = Rec(p, pos[c][p]) /\ pos'[c][p] = pos[c][p] + 1
    BY <2>1, <2>2 DEF TypeOK
  <2>5. \A d \in Consumers \ {c} : cur'[d] = cur[d] /\ pos'[d] = pos[d]
    BY <2>1 DEF TypeOK
  <2>6. /\ pc'[c] = "attempt" /\ pc[c] = "poll" /\ UNCHANGED <<attempts, assigned>>
        /\ \A d \in Consumers \ {c} : pc'[d] = pc[d]
        /\ UNCHANGED <<done, sent>>
    BY <1>6 DEF TypeOK, PollMessage
  <2>7. UNCHANGED <<cst, served>>
    BY <1>6 DEF PollMessage
  <2>q. QED
    BY <2>1, <2>3, <2>4, <2>5, <2>6, <2>7 DEF LoopInv, Busy
<1>7. CASE AttemptOk(c)
  BY <1>7 DEF TypeOK, LoopInv, AttemptOk, clientVars, Busy
<1>8. CASE AttemptFail(c)
  <2>1. /\ pc[c] = "attempt" /\ attempts[c] < MaxAttempts
        /\ attempts[c] \in Nat /\ attempts'[c] = attempts[c] + 1
        /\ pc'[c] = IF attempts[c] + 1 = MaxAttempts THEN "publish" ELSE "backoff"
    BY <1>8 DEF TypeOK, LoopInv, AttemptFail
  <2>2. \A d \in Consumers \ {c} : pc'[d] = pc[d] /\ attempts'[d] = attempts[d]
    BY <1>8 DEF TypeOK, AttemptFail
  <2>3. UNCHANGED <<cur, assigned, pos, cst, served, done, sent>>
    BY <1>8 DEF AttemptFail, clientVars, history
  <2>q. QED
    BY <2>1, <2>2, <2>3 DEF LoopInv, Busy
<1>9. CASE BackoffElapsed(c)
  BY <1>9 DEF TypeOK, LoopInv, BackoffElapsed, clientVars, history, Busy
<1>10. CASE BackoffCancelled(c)
  BY <1>10 DEF TypeOK, LoopInv, BackoffCancelled, clientVars, history, Busy
<1>11. CASE Publish(c)
  BY <1>11 DEF TypeOK, LoopInv, Publish, clientVars, Busy
<1>12. CASE CommitOk(c)
  BY <1>12 DEF TypeOK, LoopInv, CommitOk, clientVars, history, Busy
<1>13. CASE CommitFails(c)
  BY <1>13 DEF TypeOK, LoopInv, CommitFails, clientVars, history, Busy
<1>14. CASE CloseConsumer(c)
  BY <1>14 DEF TypeOK, LoopInv, CloseConsumer, history, Busy
<1>15. CASE CloseDlq(c)
  BY <1>15 DEF TypeOK, LoopInv, CloseDlq, Gone, history, Busy
<1>q. QED
  BY <1>1, <1>2, <1>3, <1>4, <1>5, <1>6, <1>7, <1>8, <1>9, <1>10, <1>11, <1>12, <1>13,
     <1>14, <1>15 DEF Main, PollEvent

\* Nothing outside the consumers touches what the loop invariant speaks of.
LEMMA LoopBroker ==
  ASSUME LoopInv, \/ Rebalanced
                  \/ \E p \in Partitions : Produce(p)
  PROVE  LoopInv'
<1>1. CASE Rebalanced
  BY <1>1 DEF LoopInv, Rebalanced, clientVars, history
<1>2. ASSUME NEW p \in Partitions, Produce(p) PROVE LoopInv'
  BY <1>2 DEF LoopInv, Produce, clientVars, history
<1>q. QED
  BY <1>1, <1>2

-----------------------------------------------------------------------------
(* The group invariant *)

\* Joining needs an empty assignment and leaving gives up the membership, so
\* the environment keeps what a member owns within what it was given.
LEMMA GroupBackground ==
  ASSUME TypeOK, GroupInv, NEW c \in Consumers, Background(c)
  PROVE  GroupInv'
<1>1. CASE Boot(c)
  BY <1>1 DEF TypeOK, GroupInv, Boot, brokerVars, clientVars
<1>2. CASE Crash(c)
  BY <1>2 DEF TypeOK, GroupInv, Crash, Gone, brokerVars
<1>3. CASE Fatal(c)
  BY <1>3 DEF TypeOK, GroupInv, Fatal, Gone, brokerVars
<1>4. CASE Sigterm(c)
  BY <1>4 DEF GroupInv, Sigterm, brokerVars, clientVars
<1>5. CASE Evict(c)
  BY <1>5 DEF GroupInv, Evict, clientVars
<1>6. CASE Join(c)
  BY <1>6 DEF TypeOK, GroupInv, Join
<1>7. CASE JoinLost(c)
  BY <1>7 DEF TypeOK, GroupInv, JoinLost, brokerVars
<1>8. CASE DlqDeliver(c)
  BY <1>8 DEF GroupInv, DlqDeliver, groupVars, clientVars
<1>9. CASE DlqDeliveryFails(c)
  BY <1>9 DEF GroupInv, DlqDeliveryFails, brokerVars, clientVars
<1>q. QED
  BY <1>1, <1>2, <1>3, <1>4, <1>5, <1>6, <1>7, <1>8, <1>9 DEF Background

\* rebalanceCb assigns exactly the coordinator's target and unassigns all of it.
LEMMA GroupMain ==
  ASSUME TypeOK, LoopInv, GroupInv, NEW c \in Consumers, Main(c)
  PROVE  GroupInv'
<1>1. CASE Subscribe(c)
  BY <1>1 DEF TypeOK, LoopInv, GroupInv, Subscribe, brokerVars
<1>2. CASE CheckCtx(c)
  BY <1>2 DEF GroupInv, CheckCtx, brokerVars, clientVars
<1>3. CASE PollNil(c)
  BY <1>3 DEF GroupInv, PollNil, brokerVars, clientVars
<1>4. CASE PollAssigned(c)
  BY <1>4 DEF TypeOK, GroupInv, PollAssigned, brokerVars
<1>5. CASE PollRevoked(c)
  BY <1>5 DEF TypeOK, GroupInv, PollRevoked, brokerVars
<1>6. CASE PollMessage(c)
  BY <1>6 DEF TypeOK, GroupInv, PollMessage, brokerVars
<1>7. CASE AttemptOk(c)
  BY <1>7 DEF GroupInv, AttemptOk, brokerVars, clientVars
<1>8. CASE AttemptFail(c)
  BY <1>8 DEF GroupInv, AttemptFail, brokerVars, clientVars
<1>9. CASE BackoffElapsed(c)
  BY <1>9 DEF GroupInv, BackoffElapsed, brokerVars, clientVars
<1>10. CASE BackoffCancelled(c)
  BY <1>10 DEF GroupInv, BackoffCancelled, brokerVars, clientVars
<1>11. CASE Publish(c)
  BY <1>11 DEF GroupInv, Publish, brokerVars, clientVars
<1>12. CASE CommitOk(c)
  BY <1>12 DEF GroupInv, CommitOk, groupVars, clientVars
<1>13. CASE CommitFails(c)
  BY <1>13 DEF GroupInv, CommitFails, brokerVars, clientVars
<1>14. CASE CloseConsumer(c)
  BY <1>14 DEF TypeOK, GroupInv, CloseConsumer
<1>15. CASE CloseDlq(c)
  BY <1>15 DEF TypeOK, GroupInv, CloseDlq, Gone, brokerVars
<1>q. QED
  BY <1>1, <1>2, <1>3, <1>4, <1>5, <1>6, <1>7, <1>8, <1>9, <1>10, <1>11, <1>12, <1>13, <1>14, <1>15 DEF Main, PollEvent

\* The coordinator gives each partition to one member, and only when all have
\* let go of what they had.
LEMMA GroupBroker ==
  ASSUME TypeOK, GroupInv, \/ Rebalanced
                           \/ \E p \in Partitions : Produce(p)
  PROVE  GroupInv'
<1>1. CASE Rebalanced
  <2>1. PICK owner \in [Partitions -> members] :
           target' = [c \in Consumers |-> {p \in Partitions : owner[p] = c}]
    BY <1>1 DEF Rebalanced
  <2>2. \A c \in Consumers : c \in members => assigned[c] = {}
    BY <1>1 DEF GroupInv, Rebalanced
  <2>q. QED
    BY <1>1, <2>1, <2>2 DEF GroupInv, Rebalanced, clientVars
<1>2. ASSUME NEW p \in Partitions, Produce(p) PROVE GroupInv'
  BY <1>2 DEF GroupInv, Produce, groupVars, clientVars
<1>q. QED
  BY <1>1, <1>2

\* Two members own nothing in common.
LEMMA Exclusive == TypeOK /\ GroupInv => ExclusiveOwner
  BY DEF TypeOK, GroupInv, ExclusiveOwner

-----------------------------------------------------------------------------
(* The position invariant *)

\* Nothing in the background moves a fetch position or an offset.
LEMMA PosBackground ==
  ASSUME TypeOK, LoopInv, GroupInv, PosInv, NEW c \in Consumers, Background(c)
  PROVE  PosInv'
<1>1. CASE Boot(c)
  BY <1>1 DEF PosInv, Boot, brokerVars, clientVars, history, Handled
<1>2. CASE Crash(c)
  BY <1>2 DEF TypeOK, LoopInv, PosInv, Crash, Gone, brokerVars, history, Handled
<1>3. CASE Fatal(c)
  BY <1>3 DEF TypeOK, LoopInv, PosInv, Fatal, Gone, brokerVars, history, Handled
<1>4. CASE Sigterm(c)
  BY <1>4 DEF PosInv, Sigterm, brokerVars, clientVars, history, Handled
<1>5. CASE Evict(c)
  BY <1>5 DEF PosInv, Evict, clientVars, history, Handled
<1>6. CASE Join(c)
  <2>1. assigned[c] = {} /\ members' = members \cup {c}
    BY <1>6 DEF GroupInv, Join
  <2>2. UNCHANGED <<logEnd, committed, assigned, pos, cur, done, sent, skipped>>
    BY <1>6 DEF Join, history
  <2>q. QED
    BY <2>1, <2>2 DEF PosInv, Handled
<1>7. CASE JoinLost(c)
  BY <1>7 DEF PosInv, JoinLost, brokerVars, history, Handled
<1>8. CASE DlqDeliver(c)
  BY <1>8 DEF PosInv, DlqDeliver, groupVars, clientVars, history, Handled
<1>9. CASE DlqDeliveryFails(c)
  BY <1>9 DEF PosInv, DlqDeliveryFails, brokerVars, clientVars, history, Handled
<1>q. QED
  BY <1>1, <1>2, <1>3, <1>4, <1>5, <1>6, <1>7, <1>8, <1>9 DEF Background

\* The main goroutine starts a partition where everything before was dealt with,
\* moves over one record at a time, and commits no further than it moved.
LEMMA PosMain ==
  ASSUME TypeOK, LoopInv, GroupInv, PosInv, CommittedHandled, NEW c \in Consumers, Main(c)
  PROVE  PosInv'
<1>1. CASE Subscribe(c)
  BY <1>1 DEF PosInv, Subscribe, brokerVars, history, Handled
<1>2. CASE CheckCtx(c)
  BY <1>2 DEF PosInv, CheckCtx, brokerVars, clientVars, history, Handled
<1>3. CASE PollNil(c)
  BY <1>3 DEF PosInv, PollNil, brokerVars, clientVars, history, Handled
<1>4. CASE PollAssigned(c)
  <2>1. \A p \in target[c] : p \in Partitions /\ StartOffset(p) <= logEnd[p]
                             /\ committed[p] <= StartOffset(p)
    BY DEF TypeOK, PosInv, StartOffset
  <2>2. \A p \in target[c] : \A o \in Offsets :
           o < StartOffset(p) => Rec(p, o) \in Handled'
    <3> SUFFICES ASSUME NEW p \in target[c], NEW o \in Offsets, o < StartOffset(p)
                 PROVE  Rec(p, o) \in Handled'
      OBVIOUS
    <3>1. CASE committed[p] = -1
      <4>1. o \in 0..(logEnd[p] - 1)
        BY <2>1, <3>1 DEF TypeOK, StartOffset, Offsets
      <4>2. Rec(p, o) \in SkippedOf(p)
        BY <3>1, <4>1 DEF SkippedOf
      <4>q. QED
        BY <1>4, <4>2 DEF PollAssigned, Handled
    <3>2. CASE committed[p] # -1
      BY <1>4, <2>1, <3>2 DEF CommittedHandled, StartOffset, PollAssigned, Handled
    <3>q. QED
      BY <3>1, <3>2
  <2>3. /\ assigned'[c] = target[c]
        /\ \A p \in target[c] : pos'[c][p] = StartOffset(p)
        /\ \A d \in Consumers \ {c} : assigned'[d] = assigned[d] /\ pos'[d] = pos[d]
        /\ UNCHANGED <<logEnd, committed, members, cur>>
    BY <1>4, <2>1 DEF TypeOK, PollAssigned, brokerVars
  <2>4. Handled \subseteq Handled'
    BY <1>4 DEF PollAssigned, Handled
  <2>q. QED
    BY <2>1, <2>2, <2>3, <2>4 DEF PosInv
<1>5. CASE PollRevoked(c)
  BY <1>5 DEF TypeOK, PosInv, PollRevoked, brokerVars, history, Handled
<1>6. CASE PollMessage(c)
  <2>1. PICK p \in assigned[c] : /\ pos[c][p] < logEnd[p]
                                 /\ cur' = [cur EXCEPT ![c] = Rec(p, pos[c][p])]
                                 /\ pos' = [pos EXCEPT ![c][p] = @ + 1]
    BY <1>6 DEF PollMessage
  <2>2. p \in Partitions /\ pos[c][p] \in Nat
    BY <2>1 DEF TypeOK
  <2>3. /\ cur'[c] = Rec(p, pos[c][p]) /\ pos'[c][p] = pos[c][p] + 1
        /\ \A r \in Partitions \ {p} : pos'[c][r] = pos[c][r]
        /\ \A d \in Consumers \ {c} : cur'[d] = cur[d] /\ pos'[d] = pos[d]
    BY <2>1, <2>2 DEF TypeOK
  <2>4. cur[c] = NoRecord
    BY <1>6 DEF PollMessage, LoopInv, Busy
  <2>5. UNCHANGED <<logEnd, committed, members, assigned, done, sent, skipped>>
    BY <1>6 DEF PollMessage, brokerVars
  <2>6. \A r \in assigned[c], o \in Offsets : o < pos[c][r] => Rec(r, o) \in Handled
    <3> SUFFICES ASSUME NEW r \in assigned[c], NEW o \in Offsets, o < pos[c][r]
                 PROVE  Rec(r, o) \in Handled
      OBVIOUS
    <3>1. r \in Partitions
      BY DEF TypeOK
    <3>2. Rec(r, o) # NoRecord
      BY <3>1, RecType
    <3>q. QED
      BY <2>4, <3>2 DEF PosInv
  <2>7. assigned[c] \subseteq Partitions /\ \A r \in Partitions : pos[c][r] \in Nat
        /\ committed[r] \in Int /\ logEnd[r] \in Int
    BY DEF TypeOK
  <2>8. ASSUME NEW d \in Consumers, NEW r \in assigned[d]
        PROVE  /\ pos'[d][r] <= logEnd[r]
               /\ \A o \in Offsets : o < pos'[d][r] => Rec(r, o) \in Handled \/ cur'[d] = Rec(r, o)
               /\ d \in members => committed[r] <= pos'[d][r]
    <3>1. CASE d # c
      BY <2>3, <3>1 DEF PosInv
    <3>2. CASE d = c /\ r # p
      BY <2>3, <2>6, <2>7, <3>2 DEF PosInv
    <3>3. CASE d = c /\ r = p
      <4>1. pos[c][p] + 1 <= logEnd[p] /\ (c \in members => committed[p] <= pos[c][p] + 1)
        BY <2>1, <2>7, <3>3 DEF PosInv
      <4>2. \A o \in Offsets : o < pos[c][p] + 1 => o < pos[c][p] \/ o = pos[c][p]
        BY <2>2 DEF Offsets
      <4>q. QED
        BY <2>3, <2>6, <3>3, <4>1, <4>2
    <3>q. QED
      BY <3>1, <3>2, <3>3
  <2>q. QED
    BY <2>5, <2>8 DEF PosInv, Handled
<1>7. CASE AttemptOk(c)
  BY <1>7 DEF PosInv, AttemptOk, brokerVars, clientVars, Handled
<1>8. CASE AttemptFail(c)
  BY <1>8 DEF PosInv, AttemptFail, brokerVars, clientVars, history, Handled
<1>9. CASE BackoffElapsed(c)
  BY <1>9 DEF PosInv, BackoffElapsed, brokerVars, clientVars, history, Handled
<1>10. CASE BackoffCancelled(c)
  BY <1>10 DEF PosInv, BackoffCancelled, brokerVars, clientVars, history, Handled
<1>11. CASE Publish(c)
  BY <1>11 DEF PosInv, Publish, brokerVars, clientVars, Handled
<1>12. CASE CommitOk(c)
  <2>1. /\ cur[c] \in Records /\ cur[c].part \in assigned[c] /\ cur[c] \in Handled
        /\ pos[c][cur[c].part] = cur[c].off + 1 /\ c \in members
    BY <1>12 DEF CommitOk, LoopInv, Busy, Handled
  <2>2. cur[c].part \in Partitions
    BY <2>1 DEF Records
  <2>3. /\ committed'[cur[c].part] = pos[c][cur[c].part]
        /\ \A p \in Partitions \ {cur[c].part} : committed'[p] = committed[p]
    BY <1>12, <2>1, <2>2 DEF TypeOK, CommitOk, NextOffset
  <2>4. UNCHANGED <<logEnd, members, assigned, pos, done, sent, skipped>>
    BY <1>12 DEF CommitOk, groupVars, clientVars, history
  <2>5. cur'[c] = NoRecord /\ \A d \in Consumers \ {c} : cur'[d] = cur[d]
    BY <1>12 DEF TypeOK, CommitOk
  <2>6. \A d \in members : d # c => cur[c].part \notin assigned[d]
    BY <2>1, Exclusive DEF ExclusiveOwner
  <2>7. \A p \in Partitions : committed'[p] <= logEnd[p]
    BY <2>1, <2>2, <2>3 DEF PosInv
  <2>8. \A d \in Consumers : \A p \in assigned[d] :
           d \in members => committed'[p] <= pos[d][p]
    <3>1. \A d \in Consumers : \A p \in assigned[d] : p \in Partitions /\ pos[d][p] \in Nat
      BY DEF TypeOK
    <3>q. QED
      BY <2>1, <2>2, <2>3, <2>6, <3>1 DEF PosInv
  <2>9. \A d \in Consumers : \A p \in assigned[d] : \A o \in Offsets :
           o < pos[d][p] => Rec(p, o) \in Handled \/ cur'[d] = Rec(p, o)
    BY <2>1, <2>5 DEF PosInv
  <2>q. QED
    BY <2>4, <2>7, <2>8, <2>9 DEF PosInv, Handled
<1>13. CASE CommitFails(c)
  <2>1. pc[c] = "commit" /\ cur[c] \in Handled
    BY <1>13 DEF CommitFails, LoopInv, Handled
  <2>2. cur'[c] = NoRecord /\ \A d \in Consumers \ {c} : cur'[d] = cur[d]
    BY <1>13 DEF TypeOK, CommitFails
  <2>3. UNCHANGED <<logEnd, committed, members, assigned, pos, done, sent, skipped>>
    BY <1>13 DEF CommitFails, brokerVars, clientVars
  <2>q. QED
    BY <2>1, <2>2, <2>3 DEF PosInv, Handled
<1>14. CASE CloseConsumer(c)
  BY <1>14 DEF TypeOK, PosInv, CloseConsumer, history, Handled
<1>15. CASE CloseDlq(c)
  BY <1>15 DEF TypeOK, LoopInv, PosInv, CloseDlq, Gone, brokerVars, history, Handled
<1>q. QED
  BY <1>1, <1>2, <1>3, <1>4, <1>5, <1>6, <1>7, <1>8, <1>9, <1>10, <1>11, <1>12, <1>13, <1>14, <1>15 DEF Main, PollEvent

\* A log that grows and a new assignment leave the positions where they are.
LEMMA PosBroker ==
  ASSUME TypeOK, PosInv, \/ Rebalanced
                         \/ \E p \in Partitions : Produce(p)
  PROVE  PosInv'
<1>1. CASE Rebalanced
  BY <1>1 DEF PosInv, Rebalanced, clientVars, history, Handled
<1>2. ASSUME NEW p \in Partitions, Produce(p) PROVE PosInv'
  <2>1. \A r \in Partitions : logEnd[r] <= logEnd'[r] /\ logEnd'[r] \in Int
    BY <1>2 DEF TypeOK, Produce
  <2>2. \A c \in Consumers : \A r \in assigned[c] : r \in Partitions /\ pos[c][r] \in Int
    BY DEF TypeOK
  <2>3. \A r \in Partitions : committed[r] \in Int /\ logEnd[r] \in Int
    BY DEF TypeOK
  <2>4. UNCHANGED <<committed, members, assigned, pos, cur, done, sent, skipped>>
    BY <1>2 DEF Produce, groupVars, clientVars, history
  <2>q. QED
    BY <2>1, <2>2, <2>3, <2>4 DEF PosInv, Handled
<1>q. QED
  BY <1>1, <1>2

-----------------------------------------------------------------------------
(* The committed offsets *)

\* What the main goroutine does to a committed offset: nothing, or an advance
\* to the position of the member that owns the partition, where every record
\* before was dealt with.
LEMMA CommitStep ==
  ASSUME IInv, NEW c \in Consumers, CommitOk(c)
  PROVE  \E p \in Partitions :
            /\ \A r \in Partitions \ {p} : committed'[r] = committed[r]
            /\ committed' = [committed EXCEPT ![p] = pos[c][p]]
            /\ committed[p] <= pos[c][p] /\ pos[c][p] <= logEnd[p]
            /\ pos[c][p] \in Nat
            /\ \A o \in Offsets : o < pos[c][p] => Rec(p, o) \in Handled
<1>1. /\ cur[c] \in Records /\ cur[c].part \in assigned[c] /\ cur[c] \in Handled
      /\ pos[c][cur[c].part] = cur[c].off + 1 /\ c \in members
  BY DEF CommitOk, IInv, LoopInv, Busy, Handled
<1>2. cur[c].part \in Partitions /\ pos[c][cur[c].part] \in Nat
  BY <1>1 DEF Records, IInv, TypeOK
<1>3. committed' = [committed EXCEPT ![cur[c].part] = pos[c][cur[c].part]]
  BY <1>1 DEF CommitOk, NextOffset
<1>4. \A o \in Offsets : o < pos[c][cur[c].part] => Rec(cur[c].part, o) \in Handled
  BY <1>1 DEF IInv, PosInv
<1>5. committed[cur[c].part] <= pos[c][cur[c].part] /\ pos[c][cur[c].part] <= logEnd[cur[c].part]
  BY <1>1 DEF IInv, PosInv
<1>6. \A r \in Partitions \ {cur[c].part} : committed'[r] = committed[r]
  BY <1>2, <1>3 DEF IInv, TypeOK
<1>q. QED
  BY <1>2, <1>3, <1>4, <1>5, <1>6

\* No step but CommitOk touches the committed offsets.
LEMMA CommittedFrame ==
  ASSUME Next, ~\E c \in Consumers : CommitOk(c)
  PROVE  UNCHANGED committed
<1>1. ASSUME NEW c \in Consumers, Main(c) PROVE UNCHANGED committed
  BY <1>1 DEF Main, PollEvent, Subscribe, CheckCtx, PollNil, PollAssigned, PollRevoked,
     PollMessage, AttemptOk, AttemptFail, BackoffElapsed, BackoffCancelled, Publish,
     CommitFails, CloseConsumer, CloseDlq, Gone, brokerVars
<1>2. ASSUME NEW c \in Consumers, Background(c) PROVE UNCHANGED committed
  BY <1>2 DEF Background, Boot, Crash, Fatal, Sigterm, Evict, Join, JoinLost, DlqDeliver,
     DlqDeliveryFails, Gone, brokerVars
<1>3. ASSUME Rebalanced PROVE UNCHANGED committed
  BY <1>3 DEF Rebalanced
<1>4. ASSUME NEW p \in Partitions, Produce(p) PROVE UNCHANGED committed
  BY <1>4 DEF Produce
<1>q. QED
  BY <1>1, <1>2, <1>3, <1>4 DEF Next

\* No step takes back that a record was dealt with.
LEMMA HandledGrows ==
  ASSUME Next
  PROVE  Handled \subseteq Handled'
<1>1. ASSUME NEW c \in Consumers, Main(c) PROVE Handled \subseteq Handled'
  BY <1>1 DEF Main, PollEvent, Subscribe, CheckCtx, PollNil, PollAssigned, PollRevoked,
     PollMessage, AttemptOk, AttemptFail, BackoffElapsed, BackoffCancelled, Publish, CommitOk,
     CommitFails, CloseConsumer, CloseDlq, Gone, history, Handled
<1>2. ASSUME NEW c \in Consumers, Background(c) PROVE Handled \subseteq Handled'
  BY <1>2 DEF Background, Boot, Crash, Fatal, Sigterm, Evict, Join, JoinLost, DlqDeliver,
     DlqDeliveryFails, Gone, history, Handled
<1>3. ASSUME Rebalanced PROVE Handled \subseteq Handled'
  BY <1>3 DEF Rebalanced, history, Handled
<1>4. ASSUME NEW p \in Partitions, Produce(p) PROVE Handled \subseteq Handled'
  BY <1>4 DEF Produce, history, Handled
<1>q. QED
  BY <1>1, <1>2, <1>3, <1>4 DEF Next

\* Committed offsets stay within what was dealt with.
LEMMA CommittedStep ==
  ASSUME IInv, Next
  PROVE  CommittedHandled'
<1>1. Handled \subseteq Handled'
  BY HandledGrows
<1>2. CASE \E c \in Consumers : CommitOk(c)
  <2>1. PICK c \in Consumers : CommitOk(c)
    BY <1>2
  <2>2. PICK p \in Partitions :
            /\ \A r \in Partitions \ {p} : committed'[r] = committed[r]
            /\ committed' = [committed EXCEPT ![p] = pos[c][p]]
            /\ \A o \in Offsets : o < pos[c][p] => Rec(p, o) \in Handled
    BY <2>1, CommitStep
  <2>3. committed'[p] = pos[c][p]
    BY <2>2 DEF IInv, TypeOK
  <2>q. QED
    BY <1>1, <2>2, <2>3 DEF IInv, CommittedHandled
<1>3. CASE ~\E c \in Consumers : CommitOk(c)
  <2>1. UNCHANGED committed
    BY <1>3, CommittedFrame
  <2>q. QED
    BY <1>1, <2>1 DEF IInv, CommittedHandled
<1>q. QED
  BY <1>2, <1>3

-----------------------------------------------------------------------------
(* The theorems *)

\* The inductive invariant survives every step of the system.
LEMMA NextIInv == IInv /\ [Next]_vars => IInv'
<1> SUFFICES ASSUME IInv, [Next]_vars PROVE IInv'
  OBVIOUS
<1>1. CASE UNCHANGED vars
  BY <1>1 DEF IInv, TypeOK, LoopInv, GroupInv, PosInv, CommittedHandled, Handled, vars
<1>2. CASE Next
  <2>1. CommittedHandled'
    BY <1>2, CommittedStep
  <2>2. ASSUME NEW c \in Consumers, Main(c) PROVE IInv'
    BY <2>1, <2>2, TypeMain, LoopMain, GroupMain, PosMain DEF IInv
  <2>3. ASSUME NEW c \in Consumers, Background(c) PROVE IInv'
    BY <2>1, <2>3, TypeBackground, LoopBackground, GroupBackground, PosBackground DEF IInv
  <2>4. ASSUME \/ Rebalanced
               \/ \E p \in Partitions : Produce(p)
        PROVE  IInv'
    BY <2>1, <2>4, TypeBroker, LoopBroker, GroupBroker, PosBroker DEF IInv
  <2>q. QED
    BY <1>2, <2>2, <2>3, <2>4 DEF Next
<1>q. QED
  BY <1>1, <1>2

\* The inductive invariant holds in every reachable state.
THEOREM Invariance == Spec => []IInv
  BY InitIInv, NextIInv, PTL DEF Spec

\* Every variable keeps its type: counters within their bounds, records and
\* partitions within the topic.
THEOREM TypeCorrect == Spec => []TypeOK
<1>1. IInv => TypeOK
  BY DEF IInv
<1>q. QED
  BY <1>1, Invariance, PTL

\* The manual commits never pass a record that was not dealt with, for any
\* number of pods and partitions and any faults.
THEOREM CommitSafety == Spec => []CommittedHandled
<1>1. IInv => CommittedHandled
  BY DEF IInv
<1>q. QED
  BY <1>1, Invariance, PTL

\* Members of the group never share a partition.
THEOREM Ownership == Spec => []ExclusiveOwner
<1>1. IInv => ExclusiveOwner
  BY Exclusive DEF IInv
<1>q. QED
  BY <1>1, Invariance, PTL

\* Between two Polls a pod that has had an assignment answers the readiness
\* probe exactly while it has one.
THEOREM Readiness == Spec => []ReadyIffAssigned
<1>1. IInv => ReadyIffAssigned
  BY DEF IInv, GroupInv, ReadyIffAssigned
<1>q. QED
  BY <1>1, Invariance, PTL

\* Committed offsets never go back, whoever was evicted in the middle of what.
THEOREM Monotone == Spec => CommitMonotone
<1>1. IInv /\ [Next]_vars => [\A p \in Partitions : committed'[p] >= committed[p]]_vars
  <2> SUFFICES ASSUME IInv, Next
               PROVE  \A p \in Partitions : committed'[p] >= committed[p]
    OBVIOUS
  <2>1. \A p \in Partitions : committed[p] \in Int
    BY DEF IInv, TypeOK
  <2>2. CASE \E c \in Consumers : CommitOk(c)
    <3>1. PICK c \in Consumers : CommitOk(c)
      BY <2>2
    <3>2. PICK p \in Partitions :
              /\ \A r \in Partitions \ {p} : committed'[r] = committed[r]
              /\ committed' = [committed EXCEPT ![p] = pos[c][p]]
              /\ committed[p] <= pos[c][p] /\ pos[c][p] \in Nat
      BY <3>1, CommitStep
    <3>3. committed'[p] = pos[c][p]
      BY <3>2 DEF IInv, TypeOK
    <3>q. QED
      BY <2>1, <3>2, <3>3
  <2>3. CASE ~\E c \in Consumers : CommitOk(c)
    BY <2>1, <2>3, CommittedFrame
  <2>q. QED
    BY <2>2, <2>3
<1>q. QED
  BY <1>1, Invariance, PTL DEF Spec, CommitMonotone

-----------------------------------------------------------------------------
(* Consumer implements OffsetLedger *)

\* What becomes dealt with in a step is a record of the log: the one the main
\* goroutine holds, or one that the starting position leaves behind.
LEMMA HandledInLog ==
  ASSUME IInv, Next
  PROVE  \A r \in Handled' \ Handled :
            \E p \in Partitions, o \in Offsets : r = Rec(p, o) /\ o < logEnd[p]
<1> DEFINE InLog(r) == \E p \in Partitions, o \in Offsets : r = Rec(p, o) /\ o < logEnd[p]
<1>1. ASSUME NEW c \in Consumers, pc[c] \in Busy PROVE InLog(cur[c])
  <2>1. /\ cur[c] \in Records /\ cur[c].part \in assigned[c]
        /\ pos[c][cur[c].part] = cur[c].off + 1
    BY <1>1 DEF IInv, LoopInv
  <2>2. cur[c].part \in Partitions /\ cur[c].off \in Offsets /\ cur[c] = Rec(cur[c].part, cur[c].off)
    BY <2>1 DEF Records, Rec
  <2>3. pos[c][cur[c].part] <= logEnd[cur[c].part]
    BY <2>1 DEF IInv, PosInv
  <2>4. cur[c].off < logEnd[cur[c].part]
    BY <2>1, <2>2, <2>3 DEF IInv, TypeOK, Offsets
  <2>q. QED
    BY <2>2, <2>4
<1>2. ASSUME NEW p \in Partitions, NEW r \in SkippedOf(p) PROVE InLog(r)
  <2>1. PICK o \in 0..(logEnd[p] - 1) : r = Rec(p, o)
    BY <1>2 DEF SkippedOf
  <2>2. o \in Offsets /\ o < logEnd[p]
    BY DEF IInv, TypeOK, Offsets
  <2>q. QED
    BY <2>1, <2>2
<1> SUFFICES ASSUME NEW r \in Handled' \ Handled PROVE InLog(r)
  OBVIOUS
<1> HIDE DEF InLog
<1>3. ASSUME NEW c \in Consumers, AttemptOk(c) \/ Publish(c) PROVE InLog(r)
  <2>1. r = cur[c] /\ pc[c] \in Busy
    BY <1>3 DEF AttemptOk, Publish, Handled, Busy
  <2>q. QED
    BY <1>1, <2>1
<1>4. ASSUME NEW c \in Consumers, PollAssigned(c) PROVE InLog(r)
  <2>1. r \in UNION {SkippedOf(p) : p \in target[c]}
    BY <1>4 DEF PollAssigned, Handled
  <2>2. PICK p \in target[c] : r \in SkippedOf(p)
    BY <2>1, Zenon
  <2>3. p \in Partitions
    BY DEF IInv, TypeOK
  <2>q. QED
    BY <1>2, <2>2, <2>3
<1>5. ASSUME NEW c \in Consumers, Main(c), ~AttemptOk(c), ~Publish(c), ~PollAssigned(c)
      PROVE  InLog(r)
  BY <1>5 DEF Main, PollEvent, Subscribe, CheckCtx, PollNil, PollRevoked, PollMessage,
     AttemptFail, BackoffElapsed, BackoffCancelled, CommitOk, CommitFails, CloseConsumer,
     CloseDlq, Gone, history, Handled
<1>6. ASSUME NEW c \in Consumers, Background(c) PROVE InLog(r)
  BY <1>6 DEF Background, Boot, Crash, Fatal, Sigterm, Evict, Join, JoinLost, DlqDeliver,
     DlqDeliveryFails, Gone, history, Handled
<1>7. ASSUME Rebalanced PROVE InLog(r)
  BY <1>7 DEF Rebalanced, history, Handled
<1>8. ASSUME NEW p \in Partitions, Produce(p) PROVE InLog(r)
  BY <1>8 DEF Produce, history, Handled
<1>q. QED
  BY <1>3, <1>4, <1>5, <1>6, <1>7, <1>8 DEF Next

\* Only a producer appends to the log.
LEMMA LogFrame ==
  ASSUME Next, ~\E p \in Partitions : Produce(p)
  PROVE  UNCHANGED logEnd
<1>1. ASSUME NEW c \in Consumers, Main(c) PROVE UNCHANGED logEnd
  BY <1>1 DEF Main, PollEvent, Subscribe, CheckCtx, PollNil, PollAssigned, PollRevoked,
     PollMessage, AttemptOk, AttemptFail, BackoffElapsed, BackoffCancelled, Publish, CommitOk,
     CommitFails, CloseConsumer, CloseDlq, Gone, brokerVars
<1>2. ASSUME NEW c \in Consumers, Background(c) PROVE UNCHANGED logEnd
  BY <1>2 DEF Background, Boot, Crash, Fatal, Sigterm, Evict, Join, JoinLost, DlqDeliver,
     DlqDeliveryFails, Gone, brokerVars
<1>3. ASSUME Rebalanced PROVE UNCHANGED logEnd
  BY <1>3 DEF Rebalanced
<1>q. QED
  BY <1>1, <1>2, <1>3 DEF Next

\* A step of the consumers is a step of the ledger, or one it does not see.
LEMMA LedgerStep ==
  ASSUME IInv, Next
  PROVE  Ledger!Next \/ UNCHANGED <<logEnd, committed, Handled>>
<1>1. CASE \E c \in Consumers : CommitOk(c)
  <2>1. PICK c \in Consumers : CommitOk(c)
    BY <1>1
  <2>2. PICK p \in Partitions :
            /\ committed' = [committed EXCEPT ![p] = pos[c][p]]
            /\ committed[p] <= pos[c][p] /\ pos[c][p] <= logEnd[p]
            /\ pos[c][p] \in Nat
            /\ \A o \in Offsets : o < pos[c][p] => Rec(p, o) \in Handled
    BY <2>1, CommitStep
  <2>3. UNCHANGED <<logEnd, Handled>>
    BY <2>1 DEF CommitOk, history, Handled
  <2>4. committed \in [Partitions -> Int] /\ logEnd[p] \in Nat
    BY DEF IInv, TypeOK
  <2>5. CASE committed[p] = pos[c][p]
    BY <2>2, <2>3, <2>4, <2>5
  <2>6. CASE committed[p] # pos[c][p]
    <3>1. pos[c][p] \in 0..logEnd[p] /\ committed[p] < pos[c][p]
      BY <2>2, <2>4, <2>6
    <3>2. Ledger!HandledBelow(p, pos[c][p])
      BY <2>2 DEF Ledger!HandledBelow, Ledger!Rec, Rec, Offsets
    <3>3. Ledger!Commit(p)
      BY <2>2, <2>3, <3>1, <3>2 DEF Ledger!Commit
    <3>q. QED
      BY <3>3 DEF Ledger!Next
  <2>q. QED
    BY <2>5, <2>6
<1>2. CASE \E p \in Partitions : Produce(p)
  <2>1. PICK p \in Partitions : Produce(p)
    BY <1>2
  <2>2. Ledger!Append(p)
    BY <2>1 DEF Produce, history, Handled, Ledger!Append
  <2>q. QED
    BY <2>2 DEF Ledger!Next
<1>3. CASE /\ ~\E c \in Consumers : CommitOk(c)
           /\ ~\E p \in Partitions : Produce(p)
  <2>1. UNCHANGED <<logEnd, committed>>
    BY <1>3, LogFrame, CommittedFrame
  <2>2. Handled \subseteq Handled'
    BY HandledGrows
  <2>3. \A r \in Handled' \ Handled :
           \E p \in Partitions, o \in 0..(MaxOffset - 1) : r = Ledger!Rec(p, o) /\ o < logEnd[p]
    BY HandledInLog DEF Offsets, Rec, Ledger!Rec
  <2>4. Ledger!Handle
    BY <2>1, <2>2, <2>3 DEF Ledger!Handle
  <2>q. QED
    BY <2>4 DEF Ledger!Next
<1>q. QED
  BY <1>1, <1>2, <1>3

\* The consumer group keeps the promise of OffsetLedger: each of its steps
\* appends a record, deals with records of the log, advances a committed offset
\* over records dealt with, or changes nothing the promise speaks of.
THEOREM ImplementsLedger == Spec => LedgerSpec
<1>1. Init => Ledger!Init
  BY DEF Init, Ledger!Init, Handled
<1>2. IInv /\ [Next]_vars => [Ledger!Next]_(Ledger!vars)
  <2>1. CASE UNCHANGED vars
    BY <2>1 DEF vars, Ledger!vars, Handled
  <2>2. ASSUME IInv, Next PROVE Ledger!Next \/ UNCHANGED Ledger!vars
    BY <2>2, LedgerStep DEF Ledger!vars
  <2>q. QED
    BY <2>1, <2>2
<1>q. QED
  BY <1>1, <1>2, Invariance, PTL DEF Spec, LedgerSpec, Ledger!Spec

-----------------------------------------------------------------------------
(* The SCRAM variant *)

\* The SCRAM variant takes no step that Consumer does not.
LEMMA ScramSteps == ScramSpec => Spec
<1>1. ScramNext => Next
  BY DEF ScramNext, ScramStartup, ScramLoop, ScramRebalanceCb, ScramRetry, ScramPublisher,
     ScramClose, Next, Main, PollEvent, Background
<1>q. QED
  BY <1>1, PTL DEF ScramSpec, Spec

\* The consumer group of the SCRAM variant keeps the promise of OffsetLedger.
THEOREM ScramImplementsLedger == ScramSpec => LedgerSpec
  BY ScramSteps, ImplementsLedger
=============================================================================
