---------------------------- MODULE OffsetLedger ----------------------------
(* What the consumer group promises about a topic, with no consumer in it.  *)
(* Each partition is a log that only grows, each record of it is handled at *)
(* some time (processed, handed to the dead letter queue, or jumped over by *)
(* auto.offset.reset), and the committed offset of a partition moves only   *)
(* forward and only over records that were handled.                         *)
EXTENDS Integers

CONSTANTS Partitions,  \* the partitions of the topic
          MaxOffset    \* bound: records per partition

VARIABLES logEnd,      \* [Partitions -> 0..MaxOffset], the next offset to append
          committed,   \* [Partitions -> -1..MaxOffset], -1 when nothing is committed
          handled      \* the records that were handled

vars == <<logEnd, committed, handled>>

\* A record is named by its partition and its offset.
Rec(p, o) == [part |-> p, off |-> o]

\* Every record of p below the offset n was handled.
HandledBelow(p, n) == \A o \in 0..(MaxOffset - 1) : o < n => Rec(p, o) \in handled

Init == /\ logEnd = [p \in Partitions |-> 0]
        /\ committed = [p \in Partitions |-> -1]
        /\ handled = {}

\* A producer appends one record.
Append(p) == /\ logEnd[p] < MaxOffset
             /\ logEnd' = [logEnd EXCEPT ![p] = @ + 1]
             /\ UNCHANGED <<committed, handled>>

\* Some appended records become handled.
Handle == /\ handled \subseteq handled'
          /\ \A r \in handled' \ handled :
                \E p \in Partitions, o \in 0..(MaxOffset - 1) :
                   r = Rec(p, o) /\ o < logEnd[p]
          /\ UNCHANGED <<logEnd, committed>>

\* The committed offset of p moves forward over handled records.
Commit(p) == \E n \in 0..logEnd[p] :
                /\ committed[p] < n
                /\ HandledBelow(p, n)
                /\ committed' = [committed EXCEPT ![p] = n]
                /\ UNCHANGED <<logEnd, handled>>

Next == Handle \/ \E p \in Partitions : Append(p) \/ Commit(p)

Spec == Init /\ [][Next]_vars
=============================================================================
