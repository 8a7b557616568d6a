--------------------------- MODULE PartitionLease ---------------------------
(* What a consumer may count on when it commits: a partition is held by one *)
(* consumer at a time, changes hands only after it was let go, is taken up  *)
(* where the group has committed, and only its holder moves the committed   *)
(* offset, to the position it has read up to.  There is no protocol in it:  *)
(* no rebalance, no loop, no record in flight.                              *)
EXTENDS Integers

CONSTANTS Consumers, Partitions,
          MaxOffset    \* bound: records per partition

VARIABLES logEnd,      \* [Partitions -> Nat], the next offset to append
          committed,   \* [Partitions -> Int], -1 when nothing is committed
          holder,      \* [Partitions -> SUBSET Consumers], who holds it, if anyone
          next         \* [Consumers -> [Partitions -> Nat]], where a holder reads

vars == <<logEnd, committed, holder, next>>

Nowhere == [p \in Partitions |-> 0]

Init == /\ logEnd = [p \in Partitions |-> 0]
        /\ committed = [p \in Partitions |-> -1]
        /\ holder = [p \in Partitions |-> {}]
        /\ next = [c \in Consumers |-> Nowhere]

\* A producer appends one record.
Append(p) == /\ logEnd[p] < MaxOffset
             /\ logEnd' = [logEnd EXCEPT ![p] = @ + 1]
             /\ UNCHANGED <<committed, holder, next>>

\* Where a partition is taken up.
Start(p) == IF committed[p] = -1 THEN logEnd[p] ELSE committed[p]

\* A consumer that holds nothing takes partitions that nobody holds.
Acquire(c) == \E S \in SUBSET Partitions :
  /\ \A p \in Partitions : c \notin holder[p]
  /\ \A p \in S : holder[p] = {}
  /\ holder' = [p \in Partitions |-> IF p \in S THEN {c} ELSE holder[p]]
  /\ next' = [next EXCEPT ![c] = [p \in Partitions |-> IF p \in S THEN Start(p) ELSE 0]]
  /\ UNCHANGED <<logEnd, committed>>

\* It lets go of all of them.
Release(c) == /\ holder' = [p \in Partitions |-> holder[p] \ {c}]
              /\ next' = [next EXCEPT ![c] = Nowhere]
              /\ UNCHANGED <<logEnd, committed>>

\* It reads a record.
Read(c, p) == /\ c \in holder[p] /\ next[c][p] < logEnd[p]
              /\ next' = [next EXCEPT ![c][p] = @ + 1]
              /\ UNCHANGED <<logEnd, committed, holder>>

\* It commits what it has read.
Commit(c, p) == /\ c \in holder[p] /\ committed[p] <= next[c][p]
                /\ committed' = [committed EXCEPT ![p] = next[c][p]]
                /\ UNCHANGED <<logEnd, holder, next>>

Next == \/ \E p \in Partitions : Append(p)
        \/ \E c \in Consumers : \/ Acquire(c) \/ Release(c)
                                \/ \E p \in Partitions : Read(c, p) \/ Commit(c, p)

Spec == Init /\ [][Next]_vars
=============================================================================
