------------------------------ MODULE Delivery ------------------------------
(* What a producer owes for each message it attempts, with no producer in   *)
(* it: one verdict at most, "success" only for a message the topic holds,   *)
(* and a message it refused to take never shows up in the topic.  A message *)
(* with the verdict "error" may be in the topic all the same.               *)
CONSTANT Messages

VARIABLES attempted,  \* the messages handed to the producer
          stored,     \* the messages the topic holds
          verdict     \* [Messages -> "open", "success", "error" or "refused"]

vars == <<attempted, stored, verdict>>

Init == /\ attempted = {} /\ stored = {}
        /\ verdict = [m \in Messages |-> "open"]

Attempt(m) == /\ m \notin attempted
              /\ attempted' = attempted \cup {m}
              /\ UNCHANGED <<stored, verdict>>

Refuse(m) == /\ m \notin attempted
             /\ attempted' = attempted \cup {m}
             /\ verdict' = [verdict EXCEPT ![m] = "refused"]
             /\ UNCHANGED stored

Store(m) == /\ m \in attempted \ stored /\ verdict[m] # "refused"
            /\ stored' = stored \cup {m}
            /\ UNCHANGED <<attempted, verdict>>

Succeed(m) == /\ m \in stored /\ verdict[m] = "open"
              /\ verdict' = [verdict EXCEPT ![m] = "success"]
              /\ UNCHANGED <<attempted, stored>>

Fail(m) == /\ m \in attempted /\ verdict[m] = "open"
           /\ verdict' = [verdict EXCEPT ![m] = "error"]
           /\ UNCHANGED <<attempted, stored>>

Next == \E m \in Messages : Attempt(m) \/ Refuse(m) \/ Store(m) \/ Succeed(m) \/ Fail(m)

Spec == Init /\ [][Next]_vars
=============================================================================
