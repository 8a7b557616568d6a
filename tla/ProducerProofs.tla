--------------------------- MODULE ProducerProofs ---------------------------
(* Proofs about Producer, for every number of messages and queue limit.     *)
EXTENDS Producer, TLAPS

USE ProducerAssumption

LEMMA InitPInv == Init => PInv
<1> SUFFICES ASSUME Init PROVE PInv
  OBVIOUS
<1>1. TypeOK
  <2>1. at \in [Messages -> Places]
    BY DEF Init, Places
  <2>2. next \in 1..(MaxMessages + 1)
    BY DEF Init
  <2>3. main \in MainStates /\ stored \subseteq Messages /\ refresh \in BOOLEAN
        /\ ctxDone \in BOOLEAN /\ ready \in BOOLEAN /\ healthy \in BOOLEAN
    BY DEF Init, MainStates
  <2>4. events = "none" /\ fatal = "no" /\ sig = "waiting" /\ server = "none"
    BY DEF Init
  <2>q. QED
    BY <2>1, <2>2, <2>3, <2>4 DEF TypeOK
<1>2. MessageInv /\ ShutdownInv
  BY DEF Init, MessageInv, ShutdownInv, Messages
<1>q. QED
  BY <1>1, <1>2 DEF PInv

\* Every step keeps the types.
LEMMA TypeStep ==
  ASSUME TypeOK, Next
  PROVE  TypeOK'
<1> USE DEF TypeOK
<1>1. CASE Main
  <2>1. main' \in MainStates
    BY <1>1 DEF Main, Notify, Connect, EnterLoop, StopLoop, Flush, MainStates
  <2>2. events' \in {"none", "select", "fetch", "stopped"}
    BY <1>1 DEF Main, Notify, Connect, EnterLoop, StopLoop, Flush
  <2>3. ready' \in BOOLEAN /\ server' \in {"none", "up", "failed", "down"}
    BY <1>1 DEF Main, Notify, Connect, EnterLoop, StopLoop, Flush, statusVars
  <2>4. UNCHANGED <<next, at, stored, refresh, fatal, sig, ctxDone, healthy>>
    BY <1>1 DEF Main, Notify, Connect, EnterLoop, StopLoop, Flush, kafkaVars, statusVars
  <2>q. QED
    BY <2>1, <2>2, <2>3, <2>4
<1>2. CASE ConnectFails \/ Crash
  BY <1>2 DEF ConnectFails, Crash, kafkaVars, statusVars, MainStates
<1>3. CASE Enqueue \/ Refuse
  <2>1. PICK place \in {"queue", "refused"} : Attempt(place)
    BY <1>3 DEF Enqueue, Refuse
  <2>2. at' \in [Messages -> Places] /\ next' \in 1..(MaxMessages + 1)
    BY <2>1 DEF Attempt, Number, Messages, Places
  <2>q. QED
    BY <2>1, <2>2 DEF Attempt, kafkaVars, statusVars
<1>4. CASE Sigterm
  BY <1>4 DEF Sigterm, kafkaVars, statusVars, MainStates
<1>5. CASE Signal \/ ListenFails \/ ShutDown
  BY <1>5 DEF Signal, SetUnready, Cancel, ListenFails, ShutDown, mainVars, kafkaVars
<1>6. CASE RefreshAsked \/ FatalRaised
  BY <1>6 DEF RefreshAsked, FatalRaised, mainVars, statusVars
<1>7. CASE StartFetch \/ FetchReturns \/ HandleError \/ EventsStop
  BY <1>7 DEF StartFetch, FetchReturns, HandleError, EventsStop, mainVars, kafkaVars, statusVars
<1>8. ASSUME NEW m \in Messages, Append(m) PROVE TypeOK'
  BY <1>8 DEF Append, mainVars, statusVars
<1>9. ASSUME NEW m \in Messages, Report(m) \/ Count(m) PROVE TypeOK'
  BY <1>9 DEF Report, Acknowledge, DeliveryFails, Count, CountSuccess, CountError,
     mainVars, kafkaVars, statusVars, Places
<1>q. QED
  BY <1>1, <1>2, <1>3, <1>4, <1>5, <1>6, <1>7, <1>8, <1>9 DEF Next

\* No step reports a success the topic does not hold, or stores what was refused.
LEMMA MessageStep ==
  ASSUME TypeOK, MessageInv, Next
  PROVE  MessageInv'
<1>1. CASE Enqueue \/ Refuse
  <2>1. PICK place \in {"queue", "refused"} : Attempt(place)
    BY <1>1 DEF Enqueue, Refuse
  <2>2. next \in Messages /\ next' = next + 1 /\ stored' = stored
        /\ \A m \in Messages : at'[m] = IF m = next THEN place ELSE at[m]
    BY <2>1 DEF TypeOK, Attempt, Number, kafkaVars
  <2>3. next \notin stored
    BY <2>2 DEF MessageInv, Messages
  <2>4. \A m \in Messages : (at'[m] = "none") <=> (m >= next')
    BY <2>2 DEF MessageInv, Messages
  <2>q. QED
    BY <2>2, <2>3, <2>4 DEF TypeOK, MessageInv
<1>2. ASSUME NEW m \in Messages, Append(m) PROVE MessageInv'
  BY <1>2 DEF TypeOK, MessageInv, Append, mainVars
<1>3. ASSUME NEW m \in Messages, Report(m) \/ Count(m) PROVE MessageInv'
  <2>1. next' = next /\ stored' = stored
    BY <1>3 DEF Report, Acknowledge, DeliveryFails, Count, CountSuccess, CountError,
       mainVars, kafkaVars
  <2>2. at[m] \in {"queue", "acked", "failed"}
        /\ at'[m] \in {"acked", "failed", "success", "error"}
        /\ (at'[m] \in {"acked", "success"} => m \in stored)
        /\ \A k \in Messages \ {m} : at'[k] = at[k]
    BY <1>3 DEF TypeOK, MessageInv, Report, Acknowledge, DeliveryFails, Count,
       CountSuccess, CountError
  <2>q. QED
    BY <2>1, <2>2 DEF TypeOK, MessageInv
<1>4. CASE UNCHANGED <<next, at, stored>>
  BY <1>4 DEF MessageInv
<1>5. CASE Main \/ ConnectFails \/ Crash \/ Sigterm
  BY <1>4, <1>5 DEF Main, Notify, Connect, EnterLoop, StopLoop, Flush, ConnectFails, Crash,
     Sigterm, kafkaVars
<1>6. CASE Signal \/ ListenFails \/ ShutDown \/ RefreshAsked \/ FatalRaised
  BY <1>4, <1>6 DEF Signal, SetUnready, Cancel, ListenFails, ShutDown, RefreshAsked, FatalRaised,
     mainVars, kafkaVars
<1>7. CASE StartFetch \/ FetchReturns \/ HandleError \/ EventsStop
  BY <1>4, <1>7 DEF StartFetch, FetchReturns, HandleError, EventsStop, mainVars, kafkaVars
<1>q. QED
  BY <1>1, <1>2, <1>3, <1>5, <1>6, <1>7 DEF Next

\* No goroutine gets ahead of the cancellation.
LEMMA ShutdownStep ==
  ASSUME TypeOK, ShutdownInv, Next
  PROVE  ShutdownInv'
<1> USE DEF TypeOK, ShutdownInv
<1>1. CASE Main
  BY <1>1 DEF Main, Notify, Connect, EnterLoop, StopLoop, Flush, kafkaVars, statusVars
<1>2. CASE ConnectFails \/ Crash
  BY <1>2 DEF ConnectFails, Crash, kafkaVars, statusVars
<1>3. CASE Enqueue \/ Refuse
  BY <1>3 DEF Enqueue, Refuse, Attempt, kafkaVars, statusVars
<1>4. CASE Sigterm
  BY <1>4 DEF Sigterm, Alive, kafkaVars, statusVars
<1>5. CASE Signal \/ ListenFails \/ ShutDown
  BY <1>5 DEF Signal, SetUnready, Cancel, ListenFails, ShutDown, mainVars, kafkaVars
<1>6. CASE RefreshAsked \/ FatalRaised
  BY <1>6 DEF RefreshAsked, FatalRaised, mainVars, statusVars
<1>7. CASE StartFetch \/ FetchReturns \/ HandleError \/ EventsStop
  BY <1>7 DEF StartFetch, FetchReturns, HandleError, EventsStop, Selecting, mainVars,
     kafkaVars, statusVars
<1>8. ASSUME NEW m \in Messages, Append(m) \/ Report(m) \/ Count(m) PROVE ShutdownInv'
  BY <1>8 DEF Append, Report, Acknowledge, DeliveryFails, Count, CountSuccess, CountError,
     mainVars, kafkaVars, statusVars
<1>q. QED
  BY <1>1, <1>2, <1>3, <1>4, <1>5, <1>6, <1>7, <1>8 DEF Next

LEMMA NextPInv == PInv /\ [Next]_vars => PInv'
<1>1. ASSUME PInv, Next PROVE PInv'
  BY <1>1, TypeStep, MessageStep, ShutdownStep DEF PInv
<1>2. ASSUME PInv, UNCHANGED vars PROVE PInv'
  BY <1>2 DEF PInv, TypeOK, MessageInv, ShutdownInv, vars
<1>q. QED
  BY <1>1, <1>2

-----------------------------------------------------------------------------

\* The inductive invariant holds in every reachable state of the producer.
THEOREM Invariance == Spec => []PInv
  BY InitPInv, NextPInv, PTL DEF Spec

\* Every variable of the producer keeps its type.
THEOREM TypeCorrect == Spec => []TypeOK
<1>1. PInv => TypeOK
  BY DEF PInv
<1>q. QED
  BY <1>1, Invariance, PTL

-----------------------------------------------------------------------------
(* The refinement *)

\* The places that stand for a message without a verdict.
LEMMA InitMaps == Init => D!Init
  BY DEF Init, D!Init, InPlace, Places, Verdict

\* The first place of a message is the queue or a refusal.
LEMMA AttemptMaps ==
  ASSUME PInv, Enqueue \/ Refuse
  PROVE  D!Next
<1>1. PICK place \in {"queue", "refused"} : Attempt(place)
  BY DEF Enqueue, Refuse
<1>2. /\ next \in Messages /\ at[next] = "none" /\ stored' = stored
      /\ at' = [at EXCEPT ![next] = place]
  BY <1>1 DEF PInv, TypeOK, MessageInv, Attempt, kafkaVars, Messages
<1>3. InPlace(Places \ {"none"})' = InPlace(Places \ {"none"}) \cup {next}
  BY <1>1, <1>2 DEF PInv, TypeOK, InPlace, Places
<1>4. next \notin InPlace(Places \ {"none"})
  BY <1>2 DEF InPlace
<1>5. CASE place = "queue"
  <2>1. D!Attempt(next)
    BY <1>2, <1>3, <1>4, <1>5 DEF D!Attempt, PInv, TypeOK, Verdict
  <2>q. QED
    BY <1>2, <2>1 DEF D!Next
<1>6. CASE place = "refused"
  <2>0. \A m \in Messages : at'[m] = IF m = next THEN "refused" ELSE at[m]
    BY <1>2, <1>6 DEF PInv, TypeOK
  <2>a. Verdict' = [Verdict EXCEPT ![next] = "refused"]
    BY <1>2, <2>0 DEF Verdict
  <2>1. D!Refuse(next)
    BY <1>2, <1>3, <1>4, <2>a DEF D!Refuse
  <2>2. next \in Messages
    BY <1>2
  <2>q. QED
    BY <2>1, <2>2, Zenon DEF D!Next
<1>q. QED
  BY <1>1, <1>5, <1>6

\* An append is a Store: what is stored was attempted and not refused.
LEMMA AppendMaps ==
  ASSUME PInv, NEW m \in Messages, Append(m)
  PROVE  D!Next
<1>1. at' = at /\ stored' = stored \cup {m} /\ m \notin stored
      /\ at[m] \in {"queue", "failed", "error"}
  BY DEF Append
<1>2. InPlace(Places \ {"none"})' = InPlace(Places \ {"none"})
  BY <1>1 DEF InPlace
<1>3. m \in InPlace(Places \ {"none"})
  BY <1>1 DEF InPlace, Places
<1>4. D!Store(m)
  BY <1>1, <1>2, <1>3 DEF D!Store, Verdict
<1>q. QED
  BY <1>4 DEF D!Next

\* A counted report is a verdict; an uncounted one is not seen yet.
LEMMA ReportMaps ==
  ASSUME PInv, NEW m \in Messages, Report(m) \/ Count(m)
  PROVE  D!Next \/ UNCHANGED D!vars
<1>1. stored' = stored
  BY DEF Report, Acknowledge, DeliveryFails, Count, CountSuccess, CountError, kafkaVars
<1>2. PICK place \in {"acked", "failed", "success", "error"} :
        /\ at' = [at EXCEPT ![m] = place]
        /\ place \in {"acked", "failed"} => at[m] = "queue"
        /\ place = "success" => at[m] = "acked"
        /\ place = "error" => at[m] = "failed"
  BY DEF Report, Acknowledge, DeliveryFails, Count, CountSuccess, CountError
<1>3. at \in [Messages -> Places] /\ at[m] \in {"queue", "acked", "failed"}
  BY <1>2 DEF PInv, TypeOK
<1>4. InPlace(Places \ {"none"})' = InPlace(Places \ {"none"})
  BY <1>2, <1>3 DEF InPlace, Places
<1>5. m \in InPlace(Places \ {"none"})
  BY <1>3 DEF InPlace, Places
<1>6. CASE place \in {"acked", "failed"}
  BY <1>1, <1>2, <1>3, <1>4, <1>6 DEF D!vars, Verdict
<1>7. CASE place = "success"
  <2>1. m \in stored
    BY <1>2, <1>7 DEF PInv, MessageInv
  <2>2. D!Succeed(m)
    BY <1>1, <1>2, <1>3, <1>4, <1>7, <2>1 DEF D!Succeed, Verdict
  <2>q. QED
    BY <2>2 DEF D!Next
<1>8. CASE place = "error"
  <2>1. D!Fail(m)
    BY <1>1, <1>2, <1>3, <1>4, <1>5, <1>8 DEF D!Fail, Verdict
  <2>q. QED
    BY <2>1 DEF D!Next
<1>q. QED
  BY <1>2, <1>6, <1>7, <1>8

LEMMA NextMaps == PInv /\ [Next]_vars => [D!Next]_(D!vars)
<1>1. CASE UNCHANGED <<at, stored>>
  BY <1>1 DEF D!vars, InPlace, Verdict
<1>2. CASE UNCHANGED vars
  BY <1>1, <1>2 DEF vars
<1>3. CASE Main \/ ConnectFails \/ Crash \/ Sigterm
  BY <1>1, <1>3 DEF Main, Notify, Connect, EnterLoop, StopLoop, Flush, ConnectFails, Crash,
     Sigterm, kafkaVars
<1>4. CASE Signal \/ ListenFails \/ ShutDown \/ RefreshAsked \/ FatalRaised
  BY <1>1, <1>4 DEF Signal, SetUnready, Cancel, ListenFails, ShutDown, RefreshAsked, FatalRaised,
     mainVars, kafkaVars
<1>5. CASE StartFetch \/ FetchReturns \/ HandleError \/ EventsStop
  BY <1>1, <1>5 DEF StartFetch, FetchReturns, HandleError, EventsStop, mainVars, kafkaVars
<1>6. ASSUME PInv, Enqueue \/ Refuse PROVE D!Next
  BY <1>6, AttemptMaps
<1>7. ASSUME PInv, NEW m \in Messages, Append(m) \/ Report(m) \/ Count(m)
      PROVE  D!Next \/ UNCHANGED D!vars
  BY <1>7, AppendMaps, ReportMaps
<1>q. QED
  BY <1>2, <1>3, <1>4, <1>5, <1>6, <1>7 DEF Next

\* The producer keeps the promise of Delivery.
THEOREM ImplementsDelivery == Spec => DeliverySpec
<1>1. Spec => D!Init /\ [][D!Next]_(D!vars)
  BY InitMaps, NextMaps, Invariance, PTL DEF Spec
<1>q. QED
  BY <1>1 DEF DeliverySpec, D!Spec

\* The SCRAM variant is the producer that is never asked for a token, and so
\* keeps the same promise, by the same invariant.
THEOREM ScramImplementsDelivery == ScramSpec => []PInv /\ DeliverySpec
<1>1. ScramNext => Next
  BY DEF ScramNext, ScramMain, ScramEvents, ScramSignal, ScramHealth, Next
<1>2. ScramSpec => Spec
  BY <1>1, PTL DEF ScramSpec, Spec
<1>q. QED
  BY <1>2, Invariance, ImplementsDelivery
=============================================================================
