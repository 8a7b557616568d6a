--------------------------- MODULE EchoTlsProofs ---------------------------
(* Proofs about EchoTls, for every lifetime, renewal time and delay that    *)
(* satisfy EchoAssumption and, for the second start, BackOffAssumption.     *)
EXTENDS EchoTls, TLAPS

\* The assumption, constant by constant.
LEMMA Times ==
  /\ Duration \in Nat /\ RenewBefore \in Nat /\ SyncDelay \in Nat /\ BackOff \in Nat
  /\ SyncDelay < RenewBefore /\ RenewBefore + SyncDelay < Duration
  /\ RenewBefore + SyncDelay + BackOff < Duration
  BY EchoAssumption, BackOffAssumption

\* The parts of EInv that speak of the Secret and the files, and of the server.
SecretInv == /\ secret \in RenewBefore..Duration
             /\ file \in 0..Duration /\ lag \in 0..SyncDelay
             /\ \/ file = secret /\ lag = 0
                \/ file = RenewBefore - lag /\ secret = Duration - lag
ServerInv == /\ crt \in 0..Duration /\ up \in 0..Duration
             /\ server = "serving" => crt + up >= Fresh
ControlInv == /\ server \in {"down", "reading", "serving"} /\ off \in 0..BackOff
              /\ conn \in BOOLEAN /\ verdict \in {"none", "OK", "FAIL"}
              /\ missed \in BOOLEAN

LEMMA Parts == EInv <=> SecretInv /\ ServerInv /\ ControlInv /\ SwapInv
  BY Times DEF EInv, TypeOK, SecretInv, ServerInv, ControlInv

\* A certificate loses a tick or has nothing left to lose.
LEMMA OlderType ==
  ASSUME NEW n \in 0..Duration
  PROVE  Older(n) \in 0..Duration /\ Older(n) >= n - 1 /\ (n > 0 => Older(n) = n - 1)
  BY Times DEF Older

LEMMA InitEInv == Init => EInv
<1> SUFFICES ASSUME Init PROVE SecretInv /\ ServerInv /\ ControlInv /\ SwapInv
  BY Parts
<1>1. SecretInv
  BY Times DEF Init, SecretInv
<1>2. ServerInv
  BY Times DEF Init, ServerInv
<1>3. ControlInv
  <2>1. server = "down" /\ off = 0 /\ conn = FALSE /\ verdict = "none" /\ missed = FALSE
    BY DEF Init
  <2>2. conn \in BOOLEAN /\ missed \in BOOLEAN
    BY <2>1
  <2>q. QED
    BY <2>1, <2>2, Times DEF ControlInv
<1>4. SwapInv
  BY DEF Init, SwapInv
<1>q. QED
  BY <1>1, <1>2, <1>3, <1>4

\* The files follow the Secret before it can be renewed again.
LEMMA SecretStep ==
  ASSUME SecretInv, Next
  PROVE  SecretInv'
<1> USE Times DEF SecretInv
<1>1. CASE Tick
  <2>1. secret > RenewBefore /\ (file # secret => lag # SyncDelay)
    BY <1>1 DEF Tick, Urgent, RenewDue
  <2>2. secret' = secret - 1
    BY <1>1, <2>1, OlderType DEF Tick
  <2>3. CASE file = secret
    <3>1. file' = Older(file) /\ secret' = Older(secret) /\ lag' = 0
      BY <1>1, <2>3 DEF Tick
    <3>2. file' = secret'
      BY <2>3, <3>1
    <3>3. secret' \in RenewBefore..Duration
      BY <2>1, <2>2
    <3>q. QED
      BY <3>1, <3>2, <3>3
  <2>4. CASE file # secret
    <3>1. lag' = lag + 1 /\ lag + 1 \in 0..SyncDelay
      BY <1>1, <2>1, <2>4 DEF Tick
    <3>2. file > 0 /\ file' = Older(file)
      BY <1>1, <2>4 DEF Tick
    <3>3. file' = file - 1
      BY <3>2, OlderType
    <3>q. QED
      BY <2>1, <2>2, <2>4, <3>1, <3>3
  <2>q. QED
    BY <2>3, <2>4
<1>2. CASE Renew
  BY <1>2 DEF Renew, RenewDue
<1>3. CASE Sync
  BY <1>3 DEF Sync
<1>4. CASE Stop \/ Start \/ ReadKey
  BY <1>4 DEF Stop, Start, ReadKey
<1>5. CASE Get \/ Drop
  BY <1>5 DEF Get, Drop
<1>q. QED
  BY <1>1, <1>2, <1>3, <1>4, <1>5 DEF Next

\* The server starts with what the files have, and loses no more than time.
LEMMA ServerStep ==
  ASSUME SecretInv, ServerInv, ControlInv, Next
  PROVE  ServerInv'
<1> USE Times DEF ServerInv
<1>1. CASE Tick
  <2>1. crt' = Older(crt) /\ server' = server
    BY <1>1 DEF Tick
  <2>2. crt' \in 0..Duration /\ crt' >= crt - 1
    BY <2>1, OlderType
  <2>3. up' = IF server = "serving" /\ up < Duration THEN up + 1 ELSE up
    BY <1>1 DEF Tick
  <2>4. up' \in 0..Duration
    BY <2>3
  <2>5. server = "serving" => crt' + up' >= Fresh
    <3> SUFFICES ASSUME server = "serving" PROVE crt' + up' >= Fresh
      OBVIOUS
    <3>1. Fresh \in Int /\ Fresh <= Duration
      BY DEF Fresh
    <3>2. crt + up >= Fresh /\ crt \in Int /\ up \in 0..Duration
      OBVIOUS
    <3>3. up' = up + 1 \/ (up' = up /\ up = Duration)
      BY <2>3, <3>2
    <3>q. QED
      BY <2>2, <3>1, <3>2, <3>3
  <2>q. QED
    BY <2>1, <2>2, <2>4, <2>5 DEF Fresh
<1>2. CASE ReadKey
  <2>1. crt' = crt
    BY <1>2 DEF ReadKey
  <2>2. CASE crt = file
    <3>1. up' = 0
      BY <1>2, <2>2 DEF ReadKey
    <3>2. crt >= Fresh
      BY <2>2 DEF SecretInv, Fresh
    <3>q. QED
      BY <2>1, <3>1, <3>2 DEF Fresh
  <2>3. CASE crt # file
    BY <1>2, <2>1, <2>3 DEF ReadKey
  <2>q. QED
    BY <2>2, <2>3
<1>3. CASE Start
  BY <1>3 DEF Start, SecretInv
<1>4. CASE Renew \/ Sync
  BY <1>4 DEF Renew, Sync, Fresh
<1>5. CASE Stop
  BY <1>5 DEF Stop
<1>6. CASE Get \/ Drop
  BY <1>6 DEF Get, Drop, Fresh
<1>q. QED
  BY <1>1, <1>2, <1>3, <1>4, <1>5, <1>6 DEF Next

LEMMA ControlStep ==
  ASSUME ControlInv, Next
  PROVE  ControlInv'
<1> DEFINE Client == /\ conn \in BOOLEAN /\ verdict \in {"none", "OK", "FAIL"}
                     /\ missed \in BOOLEAN
           Server == server \in {"down", "reading", "serving"} /\ off \in 0..BackOff
<1>0. (ControlInv <=> Server /\ Client) /\ (Server' /\ Client' => ControlInv')
  BY DEF ControlInv
<1>1. CASE Tick
  <2>1. UNCHANGED <<server, conn, verdict, missed>>
    BY <1>1 DEF Tick, client
  <2>2. (off' = off + 1 /\ off < BackOff) \/ off' = 0
    BY <1>0, <1>1, Times DEF Tick, Urgent
  <2>3. off' \in 0..BackOff
    BY <1>0, <2>2, Times
  <2>q. QED
    BY <1>0, <2>1, <2>3
<1>2. CASE Renew \/ Sync
  BY <1>0, <1>2 DEF Renew, Sync, client
<1>3. CASE Stop \/ Start \/ ReadKey
  <2>1. server' \in {"down", "reading", "serving"}
    BY <1>3 DEF Stop, Start, ReadKey
  <2>2. off' = off \/ off' = 0
    BY <1>3 DEF Stop, Start, ReadKey
  <2>3. off' \in 0..BackOff
    BY <1>0, <2>2, Times
  <2>4. conn' = FALSE \/ conn' = conn
    BY <1>3 DEF Stop, Start, ReadKey, client
  <2>5. conn' \in BOOLEAN
    BY <1>0, <2>4
  <2>6. verdict' = verdict
    BY <1>3 DEF Stop, Start, ReadKey, client
  <2>7. missed' = missed \/ missed' = (crt # file)
    BY <1>3 DEF Stop, Start, ReadKey
  <2>8. missed' \in BOOLEAN
    BY <1>0, <2>7
  <2>q. QED
    BY <1>0, <2>1, <2>3, <2>5, <2>6, <2>8
<1>5. CASE Get
  <2>1. conn' \in BOOLEAN
    BY <1>5 DEF Get, Answered
  <2>2. verdict' \in {"none", "OK", "FAIL"} /\ UNCHANGED <<server, off, missed>>
    BY <1>5 DEF Get
  <2>q. QED
    BY <1>0, <2>1, <2>2
<1>6. CASE Drop
  <2>1. conn' = FALSE /\ UNCHANGED <<server, off, verdict, missed>>
    BY <1>6 DEF Drop
  <2>2. conn' \in BOOLEAN
    BY <2>1
  <2>q. QED
    BY <1>0, <2>1, <2>2
<1>q. QED
  BY <1>1, <1>2, <1>3, <1>5, <1>6 DEF Next

\* Where the files have been swapped under a start they are new, and what that
\* start leaves behind stays new until the next start has read both files.
LEMMA SwapStep ==
  ASSUME SecretInv, ControlInv, SwapInv, Next
  PROVE  SwapInv'
<1>1. secret \in Int /\ file \in Int /\ off \in Int /\ off >= 0 /\ off <= BackOff
  BY Times DEF SecretInv, ControlInv
<1>2. CASE Tick
  <2>1. server # "reading" /\ UNCHANGED <<server, missed>>
    BY <1>2 DEF Tick, Urgent
  <2>2. ASSUME missed PROVE SwapInv'
    <3>1. server = "down" /\ file = secret /\ secret >= Duration - SyncDelay - off
      BY <2>1, <2>2, Times DEF SwapInv, ControlInv
    <3>2. file' = Older(file) /\ secret' = Older(secret) /\ off' = off + 1
      BY <1>2, <3>1 DEF Tick
    <3>3. file' = secret'
      BY <3>1, <3>2
    <3>4. secret \in 0..Duration
      BY Times DEF SecretInv
    <3>5. secret' \in 0..Duration /\ secret' >= secret - 1
      BY <3>2, <3>4, OlderType
    <3>6. secret' >= Duration - SyncDelay - off'
      BY <1>1, <3>1, <3>2, <3>5, Times
    <3>q. QED
      BY <2>1, <3>1, <3>3, <3>6 DEF SwapInv
  <2>q. QED
    BY <2>1, <2>2 DEF SwapInv
<1>3. CASE Renew
  <2>1. secret <= RenewBefore /\ UNCHANGED <<file, server, crt, off, missed>>
    BY <1>3 DEF Renew, RenewDue
  <2>2. ~missed
    BY <1>1, <2>1, Times DEF SwapInv
  <2>3. ~(server = "reading" /\ crt # file)
    BY <1>1, <2>1, Times DEF SwapInv
  <2>q. QED
    BY <2>1, <2>2, <2>3 DEF SwapInv
<1>4. CASE Sync
  <2>1. file # secret /\ file' = secret' /\ UNCHANGED <<secret, server, crt, off, missed>>
    BY <1>4 DEF Sync
  <2>2. ~missed
    BY <2>1 DEF SwapInv
  <2>3. secret >= Duration - SyncDelay
    BY <2>1, Times DEF SecretInv
  <2>q. QED
    BY <2>1, <2>2, <2>3 DEF SwapInv
<1>5. CASE Stop
  BY <1>5 DEF Stop, SwapInv
<1>6. CASE Start
  <2>1. /\ server = "down" /\ server' = "reading" /\ crt' = file'
        /\ UNCHANGED <<secret, file, missed>>
    BY <1>6 DEF Start
  <2>2. missed => secret >= Duration - SyncDelay - BackOff
    BY <1>1, <2>1, Times DEF SwapInv
  <2>q. QED
    BY <2>1, <2>2 DEF SwapInv
<1>7. CASE ReadKey
  <2>1. CASE crt = file
    BY <1>7, <2>1 DEF ReadKey, SwapInv
  <2>2. CASE crt # file
    <3>1. server = "reading" /\ server' = "down" /\ off' = 0 /\ UNCHANGED <<secret, file>>
      BY <1>7, <2>2 DEF ReadKey
    <3>2. file = secret /\ secret >= Duration - SyncDelay - 0
      BY <1>1, <2>2, <3>1, Times DEF SwapInv
    <3>q. QED
      BY <3>1, <3>2 DEF SwapInv
  <2>q. QED
    BY <2>1, <2>2
<1>8. CASE Get \/ Drop
  BY <1>8 DEF Get, Drop, SwapInv
<1>q. QED
  BY <1>2, <1>3, <1>4, <1>5, <1>6, <1>7, <1>8 DEF Next

LEMMA NextEInv == EInv /\ [Next]_vars => EInv'
<1>1. ASSUME EInv, UNCHANGED vars PROVE EInv'
  BY <1>1 DEF EInv, TypeOK, SwapInv, vars
<1>2. ASSUME EInv, Next PROVE EInv'
  <2>1. SecretInv /\ ServerInv /\ ControlInv /\ SwapInv
    BY <1>2, Parts
  <2>2. SecretInv' /\ ServerInv' /\ ControlInv' /\ SwapInv'
    BY <1>2, <2>1, SecretStep, ServerStep, ControlStep, SwapStep
  <2>3. TypeOK'
    <3>1. secret' \in 0..Duration
      BY <2>2, Times DEF SecretInv
    <3>2. file' \in 0..Duration /\ lag' \in 0..SyncDelay
      BY <2>2 DEF SecretInv
    <3>3. crt' \in 0..Duration /\ up' \in 0..Duration
      BY <2>2 DEF ServerInv
    <3>q. QED
      BY <2>2, <3>1, <3>2, <3>3, Zenon DEF TypeOK, ControlInv
  <2>4. /\ secret' >= RenewBefore
        /\ \/ file' = secret' /\ lag' = 0
           \/ file' = RenewBefore - lag' /\ secret' = Duration - lag'
    <3>1. secret' \in RenewBefore..Duration
      BY <2>2 DEF SecretInv
    <3>2. secret' >= RenewBefore
      BY <3>1, Times
    <3>q. QED
      BY <2>2, <3>2 DEF SecretInv
  <2>q. QED
    BY <2>2, <2>3, <2>4 DEF EInv, ServerInv, Fresh
<1>q. QED
  BY <1>1, <1>2

-----------------------------------------------------------------------------

\* What the Secret, the files and the server's memory hold is ordered by the
\* renewal and the time since the start.
THEOREM Invariance == Spec => []EInv
  BY InitEInv, NextEInv, PTL DEF Spec

\* A server that has been up for less than RenewBefore - SyncDelay never makes
\* a client refuse it.
THEOREM FreshServes == Spec => NoFailWhileFresh
<1>1. EInv /\ [Next]_vars
        => [Get /\ verdict' = "FAIL" /\ server = "serving" => up >= Fresh]_vars
  <2> SUFFICES ASSUME EInv, Get, verdict' = "FAIL", server = "serving" PROVE up >= Fresh
    OBVIOUS
  <2>1. ~(crt > 0)
    BY DEF Get, Answered
  <2>q. QED
    BY <2>1, Parts, Times DEF ServerInv, Fresh
<1>q. QED
  BY <1>1, Invariance, PTL DEF Spec, NoFailWhileFresh

\* A start that follows a failed one reads a certificate and a key that fit and
\* serves: main's log.Fatal costs one restart for each renewal and never two.
THEOREM SecondStartServes == Spec => SecondStart
<1>1. EInv /\ [Next]_vars => [ReadKey /\ missed => server' = "serving"]_vars
  <2> SUFFICES ASSUME EInv, ReadKey, missed PROVE server' = "serving"
    OBVIOUS
  <2>1. server = "reading" /\ crt = file
    BY DEF EInv, SwapInv, ReadKey
  <2>q. QED
    BY <2>1 DEF ReadKey
<1>q. QED
  BY <1>1, Invariance, PTL DEF Spec, SecondStart
=============================================================================
