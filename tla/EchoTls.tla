------------------------------ MODULE EchoTls ------------------------------
(* src/echo-app: a server that loads its certificate and key once, when it  *)
(* starts, from a mounted Secret that cert-manager renews, and a client     *)
(* that calls it every few seconds over a connection it keeps.  Nothing     *)
(* restarts the server for a new certificate.  The client is one that       *)
(* connects to the server itself; behind the gateway of the manifests the   *)
(* gateway takes its part.  A renewal brings a new key with the new         *)
(* certificate: the Certificate names no rotationPolicy, and cert-manager   *)
(* 1.20, which the repository installs, then makes one.  Were the key kept, *)
(* no start could fail and the model would be stricter than the deployment. *)
(* Time is counted in ticks, and a certificate is what it has left.         *)
EXTENDS Integers

CONSTANTS Duration, RenewBefore,  \* of the Certificate resource
          SyncDelay,              \* external: the kubelet updates a mounted Secret
          BackOff                 \* external: the longest CrashLoopBackOff

ASSUME EchoAssumption ==
  /\ {Duration, RenewBefore, SyncDelay, BackOff} \subseteq Nat
  /\ SyncDelay < RenewBefore /\ RenewBefore + SyncDelay < Duration

\* A server that failed to start is started again before the next renewal.
ASSUME BackOffAssumption == RenewBefore + SyncDelay + BackOff < Duration

VARIABLES
  secret,  \* the certificate in the Secret
  file,    \* the one in /etc/tls, which the page of the server shows
  lag,     \* how long the two have been different
  server,  \* "down", "reading" (has read tls.crt and not tls.key) or "serving"
  crt,     \* the certificate the server has read
  up,      \* how long it has been serving with it, or Duration and more
  off,     \* how long it has been down
  conn,    \* the client's kept connection
  verdict, \* what the client has printed last
  missed   \* history: the last start has failed

vars == <<secret, file, lag, server, crt, up, off, conn, verdict, missed>>
client == <<conn, verdict>>

Init ==
  /\ secret = Duration /\ file = Duration /\ lag = 0
  /\ server = "down" /\ crt = 0 /\ up = 0 /\ off = 0
  /\ conn = FALSE /\ verdict = "none" /\ missed = FALSE

------------------------------------------------------------------------------
(* The cluster *)

Older(n) == IF n > 0 THEN n - 1 ELSE 0

\* Mutants: no renewBefore, the certificate is renewed when it has expired; a
\* renewBefore of almost the whole duration.
RenewDueExpired == secret = 0
RenewDueEarly == secret < Duration

RenewDue == secret <= RenewBefore

Urgent == \/ RenewDue
          \/ file # secret /\ lag = SyncDelay
          \/ server = "reading"
          \/ server = "down" /\ off = BackOff

Tick ==
  /\ ~Urgent
  /\ secret' = Older(secret) /\ file' = Older(file) /\ crt' = Older(crt)
  /\ lag' = IF file = secret THEN 0 ELSE lag + 1
  /\ up' = IF server = "serving" /\ up < Duration THEN up + 1 ELSE up
  /\ off' = IF server = "down" THEN off + 1 ELSE 0
  /\ UNCHANGED <<server, client, missed>>

\* cert-manager puts a new certificate and key into the Secret ...
Renew ==
  /\ RenewDue
  /\ secret' = Duration
  /\ UNCHANGED <<file, lag, server, crt, up, off, client, missed>>

\* ... and the kubelet swaps both files at once.
Sync ==
  /\ file # secret
  /\ file' = secret /\ lag' = 0
  /\ UNCHANGED <<secret, server, crt, up, off, client, missed>>

\* The pod is evicted, killed or rolled.
Stop ==
  /\ server = "serving"
  /\ server' = "down" /\ off' = 0
  /\ conn' = FALSE
  /\ UNCHANGED <<secret, file, lag, crt, up, verdict, missed>>

------------------------------------------------------------------------------
(* The server *)

\* main calls ListenAndServeTLS, which reads the certificate first ...
Start ==
  /\ server = "down"
  /\ server' = "reading"
  /\ crt' = file
  /\ UNCHANGED <<secret, file, lag, up, off, client, missed>>

\* Mutant: the server waits for the key that fits.
ReadKeyWaits ==
  /\ server = "reading" /\ crt = file
  /\ server' = "serving" /\ up' = 0 /\ missed' = FALSE
  /\ UNCHANGED <<secret, file, lag, crt, off, client>>

\* ... and then the key.  If the files were swapped in between, the two do not
\* fit together and main ends with log.Fatal.
ReadKey ==
  /\ server = "reading"
  /\ IF crt = file THEN server' = "serving" /\ up' = 0 /\ UNCHANGED off
                   ELSE server' = "down" /\ off' = 0 /\ UNCHANGED up
  /\ missed' = (crt # file)
  /\ UNCHANGED <<secret, file, lag, crt, client>>

------------------------------------------------------------------------------
(* The client *)

\* A kept connection is used again and asks for no certificate; a new one is
\* refused by the client when the certificate has expired.
Answered == server = "serving" /\ (conn \/ crt > 0)

Get ==
  /\ verdict' = IF Answered THEN "OK" ELSE "FAIL"
  /\ conn' = Answered
  /\ UNCHANGED <<secret, file, lag, server, crt, up, off, missed>>

\* The kept connection is lost.
Drop ==
  /\ conn /\ conn' = FALSE
  /\ UNCHANGED <<secret, file, lag, server, crt, up, off, verdict, missed>>

------------------------------------------------------------------------------

Next == Tick \/ Renew \/ Sync \/ Stop \/ Start \/ ReadKey \/ Get \/ Drop

Spec == Init /\ [][Next]_vars

\* Time passes, cert-manager and the kubelet do their work, main runs.
FairSpec == Spec /\ WF_vars(Tick) /\ WF_vars(Renew) /\ WF_vars(Sync)
                 /\ WF_vars(Start) /\ WF_vars(ReadKey)

------------------------------------------------------------------------------
(* Properties *)

TypeOK ==
  /\ secret \in 0..Duration /\ file \in 0..Duration /\ crt \in 0..Duration
  /\ lag \in 0..SyncDelay /\ up \in 0..Duration /\ off \in 0..BackOff
  /\ server \in {"down", "reading", "serving"}
  /\ conn \in BOOLEAN /\ verdict \in {"none", "OK", "FAIL"} /\ missed \in BOOLEAN

\* A server that has just started has a certificate for this long at least.
Fresh == RenewBefore - SyncDelay

\* The files changed under a starting server, and the ones that a failed start
\* has left behind, are new enough not to be changed again so soon.
SwapInv ==
  /\ server = "reading" /\ crt # file => file = secret /\ secret >= Duration - SyncDelay
  /\ missed => /\ server # "serving" /\ file = secret
               /\ secret >= Duration - SyncDelay - (IF server = "down" THEN off ELSE BackOff)
               /\ server = "reading" => crt = file

\* The Secret is never older than its renewal, the files are those of the
\* Secret or the ones before, and what the server has lost of its certificate
\* since it started is the time since it started.
EInv ==
  /\ TypeOK
  /\ secret >= RenewBefore
  /\ \/ file = secret /\ lag = 0
     \/ file = RenewBefore - lag /\ secret = Duration - lag
  /\ server = "serving" => crt + up >= Fresh
  /\ SwapInv

\* A client that meets a serving server is refused only if the server has been
\* up since before the last renewal reached it: whoever restarts the server
\* every Fresh ticks never sees an expired certificate, although it loads one
\* only at the start and may start just before a renewal.
NoFailWhileFresh ==
  [][Get /\ verdict' = "FAIL" /\ server = "serving" => up >= Fresh]_vars

\* A start that meets the swap of the files fails; the next one does not, since
\* the swap it meets would be that of the next renewal.
SecondStart == [][ReadKey /\ missed => server' = "serving"]_vars

\* A start that meets the swap of the files fails, but not for ever.
BackUp == server = "down" ~> server = "serving"
=============================================================================
