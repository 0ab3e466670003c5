---------------------------- MODULE ReportNonce -----------------------------
(***************************************************************************)
(* The requests of a site's reporter and the nonces that keep them from    *)
(* being counted twice: send, VerifySiteSignature, and the maintenance     *)
(* that forgets old nonces. Requests are delivered late, never or several  *)
(* times. Time is counted in ticks.                                        *)
(***************************************************************************)
EXTENDS Integers

CONSTANTS
    Messages,      \* requests, each with the nonce that send drew for it
    Deliveries,    \* handlers at work at a time
    Tolerance,     \* between the timestamp and the clock: 5 minutes
    Keep,          \* lifetime of a nonce: 10 minutes
    Ahead,         \* how far the clock of a site's host is off
    HandlerDelay,  \* from the check of the timestamp to the insert of the nonce
    EndOfTime      \* bound

\* With a clock that is off by less than the difference of the two intervals.
ASSUME NonceAssumption ==
    /\ Messages # {}
    /\ {Tolerance, Keep, Ahead, HandlerDelay, EndOfTime} \subseteq Nat
    /\ Ahead + HandlerDelay < Keep - Tolerance

VARIABLES
    time,      \* now()
    message,   \* message[m]: whether it was sent, and its X-Timestamp
    delivery,  \* delivery[d]: the handler at work on a delivery of a request
    nonces,    \* report_nonces: expires_at of the nonces
    counted    \* counted[m]: how often the endpoint has accepted the request

nonceVars == <<time, message, delivery, nonces, counted>>

Unknown == 0  \* no row: a row expires after 0

NonceInit ==
    /\ time = 0
    /\ message = [m \in Messages |-> [sent |-> FALSE, timestamp |-> 0]]
    /\ delivery = [d \in Deliveries |-> [busy |-> FALSE, of |-> CHOOSE m \in Messages : TRUE,
                                         checked |-> 0]]
    /\ nonces = [m \in Messages |-> Unknown]
    /\ counted = [m \in Messages |-> 0]

\* reporter.send, with the clock of the site's host.
Send(m) ==
    /\ ~message[m].sent
    /\ \E t \in (time - Ahead)..(time + Ahead) :
          message' = [message EXCEPT ![m] = [sent |-> TRUE, timestamp |-> t]]
    /\ UNCHANGED <<time, delivery, nonces, counted>>

\* A delivery arrives and its timestamp is near enough; else nothing happens.
CheckTimestamp(d, m) ==
    /\ message[m].sent /\ ~delivery[d].busy
    /\ time - message[m].timestamp \in (-Tolerance)..Tolerance
    /\ delivery' = [delivery EXCEPT ![d] = [busy |-> TRUE, of |-> m, checked |-> time]]
    /\ UNCHANGED <<time, message, nonces, counted>>

\* Mutant: a nonce lives as long as its timestamp is accepted at the least.
ExpiresAtTolerance == time + Tolerance

ExpiresAt == time + Keep

\* INSERT ... ON CONFLICT DO NOTHING: only who inserts the nonce goes on.
ConsumeNonce(d) ==
    LET m == delivery[d].of
    IN  /\ delivery[d].busy
        /\ delivery' = [delivery EXCEPT ![d].busy = FALSE]
        /\ IF nonces[m] = Unknown
           THEN /\ nonces' = [nonces EXCEPT ![m] = ExpiresAt]
                /\ counted' = [counted EXCEPT ![m] = @ + 1]
           ELSE UNCHANGED <<nonces, counted>>
        /\ UNCHANGED <<time, message>>

\* The body cannot be read, the site is frozen or the signature is wrong.
DeliveryRefused(d) ==
    /\ delivery[d].busy
    /\ delivery' = [delivery EXCEPT ![d].busy = FALSE]
    /\ UNCHANGED <<time, message, nonces, counted>>

\* DELETE FROM report_nonces WHERE expires_at<=now()
ForgetNonces ==
    /\ nonces' = [m \in Messages |-> IF nonces[m] <= time THEN Unknown ELSE nonces[m]]
    /\ UNCHANGED <<time, message, delivery, counted>>

NonceTick ==
    /\ time < EndOfTime
    /\ \A d \in Deliveries : delivery[d].busy => time < delivery[d].checked + HandlerDelay
    /\ time' = time + 1
    /\ UNCHANGED <<message, delivery, nonces, counted>>

NonceNext ==
    \/ \E m \in Messages : Send(m) \/ \E d \in Deliveries : CheckTimestamp(d, m)
    \/ \E d \in Deliveries : ConsumeNonce(d) \/ DeliveryRefused(d)
    \/ ForgetNonces \/ NonceTick

NonceSpec == NonceInit /\ [][NonceNext]_nonceVars

-----------------------------------------------------------------------------
NonceTypeOK ==
    /\ time \in 0..EndOfTime
    /\ message \in [Messages -> [sent : BOOLEAN, timestamp : (-Ahead)..(EndOfTime + Ahead)]]
    /\ delivery \in [Deliveries -> [busy : BOOLEAN, of : Messages, checked : 0..EndOfTime]]
    /\ nonces \in [Messages -> 0..(EndOfTime + Keep)]
    /\ counted \in [Messages -> Nat]

\* However often a report is delivered, it is counted once: its nonce is known
\* for as long as its timestamp is accepted (VerifySiteSignature).
CountedOnce == \A m \in Messages : counted[m] <= 1
=============================================================================
