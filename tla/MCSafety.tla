------------------------------ MODULE MCSafety -------------------------------
(***************************************************************************)
(* Small instances of parts that share no state, checked side by side for  *)
(* what they must never do: a behaviour chooses one part and leaves the    *)
(* others as they begin, so that the states add up instead of multiplying. *)
(***************************************************************************)
EXTENDS JobQueue, CodeLifecycle, RateLimit, ReportNonce, SiteSecrets, TLC

CONSTANTS c1, c2

\* The other address is there to make the map overflow.
MCMaxRequests == [c \in {c1, c2} |-> IF c = c1 THEN 5 ELSE 2]

\* The jobs of one agent process.  A backup is announced by one call, two calls
\* stand for the others.
MCWorkerId == [a \in Agents |-> "agent"]
MCSteps == [t \in OpTypes \cup {"provision"} |-> IF t = "backup" THEN 1 ELSE 2]

VARIABLE part

\* Callers, domains and sites are interchangeable; sessions and jobs are ordered.
RowSymmetry == Permutations(Callers) \cup Permutations(Domains) \cup Permutations(SiteIds)

SafetyInit ==
    /\ part \in {"queue", "code", "race", "rate", "nonce", "secrets"}
    /\ Init /\ CodesInit /\ RateInit /\ NonceInit /\ SecretsInit

QueueStep ==
    /\ part = "queue" /\ Next
    /\ UNCHANGED <<part, codesVars, rateVars, nonceVars, secretVars>>
\* The codes have two instances.  One has two sessions, domains and sites; the
\* other three sessions, one site, one domain at a time and a code that does not
\* run out, because only among three may the site of one session appear while
\* another has the domain counted, and the row of the first be swept before that
\* other one's upsert.
InUse(d) == reservation[d].owner # NoSession \/ \E u \in Callers : call[u].domain = d
TwoSessions == session[3].status = "none"
OneDomain == /\ \A d, e \in Domains : InUse(d) /\ InUse(e) => d = e
             /\ \A s, t \in SiteIds :
                   sites[s].status # "none" /\ sites[t].status # "none" => s = t
             /\ \A c \in Codes : ~ code[c].overdue
CodeStep ==
    /\ part \in {"code", "race"} /\ CodesNext
    /\ IF part = "code" THEN TwoSessions' ELSE OneDomain'
    /\ UNCHANGED <<part, vars, rateVars, nonceVars, secretVars>>
RateStep ==
    /\ part = "rate" /\ RateNext
    /\ UNCHANGED <<part, vars, codesVars, nonceVars, secretVars>>
NonceStep ==
    /\ part = "nonce" /\ NonceNext
    /\ UNCHANGED <<part, vars, codesVars, rateVars, secretVars>>
SecretsStep ==
    /\ part = "secrets" /\ SecretsNext
    /\ UNCHANGED <<part, vars, codesVars, rateVars, nonceVars>>

SafetyNext == QueueStep \/ CodeStep \/ RateStep \/ NonceStep \/ SecretsStep

SafetySpec ==
    SafetyInit /\ [][SafetyNext]_<<part, vars, codesVars, rateVars, nonceVars, secretVars>>

\* The rows, buckets, nonces and passwords keep their shape.
SafetyTypeOK == CodesTypeOK /\ RateTypeOK /\ NonceTypeOK /\ SecretsTypeOK
=============================================================================
