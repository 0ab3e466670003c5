----------------------------- MODULE AdminLogin -----------------------------
(***************************************************************************)
(* The lockout of the administration's login for one user name: requests   *)
(* count the failures of the last 15 minutes, compare the password and     *)
(* record the outcome, in statements of their own. A failure older than    *)
(* that is never read again and is left out; so are the sessions.          *)
(***************************************************************************)
EXTENDS Integers, FiniteSets

CONSTANTS
    Logins,       \* requests served at a time
    FailureLimit  \* 5

ASSUME LoginAssumption == FailureLimit \in Nat \ {0} /\ IsFiniteSet(Logins)

VARIABLES
    failures,  \* rows with succeeded=false of the last 15 minutes
    login      \* login[l]: what request l does next

loginVars == <<failures, login>>

LoginInit == failures = 0 /\ login = [l \in Logins |-> "count"]

\* Mutant: one failure too many is allowed.
LockedLate == failures > FailureLimit

Locked == failures >= FailureLimit

\* Mutant: the refused request is recorded as well.
RefuseRecorded(l) ==
    /\ login[l] = "count" /\ Locked
    /\ failures' = IF failures < FailureLimit + Cardinality(Logins) THEN failures + 1 ELSE failures
    /\ UNCHANGED login

\* ErrLoginLocked, which leaves no trace.
Refuse(l) ==
    /\ login[l] = "count" /\ Locked
    /\ UNCHANGED loginVars

CountFailures(l) ==
    /\ login[l] = "count" /\ ~Locked
    /\ login' = [login EXCEPT ![l] = "verify"]
    /\ UNCHANGED failures

\* The name is unknown or disabled, or the password is wrong, or neither.
VerifyPassword(l) ==
    /\ login[l] = "verify"
    /\ \E next \in {"record", "grant"} : login' = [login EXCEPT ![l] = next]
    /\ UNCHANGED failures

\* recordLoginAttempt, whose errors are ignored.
RecordLoginAttempt(l) ==
    /\ login[l] = "record"
    /\ login' = [login EXCEPT ![l] = "count"]
    /\ failures' \in {failures, failures + 1}

\* The transaction of a successful login, or its failure.
Grant(l) ==
    /\ login[l] = "grant"
    /\ login' = [login EXCEPT ![l] = "count"]
    /\ failures' \in {failures, 0}

\* The oldest failure is 15 minutes old.
FailureAges ==
    /\ failures > 0
    /\ failures' = failures - 1
    /\ UNCHANGED login

LoginNext ==
    \/ \E l \in Logins : \/ Refuse(l) \/ CountFailures(l) \/ VerifyPassword(l)
                         \/ RecordLoginAttempt(l) \/ Grant(l)
    \/ FailureAges

\* Time goes on.
LoginFairness == WF_loginVars(FailureAges)

LoginSpec == LoginInit /\ [][LoginNext]_loginVars /\ LoginFairness

-----------------------------------------------------------------------------
LoginTypeOK ==
    /\ failures \in 0..(FailureLimit - 1 + Cardinality(Logins))
    /\ login \in [Logins -> {"count", "verify", "record", "grant"}]

\* Counting and recording are not one step: guesses made at the same time get
\* past the limit, but never more of them than requests are served at a time.
GuessesBounded ==
    failures + Cardinality({l \in Logins : login[l] \in {"verify", "record"}})
        <= FailureLimit - 1 + Cardinality(Logins)

\* However often the locked user tries, the lock ends: the answer promises
\* that a retry after 15 minutes is heard (Login; auth/handler.go:39).
LockEnds == Locked ~> ~Locked
=============================================================================
