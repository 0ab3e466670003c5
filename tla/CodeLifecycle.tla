---------------------------- MODULE CodeLifecycle ----------------------------
(***************************************************************************)
(* Provision codes and what is opened with them: the rows of               *)
(* provision_codes, provision_sessions, domain_reservations and sites, as  *)
(* the public API (VerifyCode, ReserveDomain, CreateProvisionJob), the     *)
(* administrators, the periodic maintenance and the end of a provision or  *)
(* delete job change them.                                                 *)
(*                                                                         *)
(* An action is one transaction, with two exceptions.  VerifyCode and      *)
(* ReserveDomain read the code or the session first and open their         *)
(* transaction afterwards, with what they read in hand; and a transaction  *)
(* is READ COMMITTED, so a statement that locks nothing, the count of      *)
(* ReserveDomain, the FOR UPDATE of VerifyCode that finds no row, is a     *)
(* step of its own.  Execution of the provision job is JobQueue's subject: *)
(* here it succeeds or fails, and a failed one may be retried.             *)
(*                                                                         *)
(* Time is a flag per row: a session or a reservation is live until its    *)
(* expires_at, a code is overdue after its own, and a reserved code is     *)
(* stale when reserved_at is more than 30 minutes old.                     *)
(***************************************************************************)
EXTENDS Integers, FiniteSets

CONSTANTS
    Codes,      \* rows of provision_codes
    Callers,    \* browsers that know a code; a caller holds the tokens it got
    Sessions,   \* ids of provision_sessions, numbers in the order of created_at
    Domains,    \* full_domain values that may be asked for
    SiteIds,    \* ids of sites; a site and its provision job are one for one
    MaxSites,   \* max_sites of every code
    NoCode, NoCaller, NoSession, NoDomain, NoSiteId

ASSUME SessionsAssumption == Sessions \subseteq Nat
ASSUME MaxSitesAssumption == MaxSites \in 1..100

\* NULL is no id.
ASSUME NullAssumption ==
    /\ NoCode \notin Codes /\ NoSession \notin Sessions
    /\ NoDomain \notin Domains /\ NoSiteId \notin SiteIds

VARIABLES code, session, reservation, sites,
          call    \* call[u]: what the request of caller u has read so far

codesVars == <<code, session, reservation, sites, call>>

CodeStatus == {"unused", "reserved", "provisioning", "active", "failed",
               "revoked", "expired"}

Code == [status : CodeStatus \cup {"none", "deleted"}, used : 0..MaxSites,
         bound : SiteIds \cup {NoSiteId}, overdue : BOOLEAN, stale : BOOLEAN]

\* token: the caller that got the token whose hash the row holds.
\* job: bound_job_id, written as the site the job belongs to.
Session == [status : {"none", "active", "completed", "deleted"},
            code : Codes \cup {NoCode}, token : Callers \cup {NoCaller},
            live : BOOLEAN, reservation : Domains \cup {NoDomain},
            job : SiteIds \cup {NoSiteId}]

\* The row of a domain; owner NoSession means that there is none.
Reservation == [owner : Sessions \cup {NoSession}, live : BOOLEAN, consumed : BOOLEAN]

\* by: the session that made the site; job: its provision job, "again" when a
\* retry has queued it once more.
Site == [status : {"none", "open", "deleted"}, code : Codes \cup {NoCode},
         domain : Domains \cup {NoDomain}, job : {"none", "queued", "failed", "again", "done"},
         by : Sessions \cup {NoSession}]

\* domain: the one that ReserveDomain has found without a site.
Call == [op : {"none", "verify", "replace", "reserve", "counted"},
         code : Codes \cup {NoCode}, status : CodeStatus \cup {"none"},
         bound : SiteIds \cup {NoSiteId}, session : Sessions \cup {NoSession},
         domain : Domains \cup {NoDomain}]

CodesTypeOK ==
    /\ code \in [Codes -> Code]
    /\ session \in [Sessions -> Session]
    /\ reservation \in [Domains -> Reservation]
    /\ sites \in [SiteIds -> Site]
    /\ call \in [Callers -> Call]

NoRow == [owner |-> NoSession, live |-> FALSE, consumed |-> FALSE]
NoCall == [op |-> "none", code |-> NoCode, status |-> "none", bound |-> NoSiteId,
           session |-> NoSession, domain |-> NoDomain]
BlankSession(status) == [status |-> status, code |-> NoCode, token |-> NoCaller,
                         live |-> FALSE, reservation |-> NoDomain, job |-> NoSiteId]
NoSiteRow == [status |-> "none", code |-> NoCode, domain |-> NoDomain, job |-> "none",
              by |-> NoSession]

CodesInit ==
    /\ code = [c \in Codes |-> [status |-> "none", used |-> 0, bound |-> NoSiteId,
                                overdue |-> FALSE, stale |-> FALSE]]
    /\ session = [x \in Sessions |-> BlankSession("none")]
    /\ reservation = [d \in Domains |-> NoRow]
    /\ sites = [s \in SiteIds |-> NoSiteRow]
    /\ call = [u \in Callers |-> NoCall]

-----------------------------------------------------------------------------

LiveSessions(c) == {x \in Sessions : /\ session[x].code = c
                                     /\ session[x].status = "active"
                                     /\ session[x].live}

\* The next id of a session row.
IsNext(x) == /\ session[x].status = "none"
             /\ \A y \in Sessions : session[y].status = "none" => x <= y

\* Rows that hold reservation_id are set to NULL when the reservation goes.
WithoutReservations(S, gone) ==
    [x \in Sessions |-> IF S[x].reservation \in gone
                        THEN [S[x] EXCEPT !.reservation = NoDomain] ELSE S[x]]

\* Deleting the sessions in dead cascades to the reservations they own; the
\* reservations in more go too.
DropSessions(dead, more) ==
    LET gone == more \cup {d \in Domains : reservation[d].owner \in dead}
    IN  /\ session' = WithoutReservations(
                          [x \in Sessions |-> IF x \in dead THEN BlankSession("deleted")
                                              ELSE session[x]], gone)
        /\ reservation' = [d \in Domains |-> IF d \in gone THEN NoRow
                                             ELSE reservation[d]]

OpenOn(d) == \E s \in SiteIds : sites[s].status = "open" /\ sites[s].domain = d

-----------------------------------------------------------------------------
(* Administrators.                                                         *)

CreateCode(c) ==
    /\ code[c].status = "none"
    /\ code' = [code EXCEPT ![c].status = "unused"]
    /\ UNCHANGED <<session, reservation, sites, call>>

RevokeCode(c) ==
    /\ code[c].status \in {"unused", "reserved", "failed"}
    /\ code' = [code EXCEPT ![c].status = "revoked"]
    /\ UNCHANGED <<session, reservation, sites, call>>

\* Refused by the foreign key while a site still refers to the code.
DeleteCode(c) ==
    /\ code[c].status = "unused"
    /\ \A s \in SiteIds : ~ (sites[s].status = "open" /\ sites[s].code = c)
    /\ code' = [code EXCEPT ![c].status = "deleted", ![c].bound = NoSiteId]
    /\ DropSessions({x \in Sessions : session[x].code = c}, {})
    /\ UNCHANGED <<sites, call>>

-----------------------------------------------------------------------------
(* VerifyCode: the code is read, then the session is resumed or made.      *)

VerifyRead(u, c) ==
    /\ call[u].op = "none"
    /\ code[c].status \in CodeStatus
    /\ ~ code[c].overdue
    /\ call' = [call EXCEPT ![u] = [NoCall EXCEPT !.op = "verify", !.code = c,
                                                  !.status = code[c].status,
                                                  !.bound = code[c].bound]]
    /\ UNCHANGED <<code, session, reservation, sites>>

NewSession(u, c, status, job) ==
    [BlankSession(status) EXCEPT !.code = c, !.token = u, !.live = TRUE, !.job = job]

\* The code was reserved: its latest live session gets a new token.
VerifyResume(u) ==
    LET c == call[u].code IN
    /\ call[u].op = "verify"
    /\ call[u].status = "reserved"
    /\ \E x \in LiveSessions(c) :
         /\ \A y \in LiveSessions(c) : y <= x
         /\ session' = [session EXCEPT ![x].token = u]
    /\ call' = [call EXCEPT ![u] = NoCall]
    /\ UNCHANGED <<code, reservation, sites>>

\* The code was reserved and no session of it is live.  FOR UPDATE locks nothing
\* then, so another request may find the same.
VerifyFindsNone(u) ==
    /\ call[u].op = "verify"
    /\ call[u].status = "reserved"
    /\ LiveSessions(call[u].code) = {}
    /\ call' = [call EXCEPT ![u].op = "replace"]
    /\ UNCHANGED <<code, session, reservation, sites>>

\* A new session is made.  That reserved_at is left alone when the code is no
\* longer reserved goes unnoticed.
VerifyReplace(u) ==
    LET c == call[u].code IN
    /\ call[u].op = "replace"
    /\ code[c].status \in CodeStatus
    /\ \E x \in Sessions : IsNext(x)
                           /\ session' = [session EXCEPT
                                             ![x] = NewSession(u, c, "active", NoSiteId)]
    /\ code' = IF code[c].status = "reserved" THEN [code EXCEPT ![c].stale = FALSE]
                                              ELSE code
    /\ call' = [call EXCEPT ![u] = NoCall]
    /\ UNCHANGED <<reservation, sites>>

\* The code has been used: a finished session shows the job of its site.
VerifyReturn(u) ==
    LET c == call[u].code IN
    /\ call[u].op = "verify"
    /\ call[u].status \in {"active", "provisioning", "failed"}
    /\ code[c].status \in CodeStatus
    /\ \E x \in Sessions : IsNext(x)
                           /\ session' = [session EXCEPT
                                   ![x] = NewSession(u, c, "completed", call[u].bound)]
    /\ call' = [call EXCEPT ![u] = NoCall]
    /\ UNCHANGED <<code, reservation, sites>>

\* The code had another status: reserve it, if it is unused now.
VerifyReserve(u) ==
    LET c == call[u].code IN
    /\ call[u].op = "verify"
    /\ call[u].status \in {"unused", "revoked", "expired"}
    /\ code[c].status = "unused"
    /\ code' = [code EXCEPT ![c].status = "reserved", ![c].stale = FALSE]
    /\ \E x \in Sessions : IsNext(x)
                           /\ session' = [session EXCEPT
                                             ![x] = NewSession(u, c, "active", NoSiteId)]
    /\ call' = [call EXCEPT ![u] = NoCall]
    /\ UNCHANGED <<reservation, sites>>

\* A request ends in an error, or its client goes away.
CallFails(u) ==
    /\ call[u].op # "none"
    /\ call' = [call EXCEPT ![u] = NoCall]
    /\ UNCHANGED <<code, session, reservation, sites>>

-----------------------------------------------------------------------------
(* ReserveDomain and CreateProvisionJob.                                   *)

ReserveRead(u, x) ==
    /\ call[u].op = "none"
    /\ session[x].token = u
    /\ session[x].status = "active"
    /\ session[x].live
    /\ call' = [call EXCEPT ![u] = [NoCall EXCEPT !.op = "reserve", !.session = x]]
    /\ UNCHANGED <<code, session, reservation, sites>>

\* The sites are counted, in a statement that locks nothing: until the upsert
\* another request may open a site on the domain.
ReserveCount(u, d) ==
    /\ call[u].op = "reserve"
    /\ ~ OpenOn(d)
    /\ call' = [call EXCEPT ![u].op = "counted", ![u].domain = d]
    /\ UNCHANGED <<code, session, reservation, sites>>

\* Mutant of MayReserve: a live reservation of another session is overwritten.
MayOverwrite(x, d) == ~ reservation[d].consumed

\* The upsert finds no row, a row of the session itself, or one that has expired
\* unused.
MayReserve(x, d) ==
    \/ reservation[d].owner \in {NoSession, x}
    \/ ~ reservation[d].live /\ ~ reservation[d].consumed

\* Mutant of StillActive: the session need only exist when it takes the domain.
StillThere(x) == session[x].status # "deleted"

StillActive(x) == session[x].status = "active"

\* The upsert and the update of the session lock their rows to the end of the
\* transaction.  Its now() is that of the BEGIN, so it refuses a row that expired
\* after that; here the request may take the row or fail (CallFails).
ReserveDomain(u) ==
    LET x == call[u].session
        d == call[u].domain
    IN  /\ call[u].op = "counted"
        /\ MayReserve(x, d)
        /\ StillActive(x)
        /\ reservation' = [reservation EXCEPT
                              ![d] = [owner |-> x, live |-> TRUE, consumed |-> FALSE]]
        /\ session' = [session EXCEPT ![x].reservation = d]
        /\ call' = [call EXCEPT ![u] = NoCall]
        /\ UNCHANGED <<code, sites>>

\* Mutant: the session does not remember its job.
SessionStays(x, s) == UNCHANGED session

CompleteSession(x, s) ==
    session' = [session EXCEPT ![x].status = "completed", ![x].job = s]

\* The status of the code and max_sites play no part.  A session that has a job
\* already gets that job back, and nothing changes.
OpenSite(u, x, s) ==
    LET d == session[x].reservation
        c == session[x].code
    IN  /\ call[u].op = "none"
        /\ session[x].token = u
        /\ session[x].status \in {"active", "completed"}
        /\ session[x].live
        /\ session[x].job = NoSiteId
        /\ d # NoDomain
        /\ reservation[d] = [owner |-> x, live |-> TRUE, consumed |-> FALSE]
        /\ ~ OpenOn(d)
        /\ sites[s].status = "none"
        /\ sites' = [sites EXCEPT ![s] = [status |-> "open", code |-> c, domain |-> d,
                                        job |-> "queued", by |-> x]]
        /\ code' = [code EXCEPT ![c].status = "provisioning", ![c].bound = s]
        /\ reservation' = [reservation EXCEPT ![d].consumed = TRUE]
        /\ CompleteSession(x, s)
        /\ UNCHANGED call

-----------------------------------------------------------------------------
(* The end of a job, as far as it touches codes, sessions and domains.     *)

CodesBoundTo(s) == {c \in Codes : code[c].bound = s}

UsedCode(k) == [k EXCEPT !.status = "active",
                         !.used = IF @ < MaxSites THEN @ + 1 ELSE @]

\* Once the site is deleted no code is bound to it, and the job, if it still
\* runs, ends without an effect on codes.
ProvisionSucceeds(s) ==
    /\ sites[s].job \in {"queued", "again"}
    /\ sites' = [sites EXCEPT ![s].job = "done"]
    /\ code' = [c \in Codes |-> IF c \in CodesBoundTo(s) THEN UsedCode(code[c])
                                                           ELSE code[c]]
    /\ UNCHANGED <<session, reservation, call>>

ProvisionFails(s) ==
    /\ sites[s].job \in {"queued", "again"}
    /\ sites' = [sites EXCEPT ![s].job = "failed"]
    /\ code' = [c \in Codes |-> IF c \in CodesBoundTo(s)
                                THEN [code[c] EXCEPT !.status = "failed"]
                                ELSE code[c]]
    /\ UNCHANGED <<session, reservation, call>>

\* RetryJob looks at neither the site nor its other jobs.
RetryProvision(s) ==
    /\ sites[s].job = "failed"
    /\ sites' = [sites EXCEPT ![s].job = "again"]
    /\ UNCHANGED <<code, session, reservation, call>>

\* Mutants of ReleasedCode: used_sites falls below zero; bound_site_id keeps
\* naming the deleted site.
ReleasedCodeBelowZero(k, s) ==
    [k EXCEPT !.used = @ - 1,
              !.status = IF k.overdue THEN "expired"
                         ELSE IF k.used <= 1 THEN "unused" ELSE "active",
              !.bound = IF @ = s THEN NoSiteId ELSE @,
              !.stale = @ /\ k.used > 1]
ReleasedCodeStillBound(k, s) ==
    LET left == IF k.used > 0 THEN k.used - 1 ELSE 0
    IN  [k EXCEPT !.used = left,
                  !.status = IF k.overdue THEN "expired"
                             ELSE IF left = 0 THEN "unused" ELSE "active",
                  !.stale = @ /\ left > 0]

\* The row k of the code of site s once the site is deleted.
ReleasedCode(k, s) ==
    LET left == IF k.used > 0 THEN k.used - 1 ELSE 0
    IN  [k EXCEPT !.used = left,
                  !.status = IF k.overdue THEN "expired"
                             ELSE IF left = 0 THEN "unused" ELSE "active",
                  !.bound = IF @ = s THEN NoSiteId ELSE @,
                  !.stale = @ /\ left > 0]

\* A delete job is not accepted while the provision job is active, but a retry
\* may queue the provision job again behind it.
FinalizeSiteDeletion(s) ==
    /\ sites[s].status = "open"
    /\ sites[s].job # "queued"
    /\ DropSessions({x \in Sessions : session[x].job = s},
                    {sites[s].domain})
    /\ code' = [code EXCEPT ![sites[s].code] = ReleasedCode(@, s)]
    /\ sites' = [sites EXCEPT ![s].status = "deleted", ![s].domain = NoDomain,
                            ![s].code = NoCode]
    /\ UNCHANGED call

-----------------------------------------------------------------------------
(* Maintenance and time.                                                   *)

\* Mutant of SweptCode: a reservation that was abandoned stays.
SweptCodeKeepsStale(k) ==
    [k EXCEPT !.status = IF k.overdue /\ @ \in {"unused", "reserved"} THEN "expired"
                         ELSE @]

SweptCode(k) ==
    CASE k.overdue /\ k.status \in {"unused", "reserved"} ->
           [k EXCEPT !.status = "expired"]
      [] ~ k.overdue /\ k.status = "reserved" /\ k.stale ->
           [k EXCEPT !.status = "unused", !.stale = FALSE]
      [] OTHER -> k

RunMaintenance ==
    /\ DropSessions({x \in Sessions : session[x].status = "active" /\ ~ session[x].live},
                    {d \in Domains : ~ reservation[d].live})
    /\ code' = [c \in Codes |-> SweptCode(code[c])]
    /\ UNCHANGED <<sites, call>>

SessionExpires(x) ==
    /\ session[x].live
    /\ session' = [session EXCEPT ![x].live = FALSE]
    /\ UNCHANGED <<code, reservation, sites, call>>

ReservationExpires(d) ==
    /\ reservation[d].live
    /\ reservation' = [reservation EXCEPT ![d].live = FALSE]
    /\ UNCHANGED <<code, session, sites, call>>

CodeExpires(c) ==
    /\ code[c].status \in CodeStatus
    /\ ~ code[c].overdue
    /\ code' = [code EXCEPT ![c].overdue = TRUE]
    /\ UNCHANGED <<session, reservation, sites, call>>

\* A session lives 30 minutes from about when reserved_at was set.  VerifyReserve
\* computes its expiry before the now() of its transaction and VerifyReplace some
\* milliseconds after it; these milliseconds are left out, and the session has
\* expired by the time reserved_at is 30 minutes old.
ReservedTooLong(c) ==
    /\ code[c].status = "reserved"
    /\ ~ code[c].stale
    /\ LiveSessions(c) = {}
    /\ code' = [code EXCEPT ![c].stale = TRUE]
    /\ UNCHANGED <<session, reservation, sites, call>>

-----------------------------------------------------------------------------

Verify(u) == \/ \E c \in Codes : VerifyRead(u, c)
             \/ VerifyResume(u) \/ VerifyFindsNone(u) \/ VerifyReplace(u) \/ VerifyReturn(u)
             \/ VerifyReserve(u)

Caller(u) == \/ Verify(u)
             \/ CallFails(u)
             \/ \E x \in Sessions : ReserveRead(u, x)
             \/ \E d \in Domains : ReserveCount(u, d)
             \/ ReserveDomain(u)
             \/ \E x \in Sessions, s \in SiteIds : OpenSite(u, x, s)

Admin(c) == CreateCode(c) \/ RevokeCode(c) \/ DeleteCode(c)

JobEnds(s) == \/ ProvisionSucceeds(s) \/ ProvisionFails(s) \/ RetryProvision(s)
              \/ FinalizeSiteDeletion(s)

Time == \/ \E x \in Sessions : SessionExpires(x)
        \/ \E d \in Domains : ReservationExpires(d)
        \/ \E c \in Codes : CodeExpires(c) \/ ReservedTooLong(c)

CodesNext ==
    \/ \E u \in Callers : Caller(u)
    \/ \E c \in Codes : Admin(c)
    \/ \E s \in SiteIds : JobEnds(s)
    \/ RunMaintenance
    \/ Time

CodesSpec == CodesInit /\ [][CodesNext]_codesVars

\* The worker runs the maintenance every minute, and time passes.
CodesFairness ==
    /\ WF_codesVars(RunMaintenance)
    /\ \A c \in Codes : WF_codesVars(ReservedTooLong(c))

CodesFairSpec == CodesSpec /\ CodesFairness

-----------------------------------------------------------------------------
(* Properties.                                                             *)

Holds(x, d) == reservation[d] = [owner |-> x, live |-> TRUE, consumed |-> FALSE]

\* A live reservation cannot be taken away: until it expires the domain passes
\* to nobody else, its row goes only with its session or with a site that had the
\* domain, and no other session makes a site on it.
DomainKept ==
    [][\A x \in Sessions, d \in Domains :
          Holds(x, d) =>
              /\ reservation'[d].owner \in {x, NoSession}
              /\ reservation'[d].owner = NoSession =>
                    \/ session'[x].status = "deleted"
                    \/ \E s \in SiteIds : sites[s].domain = d /\ sites'[s].status = "deleted"
              /\ \A s \in SiteIds : sites'[s].domain = d /\ sites[s].domain # d
                                        => sites'[s].by = x]_codesVars

\* A reservation is used up exactly as long as its session has a site on it: a
\* ReserveDomain that was under way while the site was made does not revive it,
\* and none outlives its site (consumed_at is set, cleared or dropped in four places).
SpentWithItsSite ==
    \A d \in Domains, x \in Sessions : reservation[d].owner = x =>
        (reservation[d].consumed <=>
            \E s \in SiteIds : sites[s].domain = d /\ sites[s].by = x)

\* However often a visitor sends the form, and also after the site was deleted, a
\* session opens one site (CreateProvisionJob, FOR UPDATE of the session).
SessionOpensOnce ==
    \A s, t \in SiteIds :
        sites[s].by = sites[t].by /\ sites[s].by # NoSession => s = t

OpenSitesOf(c) == {s \in SiteIds : sites[s].status = "open" /\ sites[s].code = c}

\* A code in use leads back to its site, through failures, retries and deletions:
\* the site it is bound to is one of its own and not deleted, VerifyCode finds
\* the job of a site that is not ready, and a used code has a site.
CodeKnowsItsSite ==
    \A c \in Codes :
        /\ code[c].bound # NoSiteId => code[c].bound \in OpenSitesOf(c)
        /\ code[c].status \in {"provisioning", "failed"} => code[c].bound # NoSiteId
        /\ code[c].status = "active" => OpenSitesOf(c) # {}

\* A reservation that nobody can use any more ends by itself.
AbandonedCodeReturns ==
    \A c \in Codes :
        code[c].status = "reserved" /\ LiveSessions(c) = {}
        ~> code[c].status # "reserved" \/ LiveSessions(c) # {}

\* A code that was revoked stays revoked.
RevokedStaysRevoked ==
    [][\A c \in Codes : code[c].status = "revoked" => code'[c].status = "revoked"]_codesVars

\* A code opens at most max_sites sites at a time.
SitesWithinQuota ==
    \A c \in Codes : Cardinality(OpenSitesOf(c)) <= MaxSites
=============================================================================
