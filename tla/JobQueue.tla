------------------------------ MODULE JobQueue ------------------------------
(***************************************************************************)
(* The queue of deployment jobs: the rows of deployment_jobs, the API      *)
(* handlers that insert and retry jobs, and the agent processes that       *)
(* claim, execute, complete and fail them under a lease.                   *)
(*                                                                         *)
(* Every action is one database transaction, or one external operation of  *)
(* an agent between two transactions.  CreateSiteJob is two actions,       *)
(* because a retry may commit between its count of active jobs and its     *)
(* insert.  Of the row of a site this module keeps whether it exists and   *)
(* whether deleted_at is set; the columns status and route_status, which   *)
(* the same transactions also write, are the subject of another module.    *)
(*                                                                         *)
(* There is no clock.  A lease is "live" until LeaseExpires makes it       *)
(* "expired", which may happen at any time: the holder may be paused or    *)
(* cut off from the database for longer than the lease.  Renewing a lease  *)
(* that is live leaves it live; a renewal sent in time and carried out     *)
(* late makes an expired one live again.                                   *)
(***************************************************************************)
EXTENDS Integers, FiniteSets

CONSTANTS
    Jobs,         \* identifiers of job rows: numbers in the order of created_at
    Sites,        \* identifiers of site rows
    OpTypes,      \* job types of CreateSiteJob in use, a subset of AllOpTypes
    Agents,       \* agent processes
    WorkerId,     \* the AGENT_ID of each process; two may share one
    MaxAttempts,  \* max_attempts of every row (3 in the migrations)
    Steps,        \* number of advance calls in the execution of each job type
    NoSite,       \* site_id of a row that is not inserted yet
    NoWorker      \* worker_id NULL

AllOpTypes == {"start", "stop", "restart", "freeze", "unfreeze", "backup",
               "upgrade", "delete"}

ASSUME JobsAssumption == Jobs \subseteq Nat \ {0}
ASSUME OpTypesAssumption == OpTypes \subseteq AllOpTypes
ASSUME MaxAttemptsAssumption == MaxAttempts \in Nat \ {0}
ASSUME StepsAssumption == Steps \in [OpTypes \cup {"provision"} -> Nat \ {0}]
ASSUME NullsAssumption == /\ NoSite \notin Sites
                          /\ \A a \in Agents : WorkerId[a] # NoWorker

Types == OpTypes \cup {"provision"}
NoJob == 0
NoType == "none"

VARIABLES
    job,      \* job[j]: the row of deployment_jobs
    site,     \* site[s]: "absent", "present", or "deleted" (deleted_at set)
    opening,  \* opening[s]: type of the CreateSiteJob transaction that holds
              \* the lock of row s and has counted no active job, or NoType
    agent     \* agent[a]: what process a is doing

vars == <<job, site, opening, agent>>

Workers == {WorkerId[a] : a \in Agents}

Row == [status  : {"none", "pending", "running", "completed", "failed"},
        type    : Types \cup {NoType},
        site    : Sites \cup {NoSite},
        attempt : 0..MaxAttempts,
        version : 0..MaxAttempts,                  \* lease_version
        worker  : Workers \cup {NoWorker},
        lease   : {"none", "live", "expired"},
        retryable : BOOLEAN]

\* pc: where the process is in Run; job, version: the ClaimedJob in its hands;
\* step: advance calls it made for it; ctx: the context its external commands
\* run under ("lost": cancelled by the renewal goroutine, "stop": SIGTERM).
Process == [pc      : {"idle", "advance", "work", "complete", "closing", "failing"},
            job     : Jobs \cup {NoJob},
            version : 0..MaxAttempts,
            step    : Nat,
            ctx     : {"live", "lost", "stop"}]

AbsentRow == [status |-> "none", type |-> NoType, site |-> NoSite,
              attempt |-> 0, version |-> 0, worker |-> NoWorker,
              lease |-> "none", retryable |-> TRUE]

FreshProcess == [pc |-> "idle", job |-> NoJob, version |-> 0, step |-> 0,
                 ctx |-> "live"]

TypeOK == /\ job \in [Jobs -> Row]
          /\ site \in [Sites -> {"absent", "present", "deleted"}]
          /\ opening \in [Sites -> OpTypes \cup {NoType}]
          /\ agent \in [Agents -> Process]

Init == /\ job = [j \in Jobs |-> AbsentRow]
        /\ site = [s \in Sites |-> "absent"]
        /\ opening = [s \in Sites |-> NoType]
        /\ agent = [a \in Agents |-> FreshProcess]

-----------------------------------------------------------------------------
(* Rows.                                                                   *)

Active(j) == job[j].status \in {"pending", "running"}
ActiveOn(s) == {j \in Jobs : Active(j) /\ job[j].site = s}

PendingRow(s, t) == [AbsentRow EXCEPT !.status = "pending", !.type = t, !.site = s]

\* Mutant of IndexAdmits: there is no index.
NoIndex(s, t) == TRUE

\* The unique index idx_active_site_operation lets a job of type t of site s
\* become active: another active operation of the site is refused, an active
\* provision job is not in the index.
IndexAdmits(s, t) ==
    t \in OpTypes => ~ \E i \in ActiveOn(s) : job[i].type \in OpTypes

-----------------------------------------------------------------------------
(* The API.                                                                *)

\* CreateProvisionJob inserts a site and its provision job in one transaction.
CreateProvisionJob(s, j) ==
    /\ site[s] = "absent"
    /\ job[j].status = "none"
    /\ site' = [site EXCEPT ![s] = "present"]
    /\ job' = [job EXCEPT ![j] = PendingRow(s, "provision")]
    /\ UNCHANGED <<opening, agent>>

\* CreateSiteJob locks the row of the site and counts its active jobs.
CreateSiteJobCheck(s, t) ==
    /\ site[s] = "present"
    /\ opening[s] = NoType
    /\ ActiveOn(s) = {}
    /\ opening' = [opening EXCEPT ![s] = t]
    /\ UNCHANGED <<job, site, agent>>

CreateSiteJobInsert(s, j) ==
    /\ opening[s] # NoType
    /\ job[j].status = "none"
    /\ IndexAdmits(s, opening[s])
    /\ job' = [job EXCEPT ![j] = PendingRow(s, opening[s])]
    /\ opening' = [opening EXCEPT ![s] = NoType]
    /\ UNCHANGED <<site, agent>>

\* The insert is refused by the index, or the transaction breaks.
CreateSiteJobRollback(s) ==
    /\ opening[s] # NoType
    /\ opening' = [opening EXCEPT ![s] = NoType]
    /\ UNCHANGED <<job, site, agent>>

RetryJob(j) ==
    /\ job[j].retryable
    /\ job[j].attempt < MaxAttempts
    /\ job[j].status = "failed"
    /\ IndexAdmits(job[j].site, job[j].type)
    /\ job' = [job EXCEPT ![j].status = "pending", ![j].worker = NoWorker,
                          ![j].lease = "none"]
    /\ UNCHANGED <<site, opening, agent>>

-----------------------------------------------------------------------------
(* The agent.                                                              *)

\* Mutants of Claimable: attempts are not limited; nobody takes over; the last
\* attempt is never given.
ClaimableForever(j) == \/ job[j].status = "pending"
                       \/ job[j].status = "running" /\ job[j].lease = "expired"
ClaimableOnce(j) == /\ job[j].attempt < MaxAttempts
                    /\ job[j].status = "pending"
ClaimableButLast(j) == /\ job[j].attempt + 1 < MaxAttempts
                       /\ \/ job[j].status = "pending"
                          \/ job[j].status = "running" /\ job[j].lease = "expired"

Claimable(j) == /\ job[j].attempt < MaxAttempts
                /\ \/ job[j].status = "pending"
                   \/ job[j].status = "running" /\ job[j].lease = "expired"

\* Mutant of ClaimedRow: the version is left as it is.
ClaimedRowSameVersion(row, a) ==
    [row EXCEPT !.status = "running", !.worker = WorkerId[a], !.lease = "live",
                !.attempt = @ + 1]

ClaimedRow(row, a) ==
    [row EXCEPT !.status = "running", !.worker = WorkerId[a], !.lease = "live",
                !.attempt = @ + 1, !.version = @ + 1]

\* The oldest claimable job.  A process asked to stop may still take one: the
\* select of Run picks any ready channel.
ClaimNextJob(a) ==
    /\ agent[a].pc = "idle"
    /\ \E j \in Jobs :
         /\ Claimable(j)
         /\ \A i \in Jobs : Claimable(i) => j <= i
         /\ job' = [job EXCEPT ![j] = ClaimedRow(@, a)]
         /\ agent' = [agent EXCEPT ![a].pc = "advance", ![a].job = j,
                                   ![a].version = job'[j].version,
                                   ![a].step = 0]
    /\ UNCHANGED <<site, opening>>

\* Mutants of ClaimStands: the claim is known by the worker only; a job that has
\* ended is written again.
ClaimedByWorker(a) ==
    LET row == job[agent[a].job]
    IN  row.status = "running" /\ row.worker = WorkerId[a]
ClaimedOnceBefore(a) ==
    LET row == job[agent[a].job]
    IN  row.worker = WorkerId[a] /\ row.version = agent[a].version

\* The condition every write of an execution carries: WHERE status='running'
\* AND worker_id=? AND lease_version=? AND lease_until>now().
ClaimStands(a) ==
    LET row == job[agent[a].job]
    IN  /\ row.status = "running"
        /\ row.worker = WorkerId[a]
        /\ row.version = agent[a].version

Fence(a) == ClaimStands(a) /\ job[agent[a].job].lease = "live"

Executing(a) == agent[a].pc \in {"advance", "work", "complete", "closing"}

\* The process is done with its job and polls again; the context of the
\* execution ends with it, the context of the process does not.
Idle(a) == [FreshProcess EXCEPT !.ctx = IF agent[a].ctx = "stop" THEN "stop" ELSE "live"]

\* Mutant of SiteLoads: deleted_at is not looked at.
SiteLoadsAlways(a) == site[job[agent[a].job].site] # "absent"

\* loadSite refuses a deleted site: an operation calls it before its first
\* advance, a provision job after it.
SiteLoads(a) == site[job[agent[a].job].site] = "present"

Advance(a) ==
    /\ agent[a].pc = "advance"
    /\ agent[a].step = 0 /\ job[agent[a].job].type # "provision" => SiteLoads(a)
    /\ agent' = IF Fence(a)
                THEN [agent EXCEPT ![a].pc = "work", ![a].step = @ + 1]
                ELSE [agent EXCEPT ![a].pc = "failing"]
    /\ UNCHANGED <<job, site, opening>>

\* The external commands of a step succeed; they run under the context.  A step
\* that runs none needs no context in the code; here it fails as the next one would.
Work(a) ==
    LET type == job[agent[a].job].type IN
    /\ agent[a].pc = "work"
    /\ agent[a].ctx = "live"
    /\ agent[a].step = 1 /\ type = "provision" => SiteLoads(a)
    /\ agent' = [agent EXCEPT ![a].pc = IF agent[a].step < Steps[type]
                                        THEN "advance" ELSE "complete"]
    /\ UNCHANGED <<job, site, opening>>

\* A command, a check or a statement of the execution returns an error.
ExecutionFails(a) ==
    /\ Executing(a)
    /\ agent' = [agent EXCEPT ![a].pc = "failing"]
    /\ UNCHANGED <<job, site, opening>>

\* Mutant of MayRenew: a renewal names the worker and not the version.
MayRenewAsWorker(a) == ClaimedByWorker(a)

\* The rows a renewal finds.  It decides lease_until>now() by the time it was sent
\* and the rest by the row as it is when it gets there.
MayRenew(a) == ClaimStands(a)

\* A renewal that was sent while the lease was live is carried out after it ran
\* out.  One that is still on the way when the context ends came before that.
RenewLate(a) ==
    LET j == agent[a].job IN
    /\ Executing(a)
    /\ agent[a].ctx = "live"
    /\ MayRenew(a)
    /\ job[j].lease = "expired"
    /\ job' = [job EXCEPT ![j].lease = "live"]
    /\ UNCHANGED <<site, opening, agent>>

\* The renewal goroutine finds that the lease is gone, or gets an error, and
\* cancels the context.
RenewFails(a) ==
    /\ Executing(a)
    /\ agent[a].ctx = "live"
    /\ agent' = [agent EXCEPT ![a].ctx = "lost"]
    /\ UNCHANGED <<job, site, opening>>

EndedRow(row, status, retryable) ==
    [row EXCEPT !.status = status, !.lease = "none", !.retryable = retryable]

\* The closing transaction begins.  Its now() is this moment, so this is where
\* lease_until>now() is decided, however long the transaction then waits.
BeginComplete(a) ==
    /\ agent[a].pc = "complete"
    /\ agent' = [agent EXCEPT ![a].pc = IF Fence(a) THEN "closing" ELSE "failing"]
    /\ UNCHANGED <<job, site, opening>>

\* It commits if the claim still stands.  It also writes the row of the site,
\* so it waits for a CreateSiteJob that holds it.  The answer to the COMMIT may
\* be lost: then the process goes on to report a failure of a completed job.
Complete(a) ==
    LET j == agent[a].job IN
    /\ agent[a].pc = "closing"
    /\ \/ /\ ClaimStands(a)
          /\ opening[job[j].site] = NoType
          /\ job' = [job EXCEPT ![j] = EndedRow(@, "completed", @.retryable)]
          /\ site' = [site EXCEPT ![job[j].site] =
                         IF job[j].type = "delete" THEN "deleted" ELSE @]
          /\ \/ agent' = [agent EXCEPT ![a] = Idle(a)]
             \/ agent' = [agent EXCEPT ![a].pc = "failing"]
       \/ /\ ~ ClaimStands(a)
          /\ agent' = [agent EXCEPT ![a].pc = "failing"]
          /\ UNCHANGED <<job, site>>
    /\ UNCHANGED opening

\* FailJob of the worker loop.  When it is refused or cannot reach the
\* database the error is only logged.
FailJob(a) ==
    LET j == agent[a].job IN
    /\ agent[a].pc = "failing"
    /\ \/ /\ Fence(a)
          /\ opening[job[j].site] = NoType
          /\ job' = [job EXCEPT ![j] = EndedRow(@, "failed", @.attempt < MaxAttempts)]
       \/ UNCHANGED job
    /\ agent' = [agent EXCEPT ![a] = Idle(a)]
    /\ UNCHANGED <<site, opening>>

\* The process dies, with what it had in memory, and is started again.  What it
\* has sent to the database has been carried out by then, or never will be.
Crash(a) ==
    /\ agent[a].pc # "idle"
    /\ agent' = [agent EXCEPT ![a] = FreshProcess]
    /\ UNCHANGED <<job, site, opening>>

\* SIGTERM cancels the context of Run and of the execution under way.
RequestStop(a) ==
    /\ agent[a].ctx # "stop"
    /\ agent' = [agent EXCEPT ![a].ctx = "stop"]
    /\ UNCHANGED <<job, site, opening>>

\* Run returns, and the container is started again.
StopAndRestart(a) ==
    /\ agent[a].pc = "idle"
    /\ agent[a].ctx = "stop"
    /\ agent' = [agent EXCEPT ![a] = FreshProcess]
    /\ UNCHANGED <<job, site, opening>>

LeaseExpires(j) ==
    /\ job[j].lease = "live"
    /\ job' = [job EXCEPT ![j].lease = "expired"]
    /\ UNCHANGED <<site, opening, agent>>

-----------------------------------------------------------------------------
API == \/ \E s \in Sites, j \in Jobs : CreateProvisionJob(s, j)
       \/ \E s \in Sites, t \in OpTypes : CreateSiteJobCheck(s, t)
       \/ \E s \in Sites, j \in Jobs : CreateSiteJobInsert(s, j)
       \/ \E s \in Sites : CreateSiteJobRollback(s)
       \/ \E j \in Jobs : RetryJob(j)

\* A step of the worker loop other than polling.
Run(a) == \/ Advance(a) \/ Work(a) \/ ExecutionFails(a)
          \/ BeginComplete(a) \/ Complete(a) \/ FailJob(a)

Fault == \/ \E a \in Agents : Crash(a) \/ RequestStop(a)
         \/ \E j \in Jobs : LeaseExpires(j)

Next == \/ API
        \/ \E a \in Agents : \/ ClaimNextJob(a) \/ Run(a) \/ RenewLate(a)
                             \/ RenewFails(a) \/ StopAndRestart(a)
        \/ Fault

Spec == Init /\ [][Next]_vars

-----------------------------------------------------------------------------
(* Fairness: a process keeps polling and every external operation returns  *)
(* (health, worker and route checks have timeouts); an open transaction    *)
(* ends; the lease of a job that nobody renews runs out.                   *)

Renewed(j) == \E a \in Agents : /\ Executing(a)
                                /\ agent[a].ctx = "live"
                                /\ agent[a].job = j
                                /\ ClaimStands(a)

FinishOpening(s) == \/ \E j \in Jobs : CreateSiteJobInsert(s, j)
                    \/ CreateSiteJobRollback(s)

Fairness == /\ \A a \in Agents : WF_vars(ClaimNextJob(a)) /\ WF_vars(Run(a))
            /\ \A s \in Sites : WF_vars(FinishOpening(s))
            /\ \A j \in Jobs : WF_vars(LeaseExpires(j) /\ ~ Renewed(j))

FairSpec == Spec /\ Fairness

-----------------------------------------------------------------------------
(* Properties.                                                             *)

\* Two executions never hold the same claim of a job, even when two processes
\* share one AGENT_ID: the fence of advance, FailJob and the closing updates
\* then lets at most one of them write.
ClaimsUnique ==
    \A a, b \in Agents :
        /\ agent[a].pc # "idle"
        /\ agent[b].pc # "idle"
        /\ agent[a].job = agent[b].job
        /\ agent[a].version = agent[b].version
        => a = b

\* A site never has two active operations, although CreateSiteJob counts the
\* active jobs before it inserts and RetryJob does not count them at all.
OneOperationPerSite ==
    \A s \in Sites : \A i, j \in ActiveOn(s) :
        job[i].type \in OpTypes /\ job[j].type \in OpTypes => i = j

\* A job is ended only by the process that holds its latest claim: completion
\* and FailJob of an execution that was taken over change nothing.
OnlyHolderEnds ==
    [][\A j \in Jobs :
          job[j].status = "running" /\ job'[j].status \in {"completed", "failed"}
          => \E a \in Agents : /\ agent[a].job = j
                               /\ agent[a].version = job[j].version
                               /\ agent'[a] # agent[a]]_vars

\* A lease that has run out comes back by a takeover, or by a late renewal of the
\* execution whose claim it is: what a process that was taken over still sends never
\* keeps the job of a dead successor from being taken over in its turn.
RenewedByHolder ==
    [][\A j \in Jobs :
          /\ job[j].status = "running" /\ job[j].lease = "expired"
          /\ job'[j].lease = "live"
          => \/ job'[j].attempt = job[j].attempt + 1
             \/ \E a \in Agents : /\ Executing(a) /\ agent[a].job = j
                                   /\ agent[a].version = job[j].version]_vars

\* No operation completes on a site that is already deleted: a failed job may be
\* retried after the deletion, but then its execution does not get past loadSite.
OperationsSpareDeletedSites ==
    [][\A j \in Jobs :
          /\ job[j].type \in OpTypes
          /\ job[j].status # "completed"
          /\ job'[j].status = "completed"
          => site[job[j].site] = "present"]_vars

\* The steps that the claim in force has announced for job j.
StepsReported(j) ==
    LET holders == {a \in Agents : /\ agent[a].pc # "idle"
                                   /\ agent[a].job = j
                                   /\ ClaimStands(a)}
    IN  IF holders = {} THEN 0 ELSE agent[CHOOSE a \in holders : TRUE].step

\* The queue implements JobContract: in particular a job is completed only by
\* a start that made every step itself, after any number of takeovers, and a
\* completed job is never reopened, failed or executed again.
Contract == INSTANCE JobContract WITH
    Lengths <- {Steps[t] : t \in Types},
    status <- [j \in Jobs |-> job[j].status],
    tries <- [j \in Jobs |-> job[j].attempt],
    length <- [j \in Jobs |-> IF job[j].type = NoType THEN 0 ELSE Steps[job[j].type]],
    reported <- [j \in Jobs |-> StepsReported(j)]

ImplementsContract == Contract!Spec

\* Every pending job is claimed in the end, whatever is queued and retried
\* before it.
PendingStarts ==
    \A j \in Jobs : job[j].status = "pending" ~> job[j].status = "running"

Exhausted(j) == /\ job[j].status = "running"
                /\ job[j].lease = "expired"
                /\ job[j].attempt = MaxAttempts

\* A claimed job ends, through crashes, lost leases and takeovers, unless the
\* lease of its last attempt runs out.
RunningEnds ==
    \A j \in Jobs : job[j].status = "running"
                    ~> job[j].status \in {"completed", "failed"} \/ Exhausted(j)

\* A job that lost its executor is executed again or can be retried.
LostJobsRecover == \A j \in Jobs : ~ Exhausted(j)

\* A site has at most one active job of any type.
OneActiveJobPerSite == \A s \in Sites : \A i, j \in ActiveOn(s) : i = j
=============================================================================
