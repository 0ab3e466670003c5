---------------------------- MODULE SiteLifecycle ----------------------------
(***************************************************************************)
(* One site: its row, and what really runs on the node, as jobs, the       *)
(* reports of the site and the periodic maintenance change them.           *)
(*                                                                         *)
(* A job is the sequence of steps that runProvision, runSiteOperation,     *)
(* runUpgrade and runDelete make.  Every step is one action, it may fail,  *)
(* and an external command that fails may have done its work.  There is    *)
(* one agent, as in the production compose file; JobQueue is about several *)
(* of them, and about attempts, which are not counted here.  Of each type  *)
(* only the latest job of the site is kept.                                *)
(*                                                                         *)
(* VERIFY_PUBLIC_HTTPS is off: with it one more check of the same kind       *)
(* follows the check of the route.                                         *)
(*                                                                         *)
(* The columns that a deletion sets to NULL keep their value: nothing that *)
(* is modelled reads them once deleted_at is set.                          *)
(***************************************************************************)
EXTENDS Integers, Sequences

CONSTANTS
    Versions,      \* published releases
    FirstVersion,  \* initial_version of the code
    Ops,           \* operations in use, a subset of AllOps
    Retried,       \* bound: types whose failed jobs somebody retries
    Ages,          \* bound: the ages that a heartbeat reaches
    MaxCreated,    \* bound: operations ever created
    NoVersion      \* the target of jobs other than upgrades; version of nothing

AllOps == {"start", "unfreeze", "restart", "stop", "freeze", "backup", "upgrade",
           "delete"}

ASSUME VersionsAssumption == FirstVersion \in Versions /\ NoVersion \notin Versions
ASSUME OpsAssumption == Ops \subseteq AllOps /\ Retried \subseteq Ops \cup {"provision"}
ASSUME CreatedAssumption == MaxCreated \in Nat

VARIABLES
    row,     \* the row of sites
    jobs,    \* the latest job of each type
    exec,    \* what the agent is doing
    app,     \* the containers of the site
    file,    \* its .env and compose.yml: "none", or the label they ask for
    db,      \* its database
    report,  \* a heartbeat on its way
    created  \* operations created so far

vars == <<row, jobs, exec, app, file, db, report, created>>

Types == Ops \cup {"provision"}

Status == {"pending", "provisioning", "active", "warning", "offline", "failed",
           "stopped", "frozen", "upgrading", "deleting", "deleted"}

\* beat: age of last_heartbeat_at, "late" after 60 and "old" after 120 seconds.
Row == [status : Status, current : Versions, desired : Versions, deleted : BOOLEAN,
        route : {"disabled", "activating", "active", "failed", "disabling"},
        beat : {"none", "fresh", "late", "old"}]

\* "none": no job that will run again.  lease: lease_until > now().
Job == [status : {"none", "pending", "running", "failed"}, lease : BOOLEAN,
        target : Versions \cup {NoVersion}]

\* opened: routeEnabled of runProvision; status and version: what a later step
\* reads of the row that loadSite returned.
Exec == [type : Types \cup {"none"}, pc : 0..21, opened : BOOLEAN,
         mode : {"idle", "run", "cleanup", "close", "record", "rollback",
                 "restore", "failing"},
         status : Status, version : Versions]

\* public: the label traefik.enable.  Every program renders the files before
\* it starts the containers, so a stopped container is never what starts again.
App == [state : {"none", "stopped", "up"}, version : Versions \cup {NoVersion},
        public : BOOLEAN]
File == {"none", "private", "public"}

\* "ready": migrated, with an administrator and the site profile.
Database == {"absent", "empty", "ready"}

Report == [accepted : BOOLEAN, version : Versions \cup {NoVersion}, healthy : BOOLEAN]

NoContainers(state) == [state |-> state, version |-> NoVersion, public |-> FALSE]
NoReport == [accepted |-> FALSE, version |-> NoVersion, healthy |-> FALSE]
Idle == [type |-> "none", pc |-> 0, opened |-> FALSE, mode |-> "idle",
         status |-> "pending", version |-> FirstVersion]

Ended(status) == [status |-> status, lease |-> FALSE, target |-> NoVersion]

\* CreateProvisionJob has just inserted the site and its job.
Init ==
    /\ row = [status |-> "pending", current |-> FirstVersion, desired |-> FirstVersion,
              deleted |-> FALSE, route |-> "disabled", beat |-> "none"]
    /\ jobs = [t \in Types |-> Ended(IF t = "provision" THEN "pending" ELSE "none")]
    /\ exec = Idle
    /\ app = NoContainers("none")
    /\ file = "none"
    /\ db = "absent"
    /\ report = NoReport
    /\ created = 0

-----------------------------------------------------------------------------
(* Jobs: creation, retry, claim.                                           *)

Active == {t \in Types : jobs[t].status \in {"pending", "running"}}

Targets(t) == IF t = "upgrade" THEN Versions ELSE {NoVersion}

\* CreateSiteJob asks for no particular status of the site.
CreateSiteJob(t, target) ==
    /\ ~row.deleted
    /\ Active = {}
    /\ created < MaxCreated
    /\ created' = created + 1
    /\ target \in Targets(t)
    /\ jobs' = [jobs EXCEPT ![t] = [Ended("pending") EXCEPT !.target = target]]
    /\ row' = IF t = "delete"
              THEN [row EXCEPT !.status = "deleting", !.route = "disabling"] ELSE row
    /\ UNCHANGED <<exec, app, file, db, report>>

\* Only the unique index stands in the way, and it leaves provision jobs out.
RetryJob(t) ==
    /\ jobs[t].status = "failed"
    /\ t = "provision" \/ Active \subseteq {"provision"}
    /\ jobs' = [jobs EXCEPT ![t].status = "pending"]
    /\ UNCHANGED <<row, exec, app, file, db, report, created>>

\* Whichever of two active jobs is the older.
ClaimNextJob(t) ==
    /\ exec = Idle
    /\ \/ jobs[t].status = "pending"
       \/ jobs[t].status = "running" /\ ~jobs[t].lease
    /\ jobs' = [jobs EXCEPT ![t].status = "running", ![t].lease = TRUE]
    /\ exec' = [Idle EXCEPT !.type = t, !.mode = "run", !.pc = 1]
    /\ UNCHANGED <<row, app, file, db, report, created>>

LeaseExpires(t) ==
    /\ jobs[t].status = "running" /\ jobs[t].lease
    /\ jobs' = [jobs EXCEPT ![t].lease = FALSE]
    /\ UNCHANGED <<row, exec, app, file, db, report, created>>

Crash ==
    /\ exec # Idle
    /\ exec' = Idle
    /\ UNCHANGED <<row, jobs, app, file, db, report, created>>

-----------------------------------------------------------------------------
(* The steps of a job.                                                     *)

\* Mutant: the route is opened from the start.
ProvisionStepsOpen ==
    <<"mark", "fence", "load", "fence", "create", "fence", "public", "fence", "up",
      "fence", "bootstrap", "fence", "ready", "activate", "public", "open", "up",
      "ready", "fence", "route", "finish">>

\* "fence" stands for the calls of advance between two other steps.
ProvisionSteps ==
    <<"mark", "fence", "load", "fence", "create", "fence", "private", "fence", "up",
      "fence", "bootstrap", "fence", "ready", "activate", "public", "open", "up",
      "ready", "fence", "route", "finish">>
StartSteps == <<"load", "fence", "activate", "public", "up", "ready", "route", "serve",
                "finish">>
RestartSteps == <<"load", "fence", "public", "up", "ready", "route", "serve", "finish">>
StopSteps == <<"load", "fence", "down", "disable", "finish">>
BackupSteps == <<"load", "fence", "dump", "finish">>
UpgradeSteps == <<"load", "fence", "aim", "fence", "dump", "fence", "public", "fence",
                  "up", "fence", "ready", "route", "finish">>
DeleteSteps == <<"load", "fence", "disable", "destroy", "fence", "drop", "fence",
                 "erase", "fence", "finish">>

Program ==
    [provision |-> ProvisionSteps, start |-> StartSteps, unfreeze |-> StartSteps,
     restart |-> RestartSteps, stop |-> StopSteps, freeze |-> StopSteps,
     backup |-> BackupSteps, upgrade |-> UpgradeSteps, delete |-> DeleteSteps]

Token == Program[exec.type][exec.pc]
At(token) == exec.mode = "run" /\ Token = token

\* status = 'running' AND worker_id AND lease_version AND lease_until > now()
Holds == jobs[exec.type].status = "running" /\ jobs[exec.type].lease

Onward == [exec EXCEPT !.pc = @ + 1]

\* runProvision has a deferred clean-up; a failed upgrade is rolled back only
\* when it is a check that failed.
Failed ==
    [exec EXCEPT !.pc = 0, !.mode =
        CASE exec.type = "provision" -> "cleanup"
          [] exec.type = "upgrade" /\ Token \in {"ready", "route"} -> "rollback"
          [] OTHER -> "failing"]

\* An external command that reports a failure may have done its work.
Outcomes == {Onward, Failed}

\* Mutant: an upgrade renders the version that the site has.
VersionToKeep == exec.version

\* The version that renderSite is called with.
VersionToRun ==
    IF exec.type = "upgrade" THEN jobs["upgrade"].target ELSE exec.version

Serving == app.state = "up" /\ db = "ready"
Public == app.state = "up" /\ app.public

Mark ==
    /\ At("mark")
    /\ row' = [row EXCEPT !.status = "provisioning", !.route = "disabled"]
    /\ exec' = Onward
    /\ UNCHANGED <<jobs, app, file, db, report, created>>

Fence ==
    /\ At("fence") /\ Holds
    /\ exec' = Onward
    /\ UNCHANGED <<row, jobs, app, file, db, report, created>>

\* Mutant: a query without deleted_at IS NULL.
SiteLoadsAlways == TRUE

\* loadSite finds the site.
SiteLoads == ~row.deleted

Load ==
    /\ At("load") /\ SiteLoads
    /\ exec' = [Onward EXCEPT
          !.version = IF exec.type = "provision" THEN row.desired ELSE row.current,
          !.status = IF exec.type = "backup" THEN row.status ELSE @]
    /\ UNCHANGED <<row, jobs, app, file, db, report, created>>

SetRouteState(token, route) ==
    /\ At(token) /\ Holds
    /\ row' = [row EXCEPT !.route = route]
    /\ exec' = Onward
    /\ UNCHANGED <<jobs, app, file, db, report, created>>

Aim ==
    /\ At("aim")
    /\ jobs["upgrade"].target \notin {NoVersion, exec.version}
    /\ row' = [row EXCEPT !.status = "upgrading", !.desired = jobs["upgrade"].target]
    /\ exec' = Onward
    /\ UNCHANGED <<jobs, app, file, db, report, created>>

CreateDatabase ==
    /\ At("create")
    /\ db' = IF db = "absent" THEN "empty" ELSE db
    /\ exec' \in Outcomes
    /\ UNCHANGED <<row, jobs, app, file, report, created>>

Render(token) ==
    /\ At(token)
    /\ file' = token
    /\ exec' \in Outcomes
    /\ UNCHANGED <<row, jobs, app, db, report, created>>

\* loadComposeConfig accepts the file, routeEnabled = true.
Open ==
    /\ At("open")
    /\ exec' = [Onward EXCEPT !.opened = TRUE]
    /\ UNCHANGED <<row, jobs, app, file, db, report, created>>

Running(version, public) == [state |-> "up", version |-> version, public |-> public]

Up ==
    /\ At("up")
    /\ app' = Running(VersionToRun, file = "public")
    /\ exec' \in Outcomes
    /\ UNCHANGED <<row, jobs, file, db, report, created>>

Bootstrap ==
    /\ At("bootstrap")
    /\ app.state = "up" /\ db # "absent"
    /\ db' = "ready"
    /\ exec' \in Outcomes
    /\ UNCHANGED <<row, jobs, app, file, report, created>>

\* waitForWorker, waitForHealth(ready), waitForRoute and pg_dump only look.
Check(token, holds) ==
    /\ At(token) /\ holds
    /\ exec' = Onward
    /\ UNCHANGED <<row, jobs, app, file, db, report, created>>

Down ==
    /\ At("down")
    /\ file # "none"
    /\ app' = IF app.state = "up" THEN NoContainers("stopped") ELSE app
    /\ exec' \in Outcomes
    /\ UNCHANGED <<row, jobs, file, db, report, created>>

Destroy ==
    /\ At("destroy")
    /\ app' = NoContainers("none")
    /\ exec' \in Outcomes
    /\ UNCHANGED <<row, jobs, file, db, report, created>>

DropDatabase ==
    /\ At("drop")
    /\ db' = "absent"
    /\ exec' \in Outcomes
    /\ UNCHANGED <<row, jobs, app, file, report, created>>

Erase ==
    /\ At("erase")
    /\ file' = "none"
    /\ exec' \in Outcomes
    /\ UNCHANGED <<row, jobs, app, db, report, created>>

\* The row of the site after the closing transaction of a job.
ClosedRow ==
    CASE exec.type = "provision" ->
            [row EXCEPT !.status = "active", !.route = "active", !.beat = "fresh",
                        !.current = row.desired]
      [] exec.type = "upgrade" ->
            [row EXCEPT !.status = "active", !.route = "active",
                        !.current = jobs["upgrade"].target,
                        !.desired = jobs["upgrade"].target]
      [] exec.type = "delete" ->
            [row EXCEPT !.status = "deleted", !.route = "disabled", !.beat = "none",
                        !.deleted = TRUE]
      [] exec.type \in {"start", "unfreeze", "restart"} ->
            [row EXCEPT !.status = "active"]
      [] exec.type = "stop" -> [row EXCEPT !.status = "stopped"]
      [] exec.type = "freeze" -> [row EXCEPT !.status = "frozen"]
      [] exec.type = "backup" -> [row EXCEPT !.status = exec.status]

Finish ==
    /\ At("finish") /\ Holds
    /\ row' = ClosedRow
    /\ jobs' = [jobs EXCEPT ![exec.type] = Ended("none")]
    /\ exec' = Idle
    /\ UNCHANGED <<app, file, db, report, created>>

-----------------------------------------------------------------------------
(* Failures.                                                               *)

\* A lost lease, a check that does not hold, an error of the database, a
\* timeout, a command that could not start.
StepFails ==
    /\ exec.mode = "run"
    /\ exec' = Failed
    /\ UNCHANGED <<row, jobs, app, file, db, report, created>>

\* setRouteState(job, "failed") when the route of a started site is not there.
RouteFails ==
    /\ At("route") /\ Holds
    /\ exec.type \in {"start", "unfreeze", "restart"}
    /\ row' = [row EXCEPT !.route = "failed"]
    /\ exec' = Failed
    /\ UNCHANGED <<jobs, app, file, db, report, created>>

Mode(from, to) == exec.mode = from /\ exec' = [exec EXCEPT !.mode = to]

Failing == [Idle EXCEPT !.type = exec.type, !.mode = "failing"]

\* The deferred function of runProvision, which looks at the claim once.
CleanupChecks ==
    /\ exec.mode = "cleanup"
    /\ exec' = IF Holds THEN [exec EXCEPT !.mode = "close"] ELSE Failing
    /\ UNCHANGED <<row, jobs, app, file, db, report, created>>

\* Errors of closing the route again are ignored.
CleanupCloses ==
    /\ Mode("close", "record")
    /\ IF exec.opened
       THEN \/ /\ file' = "private"
               /\ app' \in {app, Running(exec.version, FALSE)}
            \/ UNCHANGED <<app, file>>
       ELSE UNCHANGED <<app, file>>
    /\ UNCHANGED <<row, jobs, db, report, created>>

CleanupRecords ==
    /\ exec.mode = "record"
    /\ exec' = Failing
    /\ row' = [row EXCEPT !.route = "failed"]
    /\ UNCHANGED <<jobs, app, file, db, report, created>>

\* runUpgrade puts the old image back, whoever holds the job by now.
Rollback ==
    /\ Mode("rollback", "restore")
    /\ \/ /\ file' = "public"
          /\ app' \in {app, Running(exec.version, TRUE)}
       \/ UNCHANGED <<app, file>>
    /\ UNCHANGED <<row, jobs, db, report, created>>

RollbackRestores ==
    /\ exec.mode = "restore"
    /\ exec' = Failing
    /\ row' = [row EXCEPT !.status = "active", !.desired = row.current]
    /\ UNCHANGED <<jobs, app, file, db, report, created>>

FailedRow ==
    CASE exec.type = "provision" -> [row EXCEPT !.status = "failed", !.route = "failed"]
      [] exec.type = "upgrade" ->
            [row EXCEPT !.status = "active", !.desired = row.current]
      [] exec.type = "delete" -> [row EXCEPT !.status = "failed", !.route = "disabled"]
      [] OTHER -> row

\* The columns of a failed job stay, for its retry.
FailedJob(job) ==
    IF exec.type \in Retried THEN [job EXCEPT !.status = "failed", !.lease = FALSE]
    ELSE Ended("none")

\* Without a live lease, or without the database, the worker only logs.
FailJob ==
    /\ exec.mode = "failing"
    /\ exec' = Idle
    /\ \/ /\ Holds
          /\ jobs' = [jobs EXCEPT ![exec.type] = FailedJob(@)]
          /\ row' = FailedRow
       \/ UNCHANGED <<jobs, row>>
    /\ UNCHANGED <<app, file, db, report, created>>

Execute ==
    \/ Mark \/ Fence \/ Load \/ Aim \/ CreateDatabase \/ Open \/ Up \/ Bootstrap
    \/ Down \/ Destroy \/ DropDatabase \/ Erase \/ Finish
    \/ Render("private") \/ Render("public")
    \/ SetRouteState("activate", "activating")
    \/ SetRouteState("serve", "active")
    \/ SetRouteState("disable", "disabled")
    \/ Check("dump", db # "absent")
    \/ Check("ready", Serving)
    \/ Check("route", Serving /\ Public)
    \/ StepFails \/ RouteFails
    \/ CleanupChecks \/ CleanupCloses \/ CleanupRecords
    \/ Rollback \/ RollbackRestores \/ FailJob

-----------------------------------------------------------------------------
(* Reports and maintenance.                                                *)

\* Mutant: reports of a stack that is gone are still taken.
ReporterNeverStops == TRUE

\* The reporter runs beside the app, with the version of its .env.
ReporterRuns == app.state = "up"

\* A report of a deleted or frozen site is turned away.
VerifySiteSignature ==
    /\ report = NoReport
    /\ ReporterRuns
    /\ ~row.deleted /\ row.status # "frozen"
    /\ \E healthy \in BOOLEAN :
          /\ healthy => Serving
          /\ report' = [accepted |-> TRUE, version |-> app.version, healthy |-> healthy]
    /\ UNCHANGED <<row, jobs, exec, app, file, db, created>>

\* The transaction that follows reads nothing again.
Heartbeat ==
    /\ report.accepted
    /\ row' = [row EXCEPT !.status = IF report.healthy THEN "active" ELSE "warning",
                          !.current = report.version, !.beat = "fresh"]
    /\ report' = NoReport
    /\ UNCHANGED <<jobs, exec, app, file, db, created>>

ReportLost ==
    /\ report # NoReport
    /\ report' = NoReport
    /\ UNCHANGED <<row, jobs, exec, app, file, db, created>>

BeatAges(age) ==
    /\ <<row.beat, age>> \in {<<"fresh", "late">>, <<"late", "old">>}
    /\ row' = [row EXCEPT !.beat = age]
    /\ UNCHANGED <<jobs, exec, app, file, db, report, created>>

\* Mutant: only active sites go offline, after warning they stay.
SweptStatusOnce ==
    IF row.status = "active" /\ row.beat \in {"late", "old"} THEN "warning"
    ELSE row.status

\* A site that was never heard of is left alone: NULL < now() is not true.
SweptStatus ==
    IF row.status \in {"active", "warning"} /\ row.beat = "old" THEN "offline"
    ELSE IF row.status = "active" /\ row.beat = "late" THEN "warning"
    ELSE row.status

\* In the loop that also executes the jobs.
RunMaintenance ==
    /\ exec = Idle
    /\ row' = [row EXCEPT !.status = SweptStatus]
    /\ UNCHANGED <<jobs, exec, app, file, db, report, created>>

-----------------------------------------------------------------------------
Next ==
    \/ \E t \in Ops, target \in Versions \cup {NoVersion} : CreateSiteJob(t, target)
    \/ \E t \in Types : RetryJob(t) \/ ClaimNextJob(t) \/ LeaseExpires(t)
    \/ Crash
    \/ Execute
    \/ VerifySiteSignature \/ Heartbeat \/ ReportLost
    \/ \E age \in Ages : BeatAges(age)
    \/ RunMaintenance

Spec == Init /\ [][Next]_vars

\* Every step of a job returns, with success or an error, and the select of
\* the worker chooses among the tickers that are due at random.
FairSpec == Spec /\ WF_vars(Execute) /\ SF_vars(RunMaintenance)

-----------------------------------------------------------------------------
(* Properties.                                                             *)

\* The state keeps its shape: whatever the site reports, current_version
\* is a release that ran, and no program runs past its last step.
TypeOK ==
    /\ row \in Row
    /\ jobs \in [Types -> Job]
    /\ exec \in Exec
    /\ app \in App
    /\ file \in File
    /\ db \in Database
    /\ report \in Report
    /\ created \in 0..MaxCreated

Opening == {"provision", "start", "unfreeze", "restart", "upgrade"}

Completes(t) ==
    /\ exec.type = t /\ At("finish")
    /\ jobs[t].status = "running" /\ jobs'[t].status = "none"

\* A job that ends as completed has really happened, after whatever crashes,
\* retries and failed jobs before it: the site serves under its domain, or is
\* stopped, and the row says so (completeOperation, runProvision, runUpgrade).
CompletedMeansDone ==
    [][\A t \in Types : Completes(t) =>
          /\ t \in Opening =>
                /\ Serving /\ Public
                /\ row'.status = "active" /\ row'.route = "active"
          /\ t \in {"provision", "upgrade"} => row'.current = app.version
          /\ t \in {"stop", "freeze"} => app.state # "up" /\ row'.route = "disabled"]_vars

\* Of a deleted site nothing is left on the node, also when a job that had
\* failed before the deletion is retried after it (runDelete, loadSite).
DeletedLeavesNothing ==
    row.deleted => app = NoContainers("none") /\ file = "none" /\ db = "absent"

\* The job that opens a site publishes it only when its database is
\* initialised, at the first attempt and at every later one (runProvision).
ProvisionOpensLast ==
    [][exec.type = "provision" /\ ~Public /\ Public' => db = "ready"]_vars

\* The list of sites does not show a silent site as active or warning for
\* ever (RunMaintenance).
SilentSiteGoesOffline ==
    row.status \in {"active", "warning"} /\ row.beat = "old"
        ~> row.status \notin {"active", "warning"} \/ row.beat # "old"

\* docs/deployment.md: a failed check never leaves the site marked active.
FailedIsNotActive ==
    jobs["provision"].status = "failed" => row.status # "active"
=============================================================================
