------------------------ MODULE SiteLifecycleProofs --------------------------
(***************************************************************************)
(* One site, for all releases, operations and numbers of jobs: the proofs  *)
(* of TypeOK, DeletedLeavesNothing, CompletedMeansDone and                 *)
(* ProvisionOpensLast of SiteLifecycle.                                    *)
(*                                                                         *)
(* The argument: one agent executes one job at a time, and nothing else    *)
(* changes the containers, the files, the database and the route of the    *)
(* site.  So what a step has done still holds at the later steps of the    *)
(* same execution (Done), and a job that finds the site deleted has not    *)
(* changed anything yet (Gone).                                            *)
(***************************************************************************)
EXTENDS SiteLifecycle, TLAPS

\* What the agent executes it has claimed, and nobody else claims it; a clean-up
\* belongs to a provision job, a roll-back to an upgrade.
ExecOK ==
    /\ \/ exec = Idle
       \/ /\ exec.type \in Types /\ exec.mode # "idle"
          /\ jobs[exec.type].status = "running"
    /\ exec.mode = "run" => exec.pc \in 1..Len(Program[exec.type])
    /\ exec.mode \in {"cleanup", "close", "record"} => exec.type = "provision"
    /\ exec.mode \in {"rollback", "restore"} => exec.type = "upgrade"

\* What runs is a release, and so is what a report says.
ReleasesRun ==
    /\ app.state = "up" => app.version \in Versions
    /\ report.accepted => report.version \in Versions

\* What the steps before exec.pc have done, as far as a later step relies on it.
ProvisionDone ==
    /\ exec.pc > 3 => exec.version = row.desired
    /\ exec.pc \in {8, 9} => file = "private"
    /\ exec.pc >= 10 => app.state = "up" /\ app.version = exec.version
    /\ exec.pc >= 12 => db = "ready"
    /\ exec.pc = 21 => app.public
UpgradeDone ==
    /\ exec.pc > 3 => jobs["upgrade"].target \in Versions
    /\ exec.pc >= 10 => app.version = jobs["upgrade"].target
    /\ exec.pc = 13 => Serving /\ Public
StartDone(serve) ==
    /\ exec.pc >= serve => Serving /\ Public
    /\ exec.pc > serve => row.route = "active"
StopDone ==
    /\ exec.pc >= 4 => app.state # "up"
    /\ exec.pc = 5 => row.route = "disabled"
DeleteDone ==
    /\ exec.pc >= 5 => app = NoContainers("none")
    /\ exec.pc >= 7 => db = "absent"
    /\ exec.pc >= 9 => file = "none"

Done ==
    exec.mode = "run" =>
        /\ exec.type = "provision" => ProvisionDone
        /\ exec.type = "upgrade" => UpgradeDone
        /\ exec.type \in {"start", "unfreeze"} => StartDone(8)
        /\ exec.type = "restart" => StartDone(7)
        /\ exec.type \in {"stop", "freeze"} => StopDone
        /\ exec.type = "delete" => DeleteDone

\* The step that reads the row of the site; those before it leave the node alone.
LoadStep == IF exec.type = "provision" THEN 3 ELSE 1

\* Nothing is left of a deleted site, and no execution will bring anything back.
Gone ==
    row.deleted =>
        /\ app = NoContainers("none") /\ file = "none" /\ db = "absent"
        /\ exec.mode = "run" => exec.pc <= LoadStep
        /\ ~exec.opened /\ exec.mode # "rollback"

SiteInv == TypeOK /\ ExecOK /\ ReleasesRun /\ Done /\ Gone

-----------------------------------------------------------------------------
(* The programs.                                                           *)

LEMMA TypesAre == Types \subseteq AllOps \cup {"provision"} /\ "none" \notin Types
BY OpsAssumption DEF Types, AllOps

\* The steps in a form that says what each one is.
ProvisionAt(pc, token) ==
    \/ pc = 1 /\ token = "mark"
    \/ pc \in {2, 4, 6, 8, 10, 12, 19} /\ token = "fence"
    \/ pc = 3 /\ token = "load"
    \/ pc = 5 /\ token = "create"
    \/ pc = 7 /\ token = "private"
    \/ pc \in {9, 17} /\ token = "up"
    \/ pc = 11 /\ token = "bootstrap"
    \/ pc \in {13, 18} /\ token = "ready"
    \/ pc = 14 /\ token = "activate"
    \/ pc = 15 /\ token = "public"
    \/ pc = 16 /\ token = "open"
    \/ pc = 20 /\ token = "route"
    \/ pc = 21 /\ token = "finish"
StartAt(pc, token) ==
    \/ pc = 1 /\ token = "load"
    \/ pc = 2 /\ token = "fence"
    \/ pc = 3 /\ token = "activate"
    \/ pc = 4 /\ token = "public"
    \/ pc = 5 /\ token = "up"
    \/ pc = 6 /\ token = "ready"
    \/ pc = 7 /\ token = "route"
    \/ pc = 8 /\ token = "serve"
    \/ pc = 9 /\ token = "finish"
RestartAt(pc, token) ==
    \/ pc = 1 /\ token = "load"
    \/ pc = 2 /\ token = "fence"
    \/ pc = 3 /\ token = "public"
    \/ pc = 4 /\ token = "up"
    \/ pc = 5 /\ token = "ready"
    \/ pc = 6 /\ token = "route"
    \/ pc = 7 /\ token = "serve"
    \/ pc = 8 /\ token = "finish"
StopAt(pc, token) ==
    \/ pc = 1 /\ token = "load"
    \/ pc = 2 /\ token = "fence"
    \/ pc = 3 /\ token = "down"
    \/ pc = 4 /\ token = "disable"
    \/ pc = 5 /\ token = "finish"
BackupAt(pc, token) ==
    \/ pc = 1 /\ token = "load"
    \/ pc = 2 /\ token = "fence"
    \/ pc = 3 /\ token = "dump"
    \/ pc = 4 /\ token = "finish"
UpgradeAt(pc, token) ==
    \/ pc = 1 /\ token = "load"
    \/ pc \in {2, 4, 6, 8, 10} /\ token = "fence"
    \/ pc = 3 /\ token = "aim"
    \/ pc = 5 /\ token = "dump"
    \/ pc = 7 /\ token = "public"
    \/ pc = 9 /\ token = "up"
    \/ pc = 11 /\ token = "ready"
    \/ pc = 12 /\ token = "route"
    \/ pc = 13 /\ token = "finish"
DeleteAt(pc, token) ==
    \/ pc = 1 /\ token = "load"
    \/ pc \in {2, 5, 7, 9} /\ token = "fence"
    \/ pc = 3 /\ token = "disable"
    \/ pc = 4 /\ token = "destroy"
    \/ pc = 6 /\ token = "drop"
    \/ pc = 8 /\ token = "erase"
    \/ pc = 10 /\ token = "finish"

StepAt(type, pc, token) ==
    \/ type = "provision" /\ ProvisionAt(pc, token)
    \/ type \in {"start", "unfreeze"} /\ StartAt(pc, token)
    \/ type = "restart" /\ RestartAt(pc, token)
    \/ type \in {"stop", "freeze"} /\ StopAt(pc, token)
    \/ type = "backup" /\ BackupAt(pc, token)
    \/ type = "upgrade" /\ UpgradeAt(pc, token)
    \/ type = "delete" /\ DeleteAt(pc, token)

LEMMA ProgramSteps ==
    ASSUME NEW t \in Types, NEW pc \in 1..Len(Program[t])
    PROVE  /\ StepAt(t, pc, Program[t][pc])
           /\ pc \in 1..21
           /\ Program[t][pc] # "finish" => pc + 1 \in 1..Len(Program[t]) /\ pc + 1 <= 21
<1>1. t \in AllOps \cup {"provision"}
  BY TypesAre
<1>2. CASE t = "provision"
  <2>1. Program[t] = ProvisionSteps /\ Len(ProvisionSteps) = 21
    BY <1>2 DEF Program, ProvisionSteps
  <2>2. ProvisionSteps[21] = "finish" /\ \A i \in 1..21 : ProvisionAt(i, ProvisionSteps[i])
    BY DEF ProvisionAt, ProvisionSteps
  <2> QED
    BY <1>2, <2>1, <2>2 DEF StepAt
<1>3. CASE t \in {"start", "unfreeze"}
  <2>1. Program[t] = StartSteps /\ Len(StartSteps) = 9
    BY <1>3 DEF Program, StartSteps
  <2>2. StartSteps[9] = "finish" /\ \A i \in 1..9 : StartAt(i, StartSteps[i])
    BY DEF StartAt, StartSteps
  <2> QED
    BY <1>3, <2>1, <2>2 DEF StepAt
<1>4. CASE t = "restart"
  <2>1. Program[t] = RestartSteps /\ Len(RestartSteps) = 8
    BY <1>4 DEF Program, RestartSteps
  <2>2. RestartSteps[8] = "finish" /\ \A i \in 1..8 : RestartAt(i, RestartSteps[i])
    BY DEF RestartAt, RestartSteps
  <2> QED
    BY <1>4, <2>1, <2>2 DEF StepAt
<1>5. CASE t \in {"stop", "freeze"}
  <2>1. Program[t] = StopSteps /\ Len(StopSteps) = 5
    BY <1>5 DEF Program, StopSteps
  <2>2. StopSteps[5] = "finish" /\ \A i \in 1..5 : StopAt(i, StopSteps[i])
    BY DEF StopAt, StopSteps
  <2> QED
    BY <1>5, <2>1, <2>2 DEF StepAt
<1>6. CASE t = "backup"
  <2>1. Program[t] = BackupSteps /\ Len(BackupSteps) = 4
    BY <1>6 DEF Program, BackupSteps
  <2>2. BackupSteps[4] = "finish" /\ \A i \in 1..4 : BackupAt(i, BackupSteps[i])
    BY DEF BackupAt, BackupSteps
  <2> QED
    BY <1>6, <2>1, <2>2 DEF StepAt
<1>7. CASE t = "upgrade"
  <2>1. Program[t] = UpgradeSteps /\ Len(UpgradeSteps) = 13
    BY <1>7 DEF Program, UpgradeSteps
  <2>2. UpgradeSteps[13] = "finish" /\ \A i \in 1..13 : UpgradeAt(i, UpgradeSteps[i])
    BY DEF UpgradeAt, UpgradeSteps
  <2> QED
    BY <1>7, <2>1, <2>2 DEF StepAt
<1>8. CASE t = "delete"
  <2>1. Program[t] = DeleteSteps /\ Len(DeleteSteps) = 10
    BY <1>8 DEF Program, DeleteSteps
  <2>2. DeleteSteps[10] = "finish" /\ \A i \in 1..10 : DeleteAt(i, DeleteSteps[i])
    BY DEF DeleteAt, DeleteSteps
  <2> QED
    BY <1>8, <2>1, <2>2 DEF StepAt
<1> QED
  BY <1>1, <1>2, <1>3, <1>4, <1>5, <1>6, <1>7, <1>8 DEF AllOps

-----------------------------------------------------------------------------
LEMMA SiteInitial == Init => SiteInv
<1> SUFFICES ASSUME Init PROVE SiteInv
  OBVIOUS
<1>1. TypeOK
  <2>1. row \in Row /\ jobs \in [Types -> Job]
    BY VersionsAssumption DEF Init, Row, Status, Job, Ended
  <2>2. exec \in Exec
    BY VersionsAssumption DEF Init, Exec, Idle, Status
  <2>3. app \in App /\ file \in File /\ db \in Database /\ report \in Report
    BY DEF Init, App, NoContainers, File, Database, Report, NoReport
  <2> QED
    BY <2>1, <2>2, <2>3, CreatedAssumption DEF TypeOK, Init
<1>2. ExecOK /\ Done
  BY DEF Init, ExecOK, Done, Idle
<1>3. ReleasesRun /\ Gone
  BY DEF Init, ReleasesRun, Gone, NoContainers, NoReport
<1> QED
  BY <1>1, <1>2, <1>3 DEF SiteInv

-----------------------------------------------------------------------------
(* The step an execution is at.                                            *)

LEMMA AtStep ==
    ASSUME SiteInv, exec.mode = "run"
    PROVE  /\ exec.type \in Types /\ exec.type \in AllOps \cup {"provision"}
           /\ jobs[exec.type].status = "running"
           /\ exec \in Exec /\ exec.pc \in 1..21
           /\ StepAt(exec.type, exec.pc, Token)
           /\ Token # "finish" => exec.pc + 1 \in 1..Len(Program[exec.type])
                                  /\ exec.pc + 1 \in 0..21
<1>1. /\ exec.type \in Types /\ jobs[exec.type].status = "running"
      /\ exec \in Exec /\ exec.pc \in 1..Len(Program[exec.type])
  BY DEF SiteInv, TypeOK, ExecOK, Idle
<1>2. /\ StepAt(exec.type, exec.pc, Token) /\ exec.pc \in 1..21
      /\ Token # "finish" => exec.pc + 1 \in 1..Len(Program[exec.type])
                             /\ exec.pc + 1 <= 21
  BY <1>1, ProgramSteps DEF Token
<1>3. ASSUME Token # "finish" PROVE exec.pc + 1 \in 0..21
  <2>1. exec.pc \in 1..21 /\ exec.pc + 1 <= 21
    BY <1>2, <1>3
  <2> QED
    BY <2>1
<1>4. exec.type \in AllOps \cup {"provision"}
  BY <1>1, TypesAre
<1> QED
  BY <1>1, <1>2, <1>3, <1>4

LEMMA OnwardIs ==
    ASSUME SiteInv, exec.mode = "run", Token # "finish"
    PROVE  /\ Onward \in Exec /\ Onward.pc = exec.pc + 1
           /\ Onward.type = exec.type /\ Onward.mode = "run"
           /\ Onward.version = exec.version
           /\ Onward.opened <=> exec.opened
<1>1. exec \in Exec /\ exec.pc + 1 \in 0..21
  BY AtStep
<1> QED
  BY <1>1 DEF Onward, Exec

LEMMA FailedIs ==
    ASSUME SiteInv, exec.mode = "run"
    PROVE  /\ Failed \in Exec /\ Failed.type = exec.type
           /\ Failed.mode \in {"cleanup", "rollback", "failing"}
           /\ Failed.mode = "cleanup" => exec.type = "provision"
           /\ Failed.mode = "rollback" => exec.type = "upgrade" /\ exec.pc > 1
           /\ Failed.opened <=> exec.opened
<1>1. exec \in Exec /\ StepAt(exec.type, exec.pc, Token)
  BY AtStep
<1>2. PICK m \in {"cleanup", "rollback", "failing"} :
         /\ Failed = [exec EXCEPT !.pc = 0, !.mode = m]
         /\ m = "cleanup" => exec.type = "provision"
         /\ m = "rollback" => exec.type = "upgrade" /\ Token \in {"ready", "route"}
  BY DEF Failed
<1>3. exec.type = "upgrade" /\ Token \in {"ready", "route"} => exec.pc > 1
  BY <1>1 DEF StepAt, UpgradeAt
<1>4. Failed \in Exec
  <2>1. 0 \in 0..21
    OBVIOUS
  <2> QED
    BY <1>1, <1>2, <2>1 DEF Exec
<1>5. Failed.type = exec.type /\ Failed.mode = m
  BY <1>1, <1>2 DEF Exec
<1>6. Failed.opened <=> exec.opened
  BY <1>1, <1>2 DEF Exec
<1> QED
  BY <1>2, <1>3, <1>4, <1>5, <1>6

\* Of a deleted site only the first steps are executed.
LEMMA NotDeleted ==
    ASSUME SiteInv, exec.mode = "run", Token \notin {"mark", "fence", "load"}
    PROVE  ~row.deleted
<1>1. exec.pc \in 1..21 /\ StepAt(exec.type, exec.pc, Token)
  BY AtStep
<1>2. exec.pc > LoadStep
  BY <1>1 DEF LoadStep, StepAt, ProvisionAt, StartAt, RestartAt, StopAt, BackupAt,
              UpgradeAt, DeleteAt
<1> QED
  BY <1>1, <1>2 DEF SiteInv, Gone, LoadStep

\* The execution moves to its next step.
GoesOn ==
    /\ exec' \in Exec /\ exec'.pc = exec.pc + 1
    /\ exec'.type = exec.type /\ exec'.mode = "run"
    /\ exec'.opened => exec.opened \/ ~row.deleted

LEMMA OnwardGoesOn ==
    ASSUME SiteInv, exec.mode = "run", Token # "finish", exec' = Onward
    PROVE  GoesOn /\ exec'.version = exec.version
BY OnwardIs DEF GoesOn

\* What matters of a step is what it has done.
LEMMA Continues ==
    ASSUME SiteInv, exec.mode = "run", Token # "finish", GoesOn,
           UNCHANGED <<jobs, report, created>>,
           row' \in Row, app' \in App, file' \in File, db' \in Database,
           app'.state = "up" => app'.version \in Versions, Done',
           row'.deleted => /\ row.deleted /\ exec.pc < LoadStep
                           /\ UNCHANGED <<app, file, db>>
    PROVE  SiteInv'
<1>1. /\ exec.type \in Types /\ jobs[exec.type].status = "running"
      /\ exec.pc \in 1..21 /\ exec.pc + 1 \in 1..Len(Program[exec.type])
  BY AtStep
<1>2. /\ exec' \in Exec /\ exec'.pc = exec.pc + 1 /\ exec'.type = exec.type
      /\ exec'.mode = "run" /\ (exec'.opened => exec.opened \/ ~row.deleted)
  BY DEF GoesOn
<1>3. TypeOK' /\ ReleasesRun'
  BY <1>2 DEF SiteInv, TypeOK, ReleasesRun
<1>4. ExecOK'
  BY <1>1, <1>2 DEF ExecOK
<1>5. Gone'
  BY <1>1, <1>2 DEF SiteInv, Gone, LoadStep
<1> QED
  BY <1>3, <1>4, <1>5 DEF SiteInv

\* An execution fails.
LEMMA Fails ==
    ASSUME SiteInv, exec.mode = "run", exec' = Failed,
           UNCHANGED <<jobs, report, created>>,
           row' \in Row, app' \in App, file' \in File, db' \in Database,
           app'.state = "up" => app'.version \in Versions,
           row'.deleted => row.deleted /\ UNCHANGED <<app, file, db>>
    PROVE  SiteInv'
<1>1. exec.type \in Types /\ jobs[exec.type].status = "running"
  BY AtStep
<1>2. /\ exec' \in Exec /\ exec'.type = exec.type
      /\ exec'.mode \in {"cleanup", "rollback", "failing"}
      /\ exec'.mode = "cleanup" => exec.type = "provision"
      /\ exec'.mode = "rollback" => exec.type = "upgrade" /\ exec.pc > 1
      /\ exec'.opened <=> exec.opened
  BY FailedIs
<1>3. TypeOK' /\ ReleasesRun'
  BY <1>2 DEF SiteInv, TypeOK, ReleasesRun
<1>4. ExecOK' /\ Done'
  BY <1>1, <1>2 DEF ExecOK, Done
<1>5. Gone'
  BY <1>2, AtStep DEF SiteInv, Gone, LoadStep
<1> QED
  BY <1>3, <1>4, <1>5 DEF SiteInv

-----------------------------------------------------------------------------
(* The steps that look at the site or at the claim, and write only the row. *)

LEMMA FenceStep == SiteInv /\ Fence => SiteInv'
<1> SUFFICES ASSUME SiteInv, Fence PROVE SiteInv'
  OBVIOUS
<1>1. exec.mode = "run" /\ Token = "fence" /\ exec' = Onward
  BY DEF Fence, At
<1>2. exec.pc \in 1..21 /\ StepAt(exec.type, exec.pc, "fence")
  BY <1>1, AtStep
<1>3. GoesOn /\ exec'.version = exec.version
  BY <1>1, OnwardGoesOn
<1>4. Done'
  BY <1>1, <1>2, <1>3
     DEF SiteInv, Done, GoesOn, Fence, StepAt, ProvisionAt, StartAt, RestartAt, StopAt,
         BackupAt, UpgradeAt, DeleteAt, ProvisionDone, UpgradeDone, StartDone, StopDone,
         DeleteDone, Serving, Public
<1>5. row.deleted => exec.pc < LoadStep
  BY <1>1, <1>2
     DEF SiteInv, Gone, LoadStep, StepAt, ProvisionAt, StartAt, RestartAt, StopAt,
         BackupAt, UpgradeAt, DeleteAt
<1> QED
  BY <1>1, <1>3, <1>4, <1>5, Continues DEF Fence, SiteInv, TypeOK, ReleasesRun

LEMMA ActivateStep == SiteInv /\ SetRouteState("activate", "activating") => SiteInv'
<1> SUFFICES ASSUME SiteInv, SetRouteState("activate", "activating") PROVE SiteInv'
  OBVIOUS
<1>1. exec.mode = "run" /\ Token = "activate" /\ exec' = Onward
  BY DEF SetRouteState, At
<1>2. exec.pc \in 1..21 /\ StepAt(exec.type, exec.pc, "activate")
  BY <1>1, AtStep
<1>3. GoesOn /\ exec'.version = exec.version
  BY <1>1, OnwardGoesOn
<1>4. row' \in Row /\ row'.desired = row.desired
  BY DEF SetRouteState, SiteInv, TypeOK, Row, Status
<1>5. Done'
  BY <1>1, <1>2, <1>3, <1>4
     DEF SiteInv, TypeOK, Job, Row, Done, GoesOn, SetRouteState, StepAt, ProvisionAt, StartAt, RestartAt,
         StopAt, BackupAt, UpgradeAt, DeleteAt, ProvisionDone, UpgradeDone, StartDone,
         StopDone, DeleteDone, Serving, Public
<1>6. ~row.deleted
  BY <1>1, NotDeleted
<1>7. ~row'.deleted
  BY <1>6 DEF SetRouteState, SiteInv, TypeOK, Row
<1> QED
  BY <1>1, <1>3, <1>4, <1>5, <1>7, Continues DEF SetRouteState, SiteInv, TypeOK, ReleasesRun

LEMMA ServeStep == SiteInv /\ SetRouteState("serve", "active") => SiteInv'
<1> SUFFICES ASSUME SiteInv, SetRouteState("serve", "active") PROVE SiteInv'
  OBVIOUS
<1>1. exec.mode = "run" /\ Token = "serve" /\ exec' = Onward
  BY DEF SetRouteState, At
<1>2. exec.pc \in 1..21 /\ StepAt(exec.type, exec.pc, "serve")
  BY <1>1, AtStep
<1>3. GoesOn /\ exec'.version = exec.version
  BY <1>1, OnwardGoesOn
<1>4. row' \in Row /\ row'.desired = row.desired
  BY DEF SetRouteState, SiteInv, TypeOK, Row, Status
<1>5. Done'
  BY <1>1, <1>2, <1>3, <1>4
     DEF SiteInv, TypeOK, Job, Row, Done, GoesOn, SetRouteState, StepAt, ProvisionAt, StartAt, RestartAt,
         StopAt, BackupAt, UpgradeAt, DeleteAt, ProvisionDone, UpgradeDone, StartDone,
         StopDone, DeleteDone, Serving, Public
<1>6. ~row.deleted
  BY <1>1, NotDeleted
<1>7. ~row'.deleted
  BY <1>6 DEF SetRouteState, SiteInv, TypeOK, Row
<1> QED
  BY <1>1, <1>3, <1>4, <1>5, <1>7, Continues DEF SetRouteState, SiteInv, TypeOK, ReleasesRun

LEMMA DisableStep == SiteInv /\ SetRouteState("disable", "disabled") => SiteInv'
<1> SUFFICES ASSUME SiteInv, SetRouteState("disable", "disabled") PROVE SiteInv'
  OBVIOUS
<1>1. exec.mode = "run" /\ Token = "disable" /\ exec' = Onward
  BY DEF SetRouteState, At
<1>2. exec.pc \in 1..21 /\ StepAt(exec.type, exec.pc, "disable")
  BY <1>1, AtStep
<1>3. GoesOn /\ exec'.version = exec.version
  BY <1>1, OnwardGoesOn
<1>4. row' \in Row /\ row'.desired = row.desired
  BY DEF SetRouteState, SiteInv, TypeOK, Row, Status
<1>5. Done'
  BY <1>1, <1>2, <1>3, <1>4
     DEF SiteInv, TypeOK, Job, Row, Done, GoesOn, SetRouteState, StepAt, ProvisionAt, StartAt, RestartAt,
         StopAt, BackupAt, UpgradeAt, DeleteAt, ProvisionDone, UpgradeDone, StartDone,
         StopDone, DeleteDone, Serving, Public
<1>6. ~row.deleted
  BY <1>1, NotDeleted
<1>7. ~row'.deleted
  BY <1>6 DEF SetRouteState, SiteInv, TypeOK, Row
<1> QED
  BY <1>1, <1>3, <1>4, <1>5, <1>7, Continues DEF SetRouteState, SiteInv, TypeOK, ReleasesRun

LEMMA DumpStep == SiteInv /\ Check("dump", db # "absent") => SiteInv'
<1> SUFFICES ASSUME SiteInv, Check("dump", db # "absent") PROVE SiteInv'
  OBVIOUS
<1>1. exec.mode = "run" /\ Token = "dump" /\ exec' = Onward
  BY DEF Check, At
<1>2. exec.pc \in 1..21 /\ StepAt(exec.type, exec.pc, "dump")
  BY <1>1, AtStep
<1>3. GoesOn /\ exec'.version = exec.version
  BY <1>1, OnwardGoesOn
<1>4. row' \in Row /\ row'.desired = row.desired
  BY DEF Check, SiteInv, TypeOK, Row, Status
<1>5. Done'
  BY <1>1, <1>2, <1>3, <1>4
     DEF SiteInv, TypeOK, Job, Row, Done, GoesOn, Check, StepAt, ProvisionAt, StartAt, RestartAt,
         StopAt, BackupAt, UpgradeAt, DeleteAt, ProvisionDone, UpgradeDone, StartDone,
         StopDone, DeleteDone, Serving, Public
<1>6. ~row.deleted
  BY <1>1, NotDeleted
<1>7. ~row'.deleted
  BY <1>6 DEF Check, SiteInv, TypeOK, Row
<1> QED
  BY <1>1, <1>3, <1>4, <1>5, <1>7, Continues DEF Check, SiteInv, TypeOK, ReleasesRun

LEMMA ReadyStep == SiteInv /\ Check("ready", Serving) => SiteInv'
<1> SUFFICES ASSUME SiteInv, Check("ready", Serving) PROVE SiteInv'
  OBVIOUS
<1>1. exec.mode = "run" /\ Token = "ready" /\ exec' = Onward
  BY DEF Check, At
<1>2. exec.pc \in 1..21 /\ StepAt(exec.type, exec.pc, "ready")
  BY <1>1, AtStep
<1>3. GoesOn /\ exec'.version = exec.version
  BY <1>1, OnwardGoesOn
<1>4. row' \in Row /\ row'.desired = row.desired
  BY DEF Check, SiteInv, TypeOK, Row, Status
<1>5. Done'
  BY <1>1, <1>2, <1>3, <1>4
     DEF SiteInv, TypeOK, Job, Row, Done, GoesOn, Check, StepAt, ProvisionAt, StartAt, RestartAt,
         StopAt, BackupAt, UpgradeAt, DeleteAt, ProvisionDone, UpgradeDone, StartDone,
         StopDone, DeleteDone, Serving, Public
<1>6. ~row.deleted
  BY <1>1, NotDeleted
<1>7. ~row'.deleted
  BY <1>6 DEF Check, SiteInv, TypeOK, Row
<1> QED
  BY <1>1, <1>3, <1>4, <1>5, <1>7, Continues DEF Check, SiteInv, TypeOK, ReleasesRun

LEMMA RouteStep == SiteInv /\ Check("route", Serving /\ Public) => SiteInv'
<1> SUFFICES ASSUME SiteInv, Check("route", Serving /\ Public) PROVE SiteInv'
  OBVIOUS
<1>1. exec.mode = "run" /\ Token = "route" /\ exec' = Onward
  BY DEF Check, At
<1>2. exec.pc \in 1..21 /\ StepAt(exec.type, exec.pc, "route")
  BY <1>1, AtStep
<1>3. GoesOn /\ exec'.version = exec.version
  BY <1>1, OnwardGoesOn
<1>4. row' \in Row /\ row'.desired = row.desired
  BY DEF Check, SiteInv, TypeOK, Row, Status
<1>5. Done'
  BY <1>1, <1>2, <1>3, <1>4
     DEF SiteInv, TypeOK, Job, Row, Done, GoesOn, Check, StepAt, ProvisionAt, StartAt, RestartAt,
         StopAt, BackupAt, UpgradeAt, DeleteAt, ProvisionDone, UpgradeDone, StartDone,
         StopDone, DeleteDone, Serving, Public
<1>6. ~row.deleted
  BY <1>1, NotDeleted
<1>7. ~row'.deleted
  BY <1>6 DEF Check, SiteInv, TypeOK, Row
<1> QED
  BY <1>1, <1>3, <1>4, <1>5, <1>7, Continues DEF Check, SiteInv, TypeOK, ReleasesRun

-----------------------------------------------------------------------------
(* The steps that change the node; a command that fails may have done so.  *)

LEMMA CreateStep == SiteInv /\ CreateDatabase => SiteInv'
<1> SUFFICES ASSUME SiteInv, CreateDatabase PROVE SiteInv'
  OBVIOUS
<1>1. exec.mode = "run" /\ Token = "create" /\ exec' \in {Onward, Failed}
  BY DEF CreateDatabase, At, Outcomes
<1>2. exec.pc \in 1..21 /\ StepAt(exec.type, exec.pc, "create")
  BY <1>1, AtStep
<1>3. ~row.deleted /\ ~row'.deleted
  BY <1>1, NotDeleted DEF CreateDatabase
<1>4. /\ row' \in Row /\ app' \in App /\ file' \in File /\ db' \in Database
      /\ app'.state = "up" => app'.version \in Versions
  BY DEF CreateDatabase, Database, SiteInv, TypeOK, ReleasesRun
<1>5. CASE exec' = Onward
  <2>1. GoesOn /\ exec'.version = exec.version
    BY <1>1, <1>5, OnwardGoesOn
  <2>2. Done'
    BY <1>1, <1>2, <2>1
       DEF SiteInv, Done, GoesOn, CreateDatabase, StepAt, ProvisionAt, StartAt, RestartAt,
         StopAt, BackupAt, UpgradeAt, DeleteAt, ProvisionDone, UpgradeDone, StartDone,
         StopDone, DeleteDone, Serving, Public
  <2> QED
    BY <1>1, <1>3, <1>4, <2>1, <2>2, Continues DEF CreateDatabase
<1>6. CASE exec' = Failed
  BY <1>1, <1>3, <1>4, <1>6, Fails DEF CreateDatabase
<1> QED
  BY <1>1, <1>5, <1>6

LEMMA PrivateStep == SiteInv /\ Render("private") => SiteInv'
<1> SUFFICES ASSUME SiteInv, Render("private") PROVE SiteInv'
  OBVIOUS
<1>1. exec.mode = "run" /\ Token = "private" /\ exec' \in {Onward, Failed}
  BY DEF Render, At, Outcomes
<1>2. exec.pc \in 1..21 /\ StepAt(exec.type, exec.pc, "private")
  BY <1>1, AtStep
<1>3. ~row.deleted /\ ~row'.deleted
  BY <1>1, NotDeleted DEF Render
<1>4. /\ row' \in Row /\ app' \in App /\ file' \in File /\ db' \in Database
      /\ app'.state = "up" => app'.version \in Versions
  BY DEF Render, File, SiteInv, TypeOK, ReleasesRun
<1>5. CASE exec' = Onward
  <2>1. GoesOn /\ exec'.version = exec.version
    BY <1>1, <1>5, OnwardGoesOn
  <2>2. Done'
    BY <1>1, <1>2, <2>1
       DEF SiteInv, Done, GoesOn, Render, StepAt, ProvisionAt, StartAt, RestartAt,
         StopAt, BackupAt, UpgradeAt, DeleteAt, ProvisionDone, UpgradeDone, StartDone,
         StopDone, DeleteDone, Serving, Public
  <2> QED
    BY <1>1, <1>3, <1>4, <2>1, <2>2, Continues DEF Render
<1>6. CASE exec' = Failed
  BY <1>1, <1>3, <1>4, <1>6, Fails DEF Render
<1> QED
  BY <1>1, <1>5, <1>6

LEMMA PublicStep == SiteInv /\ Render("public") => SiteInv'
<1> SUFFICES ASSUME SiteInv, Render("public") PROVE SiteInv'
  OBVIOUS
<1>1. exec.mode = "run" /\ Token = "public" /\ exec' \in {Onward, Failed}
  BY DEF Render, At, Outcomes
<1>2. exec.pc \in 1..21 /\ StepAt(exec.type, exec.pc, "public")
  BY <1>1, AtStep
<1>3. ~row.deleted /\ ~row'.deleted
  BY <1>1, NotDeleted DEF Render
<1>4. /\ row' \in Row /\ app' \in App /\ file' \in File /\ db' \in Database
      /\ app'.state = "up" => app'.version \in Versions
  BY DEF Render, File, SiteInv, TypeOK, ReleasesRun
<1>5. CASE exec' = Onward
  <2>1. GoesOn /\ exec'.version = exec.version
    BY <1>1, <1>5, OnwardGoesOn
  <2>2. Done'
    BY <1>1, <1>2, <2>1
       DEF SiteInv, Done, GoesOn, Render, StepAt, ProvisionAt, StartAt, RestartAt,
         StopAt, BackupAt, UpgradeAt, DeleteAt, ProvisionDone, UpgradeDone, StartDone,
         StopDone, DeleteDone, Serving, Public
  <2> QED
    BY <1>1, <1>3, <1>4, <2>1, <2>2, Continues DEF Render
<1>6. CASE exec' = Failed
  BY <1>1, <1>3, <1>4, <1>6, Fails DEF Render
<1> QED
  BY <1>1, <1>5, <1>6

LEMMA UpStep == SiteInv /\ Up => SiteInv'
<1> SUFFICES ASSUME SiteInv, Up PROVE SiteInv'
  OBVIOUS
<1>1. exec.mode = "run" /\ Token = "up" /\ exec' \in {Onward, Failed}
  BY DEF Up, At, Outcomes
<1>2. exec.pc \in 1..21 /\ StepAt(exec.type, exec.pc, "up")
  BY <1>1, AtStep
<1>3. ~row.deleted /\ ~row'.deleted
  BY <1>1, NotDeleted DEF Up
<1>4. /\ row' \in Row /\ app' \in App /\ file' \in File /\ db' \in Database
      /\ app'.state = "up" => app'.version \in Versions
  <2>1. VersionToRun \in Versions
    BY <1>1, <1>2
       DEF SiteInv, TypeOK, Exec, Done, UpgradeDone, VersionToRun, StepAt, UpgradeAt
  <2>2. PICK public \in BOOLEAN : app' = Running(VersionToRun, public)
    BY DEF Up
  <2> QED
    BY <2>1, <2>2 DEF Up, Running, App, SiteInv, TypeOK
<1>5. CASE exec' = Onward
  <2>1. GoesOn /\ exec'.version = exec.version
    BY <1>1, <1>5, OnwardGoesOn
  <2>2. Done'
    BY <1>1, <1>2, <2>1
       DEF SiteInv, Done, GoesOn, Up, StepAt, ProvisionAt, StartAt, RestartAt,
         StopAt, BackupAt, UpgradeAt, DeleteAt, ProvisionDone, UpgradeDone, StartDone,
         StopDone, DeleteDone, Serving, Public, VersionToRun, Running
  <2> QED
    BY <1>1, <1>3, <1>4, <2>1, <2>2, Continues DEF Up
<1>6. CASE exec' = Failed
  BY <1>1, <1>3, <1>4, <1>6, Fails DEF Up
<1> QED
  BY <1>1, <1>5, <1>6

LEMMA BootstrapStep == SiteInv /\ Bootstrap => SiteInv'
<1> SUFFICES ASSUME SiteInv, Bootstrap PROVE SiteInv'
  OBVIOUS
<1>1. exec.mode = "run" /\ Token = "bootstrap" /\ exec' \in {Onward, Failed}
  BY DEF Bootstrap, At, Outcomes
<1>2. exec.pc \in 1..21 /\ StepAt(exec.type, exec.pc, "bootstrap")
  BY <1>1, AtStep
<1>3. ~row.deleted /\ ~row'.deleted
  BY <1>1, NotDeleted DEF Bootstrap
<1>4. /\ row' \in Row /\ app' \in App /\ file' \in File /\ db' \in Database
      /\ app'.state = "up" => app'.version \in Versions
  BY DEF Bootstrap, Database, SiteInv, TypeOK, ReleasesRun
<1>5. CASE exec' = Onward
  <2>1. GoesOn /\ exec'.version = exec.version
    BY <1>1, <1>5, OnwardGoesOn
  <2>2. Done'
    BY <1>1, <1>2, <2>1
       DEF SiteInv, Done, GoesOn, Bootstrap, StepAt, ProvisionAt, StartAt, RestartAt,
         StopAt, BackupAt, UpgradeAt, DeleteAt, ProvisionDone, UpgradeDone, StartDone,
         StopDone, DeleteDone, Serving, Public
  <2> QED
    BY <1>1, <1>3, <1>4, <2>1, <2>2, Continues DEF Bootstrap
<1>6. CASE exec' = Failed
  BY <1>1, <1>3, <1>4, <1>6, Fails DEF Bootstrap
<1> QED
  BY <1>1, <1>5, <1>6

LEMMA DownStep == SiteInv /\ Down => SiteInv'
<1> SUFFICES ASSUME SiteInv, Down PROVE SiteInv'
  OBVIOUS
<1>1. exec.mode = "run" /\ Token = "down" /\ exec' \in {Onward, Failed}
  BY DEF Down, At, Outcomes
<1>2. exec.pc \in 1..21 /\ StepAt(exec.type, exec.pc, "down")
  BY <1>1, AtStep
<1>3. ~row.deleted /\ ~row'.deleted
  BY <1>1, NotDeleted DEF Down
<1>4. /\ row' \in Row /\ app' \in App /\ file' \in File /\ db' \in Database
      /\ app'.state = "up" => app'.version \in Versions
  BY DEF Down, App, NoContainers, SiteInv, TypeOK, ReleasesRun
<1>5. CASE exec' = Onward
  <2>1. GoesOn /\ exec'.version = exec.version
    BY <1>1, <1>5, OnwardGoesOn
  <2>2. Done'
    BY <1>1, <1>2, <2>1
       DEF SiteInv, Done, GoesOn, Down, StepAt, ProvisionAt, StartAt, RestartAt,
         StopAt, BackupAt, UpgradeAt, DeleteAt, ProvisionDone, UpgradeDone, StartDone,
         StopDone, DeleteDone, Serving, Public, NoContainers
  <2> QED
    BY <1>1, <1>3, <1>4, <2>1, <2>2, Continues DEF Down
<1>6. CASE exec' = Failed
  BY <1>1, <1>3, <1>4, <1>6, Fails DEF Down
<1> QED
  BY <1>1, <1>5, <1>6

LEMMA DestroyStep == SiteInv /\ Destroy => SiteInv'
<1> SUFFICES ASSUME SiteInv, Destroy PROVE SiteInv'
  OBVIOUS
<1>1. exec.mode = "run" /\ Token = "destroy" /\ exec' \in {Onward, Failed}
  BY DEF Destroy, At, Outcomes
<1>2. exec.pc \in 1..21 /\ StepAt(exec.type, exec.pc, "destroy")
  BY <1>1, AtStep
<1>3. ~row.deleted /\ ~row'.deleted
  BY <1>1, NotDeleted DEF Destroy
<1>4. /\ row' \in Row /\ app' \in App /\ file' \in File /\ db' \in Database
      /\ app'.state = "up" => app'.version \in Versions
  BY DEF Destroy, App, NoContainers, SiteInv, TypeOK, ReleasesRun
<1>5. CASE exec' = Onward
  <2>1. GoesOn /\ exec'.version = exec.version
    BY <1>1, <1>5, OnwardGoesOn
  <2>2. Done'
    BY <1>1, <1>2, <2>1
       DEF SiteInv, Done, GoesOn, Destroy, StepAt, ProvisionAt, StartAt, RestartAt,
         StopAt, BackupAt, UpgradeAt, DeleteAt, ProvisionDone, UpgradeDone, StartDone,
         StopDone, DeleteDone, Serving, Public, NoContainers
  <2> QED
    BY <1>1, <1>3, <1>4, <2>1, <2>2, Continues DEF Destroy
<1>6. CASE exec' = Failed
  BY <1>1, <1>3, <1>4, <1>6, Fails DEF Destroy
<1> QED
  BY <1>1, <1>5, <1>6

LEMMA DropStep == SiteInv /\ DropDatabase => SiteInv'
<1> SUFFICES ASSUME SiteInv, DropDatabase PROVE SiteInv'
  OBVIOUS
<1>1. exec.mode = "run" /\ Token = "drop" /\ exec' \in {Onward, Failed}
  BY DEF DropDatabase, At, Outcomes
<1>2. exec.pc \in 1..21 /\ StepAt(exec.type, exec.pc, "drop")
  BY <1>1, AtStep
<1>3. ~row.deleted /\ ~row'.deleted
  BY <1>1, NotDeleted DEF DropDatabase
<1>4. /\ row' \in Row /\ app' \in App /\ file' \in File /\ db' \in Database
      /\ app'.state = "up" => app'.version \in Versions
  BY DEF DropDatabase, Database, SiteInv, TypeOK, ReleasesRun
<1>5. CASE exec' = Onward
  <2>1. GoesOn /\ exec'.version = exec.version
    BY <1>1, <1>5, OnwardGoesOn
  <2>2. Done'
    BY <1>1, <1>2, <2>1
       DEF SiteInv, Done, GoesOn, DropDatabase, StepAt, ProvisionAt, StartAt, RestartAt,
         StopAt, BackupAt, UpgradeAt, DeleteAt, ProvisionDone, UpgradeDone, StartDone,
         StopDone, DeleteDone, Serving, Public
  <2> QED
    BY <1>1, <1>3, <1>4, <2>1, <2>2, Continues DEF DropDatabase
<1>6. CASE exec' = Failed
  BY <1>1, <1>3, <1>4, <1>6, Fails DEF DropDatabase
<1> QED
  BY <1>1, <1>5, <1>6

LEMMA EraseStep == SiteInv /\ Erase => SiteInv'
<1> SUFFICES ASSUME SiteInv, Erase PROVE SiteInv'
  OBVIOUS
<1>1. exec.mode = "run" /\ Token = "erase" /\ exec' \in {Onward, Failed}
  BY DEF Erase, At, Outcomes
<1>2. exec.pc \in 1..21 /\ StepAt(exec.type, exec.pc, "erase")
  BY <1>1, AtStep
<1>3. ~row.deleted /\ ~row'.deleted
  BY <1>1, NotDeleted DEF Erase
<1>4. /\ row' \in Row /\ app' \in App /\ file' \in File /\ db' \in Database
      /\ app'.state = "up" => app'.version \in Versions
  BY DEF Erase, File, SiteInv, TypeOK, ReleasesRun
<1>5. CASE exec' = Onward
  <2>1. GoesOn /\ exec'.version = exec.version
    BY <1>1, <1>5, OnwardGoesOn
  <2>2. Done'
    BY <1>1, <1>2, <2>1
       DEF SiteInv, Done, GoesOn, Erase, StepAt, ProvisionAt, StartAt, RestartAt,
         StopAt, BackupAt, UpgradeAt, DeleteAt, ProvisionDone, UpgradeDone, StartDone,
         StopDone, DeleteDone, Serving, Public
  <2> QED
    BY <1>1, <1>3, <1>4, <2>1, <2>2, Continues DEF Erase
<1>6. CASE exec' = Failed
  BY <1>1, <1>3, <1>4, <1>6, Fails DEF Erase
<1> QED
  BY <1>1, <1>5, <1>6

-----------------------------------------------------------------------------
(* The other steps that change the row or what the execution remembers.    *)

LEMMA MarkStep == SiteInv /\ Mark => SiteInv'
<1> SUFFICES ASSUME SiteInv, Mark PROVE SiteInv'
  OBVIOUS
<1>1. exec.mode = "run" /\ Token = "mark" /\ exec' = Onward
  BY DEF Mark, At
<1>2. exec.pc = 1 /\ exec.type = "provision"
  BY <1>1, AtStep
     DEF StepAt, ProvisionAt, StartAt, RestartAt, StopAt, BackupAt, UpgradeAt, DeleteAt
<1>3. GoesOn
  BY <1>1, OnwardGoesOn
<1>4. row' \in Row /\ row'.deleted = row.deleted
  BY DEF Mark, SiteInv, TypeOK, Row, Status
<1>5. Done'
  BY <1>2, <1>3 DEF GoesOn, Done, ProvisionDone
<1> QED
  BY <1>1, <1>2, <1>3, <1>4, <1>5, Continues
     DEF Mark, LoadStep, SiteInv, TypeOK, ReleasesRun

LEMMA LoadIsStep == SiteInv /\ Load => SiteInv'
<1> SUFFICES ASSUME SiteInv, Load PROVE SiteInv'
  OBVIOUS
<1>1. exec.mode = "run" /\ Token = "load" /\ ~row.deleted
  BY DEF Load, At, SiteLoads
<1>2. exec.pc \in 1..21 /\ StepAt(exec.type, exec.pc, "load")
  BY <1>1, AtStep
<1>3. /\ Onward \in Exec /\ Onward.pc = exec.pc + 1 /\ Onward.type = exec.type
      /\ Onward.mode = "run"
  BY <1>1, OnwardIs
<1>4. PICK v \in Versions, s \in Status :
         /\ exec' = [Onward EXCEPT !.version = v, !.status = s]
         /\ exec.type = "provision" => v = row.desired
  BY <1>3 DEF Load, SiteInv, TypeOK, Row, Exec
<1>5. GoesOn /\ exec'.version = v
  <2>1. exec' \in Exec /\ exec'.pc = exec.pc + 1 /\ exec'.type = exec.type
    BY <1>3, <1>4 DEF Exec
  <2>2. exec'.mode = "run" /\ exec'.version = v
    BY <1>3, <1>4 DEF Exec
  <2> QED
    BY <1>1, <2>1, <2>2 DEF GoesOn
<1>6. Done'
  BY <1>2, <1>4, <1>5
     DEF Done, GoesOn, Load, StepAt, ProvisionAt, StartAt, RestartAt, StopAt, BackupAt,
         UpgradeAt, DeleteAt, ProvisionDone, UpgradeDone, StartDone, StopDone, DeleteDone
<1> QED
  BY <1>1, <1>5, <1>6, Continues DEF Load, SiteInv, TypeOK, ReleasesRun

LEMMA AimStep == SiteInv /\ Aim => SiteInv'
<1> SUFFICES ASSUME SiteInv, Aim PROVE SiteInv'
  OBVIOUS
<1>1. exec.mode = "run" /\ Token = "aim" /\ exec' = Onward
  BY DEF Aim, At
<1>2. exec.pc = 3 /\ exec.type = "upgrade" /\ exec.type \in Types
  BY <1>1, AtStep
     DEF StepAt, ProvisionAt, StartAt, RestartAt, StopAt, BackupAt, UpgradeAt, DeleteAt
<1>3. GoesOn /\ ~row.deleted
  BY <1>1, OnwardGoesOn, NotDeleted
<1>4. jobs["upgrade"].target \in Versions
  BY <1>2 DEF Aim, SiteInv, TypeOK, Job
<1>5. row' \in Row /\ row'.deleted = row.deleted
  BY <1>4 DEF Aim, SiteInv, TypeOK, Row, Status
<1>6. Done'
  BY <1>2, <1>3, <1>4 DEF GoesOn, Aim, Done, UpgradeDone
<1> QED
  BY <1>1, <1>3, <1>5, <1>6, Continues DEF Aim, SiteInv, TypeOK, ReleasesRun

LEMMA OpenStep == SiteInv /\ Open => SiteInv'
<1> SUFFICES ASSUME SiteInv, Open PROVE SiteInv'
  OBVIOUS
<1>1. exec.mode = "run" /\ Token = "open" /\ ~row.deleted
  BY NotDeleted DEF Open, At
<1>2. exec.pc = 16 /\ exec.type = "provision"
  BY <1>1, AtStep
     DEF StepAt, ProvisionAt, StartAt, RestartAt, StopAt, BackupAt, UpgradeAt, DeleteAt
<1>3. /\ Onward \in Exec /\ Onward.pc = exec.pc + 1 /\ Onward.type = exec.type
      /\ Onward.mode = "run" /\ Onward.version = exec.version
  BY <1>1, OnwardIs
<1>4. GoesOn /\ exec'.version = exec.version
  BY <1>1, <1>3 DEF GoesOn, Open, Exec
<1>5. Done'
  BY <1>1, <1>2, <1>4 DEF SiteInv, GoesOn, Open, Done, ProvisionDone
<1> QED
  BY <1>1, <1>4, <1>5, Continues DEF Open, SiteInv, TypeOK, ReleasesRun

-----------------------------------------------------------------------------
(* The end of an execution.                                                *)

LEMMA IdleIsExec == Idle \in Exec
BY VersionsAssumption DEF Idle, Exec, Status

LEMMA Ends ==
    ASSUME SiteInv, exec' = Idle, UNCHANGED <<app, file, db, report, created>>,
           row' \in Row, jobs' \in [Types -> Job],
           row'.deleted =>
               \/ row.deleted
               \/ app = NoContainers("none") /\ file = "none" /\ db = "absent"
    PROVE  SiteInv'
<1>1. TypeOK' /\ ReleasesRun'
  BY IdleIsExec DEF SiteInv, TypeOK, ReleasesRun
<1>2. ExecOK' /\ Done'
  BY DEF ExecOK, Done, Idle
<1>3. Gone'
  BY DEF SiteInv, Gone, Idle
<1> QED
  BY <1>1, <1>2, <1>3 DEF SiteInv

LEMMA FinishStep == SiteInv /\ Finish => SiteInv'
<1> SUFFICES ASSUME SiteInv, Finish PROVE SiteInv'
  OBVIOUS
<1>1. exec.mode = "run" /\ Token = "finish" /\ ~row.deleted
  BY NotDeleted DEF Finish, At
<1>2. /\ exec.type \in Types /\ exec.type \in AllOps \cup {"provision"}
      /\ StepAt(exec.type, exec.pc, "finish") /\ exec.pc \in 1..21 /\ exec \in Exec
  BY <1>1, AtStep
<1>3. exec.type = "upgrade" => jobs["upgrade"].target \in Versions
  BY <1>1, <1>2 DEF SiteInv, Done, UpgradeDone, StepAt, UpgradeAt
<1>4. row' \in Row
  <2>1. /\ row \in Row /\ row' = ClosedRow
        /\ exec.type = "backup" => exec.status \in Status
        /\ row.desired \in Versions
    BY <1>2 DEF Finish, SiteInv, TypeOK, Row, Exec
  <2>2. CASE exec.type = "provision"
    BY <2>1, <2>2 DEF ClosedRow, Row, Status
  <2>3. CASE exec.type = "upgrade"
    BY <1>3, <2>1, <2>3 DEF ClosedRow, Row, Status
  <2>4. CASE exec.type = "delete"
    BY <2>1, <2>4 DEF ClosedRow, Row, Status
  <2>5. CASE exec.type \in {"start", "unfreeze", "restart", "stop", "freeze", "backup"}
    BY <2>1, <2>5 DEF ClosedRow, Row, Status
  <2> QED
    BY <1>2, <2>2, <2>3, <2>4, <2>5 DEF AllOps
<1>5. row'.deleted => exec.type = "delete"
  BY <1>1, <1>2 DEF Finish, ClosedRow, AllOps, SiteInv, TypeOK, Row
<1>6. exec.type = "delete" =>
         app = NoContainers("none") /\ file = "none" /\ db = "absent"
  BY <1>1, <1>2 DEF SiteInv, Done, DeleteDone, StepAt, DeleteAt
<1>7. jobs' \in [Types -> Job]
  BY DEF Finish, SiteInv, TypeOK, Job, Ended
<1> QED
  BY <1>4, <1>5, <1>6, <1>7, Ends DEF Finish

LEMMA FailJobStep == SiteInv /\ FailJob => SiteInv'
<1> SUFFICES ASSUME SiteInv, FailJob PROVE SiteInv'
  OBVIOUS
<1>1. row' \in Row /\ row'.deleted = row.deleted
  <2>1. row \in Row /\ row' \in {FailedRow, row}
    BY DEF FailJob, SiteInv, TypeOK
  <2>2. CASE exec.type \in {"provision", "delete"}
    BY <2>1, <2>2 DEF FailedRow, Row, Status
  <2>3. CASE exec.type = "upgrade"
    BY <2>1, <2>3 DEF FailedRow, Row, Status
  <2>4. CASE exec.type \notin {"provision", "delete", "upgrade"}
    BY <2>1, <2>4 DEF FailedRow
  <2> QED
    BY <2>2, <2>3, <2>4
<1>2. jobs' \in [Types -> Job]
  <2>1. ASSUME NEW j \in Job PROVE FailedJob(j) \in Job
    BY DEF FailedJob, Job, Ended
  <2> QED
    BY <2>1 DEF FailJob, SiteInv, TypeOK
<1> QED
  BY <1>1, <1>2, Ends DEF FailJob

LEMMA CrashStep == SiteInv /\ Crash => SiteInv'
BY Ends DEF Crash, SiteInv, TypeOK

-----------------------------------------------------------------------------
(* Failures.                                                               *)

LEMMA StepFailsStep == SiteInv /\ StepFails => SiteInv'
BY Fails DEF StepFails, SiteInv, TypeOK, ReleasesRun

LEMMA RouteFailsStep == SiteInv /\ RouteFails => SiteInv'
<1> SUFFICES ASSUME SiteInv, RouteFails PROVE SiteInv'
  OBVIOUS
<1>1. row' \in Row /\ row'.deleted = row.deleted
  BY DEF RouteFails, SiteInv, TypeOK, Row
<1> QED
  BY <1>1, Fails DEF RouteFails, At, SiteInv, TypeOK, ReleasesRun

\* What follows a failure, until the job is recorded as failed.
LEMMA WindsUp ==
    ASSUME SiteInv, exec.mode \notin {"idle", "run"},
           exec' \in Exec, exec'.type = exec.type,
           exec'.mode \notin {"idle", "run", "cleanup", "rollback"},
           exec'.mode \in {"close", "record"} => exec.type = "provision",
           exec'.mode = "restore" => exec.type = "upgrade",
           exec'.opened => exec.opened,
           UNCHANGED <<jobs, db, report, created>>,
           row' \in Row, app' \in App, file' \in File,
           app'.state = "up" => app'.version \in Versions,
           row'.deleted => row.deleted /\ UNCHANGED <<app, file>>
    PROVE  SiteInv'
<1>1. exec.type \in Types /\ jobs[exec.type].status = "running"
  BY DEF SiteInv, ExecOK, Idle
<1>2. TypeOK' /\ ReleasesRun'
  BY DEF SiteInv, TypeOK, ReleasesRun
<1>3. ExecOK' /\ Done'
  BY <1>1 DEF ExecOK, Done
<1>4. Gone'
  BY DEF SiteInv, Gone
<1> QED
  BY <1>2, <1>3, <1>4 DEF SiteInv

LEMMA FailingIs ==
    ASSUME SiteInv, exec # Idle
    PROVE  /\ Failing \in Exec /\ Failing.type = exec.type
           /\ Failing.mode = "failing" /\ ~Failing.opened
<1>1. exec.type \in Types
  BY DEF SiteInv, ExecOK
<1> QED
  BY <1>1, IdleIsExec DEF Failing, Idle, Exec

\* An execution that only changes its mode.
LEMMA ModeIs ==
    ASSUME SiteInv, NEW to \in {"close", "record", "restore"},
           exec' = [exec EXCEPT !.mode = to]
    PROVE  /\ exec' \in Exec /\ exec'.type = exec.type /\ exec'.mode = to
           /\ exec'.opened <=> exec.opened
<1>1. exec' \in Exec /\ exec'.type = exec.type /\ exec'.mode = to
  BY DEF SiteInv, TypeOK, Exec
<1>2. exec'.opened <=> exec.opened
  BY DEF SiteInv, TypeOK, Exec
<1> QED
  BY <1>1, <1>2

LEMMA CleanupChecksStep == SiteInv /\ CleanupChecks => SiteInv'
<1> SUFFICES ASSUME SiteInv, CleanupChecks PROVE SiteInv'
  OBVIOUS
<1>1. exec.mode = "cleanup" /\ exec # Idle /\ exec.type = "provision"
  BY DEF CleanupChecks, Idle, SiteInv, ExecOK
<1>2. CASE exec' = [exec EXCEPT !.mode = "close"]
  BY <1>1, <1>2, ModeIs, WindsUp DEF CleanupChecks, SiteInv, TypeOK, ReleasesRun
<1>3. CASE exec' = Failing
  BY <1>1, <1>3, FailingIs, WindsUp DEF CleanupChecks, SiteInv, TypeOK, ReleasesRun
<1> QED
  BY <1>2, <1>3 DEF CleanupChecks

\* What the clean-up and the roll-back start is a release.
LEMMA RunningIs ==
    ASSUME SiteInv, NEW public \in BOOLEAN,
           app' \in {app, Running(exec.version, public)}
    PROVE  app' \in App /\ (app'.state = "up" => app'.version \in Versions)
BY DEF SiteInv, TypeOK, Exec, App, Running, ReleasesRun

LEMMA CleanupClosesStep == SiteInv /\ CleanupCloses => SiteInv'
<1> SUFFICES ASSUME SiteInv, CleanupCloses PROVE SiteInv'
  OBVIOUS
<1>1. /\ exec.mode = "close" /\ exec.type = "provision"
      /\ exec' = [exec EXCEPT !.mode = "record"]
  BY DEF CleanupCloses, Mode, SiteInv, ExecOK
<1>2. /\ exec' \in Exec /\ exec'.type = exec.type /\ exec'.mode = "record"
      /\ exec'.opened <=> exec.opened
  BY <1>1, ModeIs
<1>3. app' \in App /\ (app'.state = "up" => app'.version \in Versions)
  BY RunningIs DEF CleanupCloses
<1>4. file' \in File
  BY DEF CleanupCloses, SiteInv, TypeOK, File
<1>5. row.deleted => UNCHANGED <<app, file>>
  BY DEF CleanupCloses, SiteInv, Gone
<1> QED
  BY <1>1, <1>2, <1>3, <1>4, <1>5, WindsUp DEF CleanupCloses, SiteInv, TypeOK

LEMMA CleanupRecordsStep == SiteInv /\ CleanupRecords => SiteInv'
<1> SUFFICES ASSUME SiteInv, CleanupRecords PROVE SiteInv'
  OBVIOUS
<1>1. exec.mode = "record" /\ exec # Idle
  BY DEF CleanupRecords, Idle
<1>2. row' \in Row /\ row'.deleted = row.deleted
  BY DEF CleanupRecords, SiteInv, TypeOK, Row
<1> QED
  BY <1>1, <1>2, FailingIs, WindsUp DEF CleanupRecords, SiteInv, TypeOK, ReleasesRun

LEMMA RollbackStep == SiteInv /\ Rollback => SiteInv'
<1> SUFFICES ASSUME SiteInv, Rollback PROVE SiteInv'
  OBVIOUS
<1>1. /\ exec.mode = "rollback" /\ exec.type = "upgrade"
      /\ exec' = [exec EXCEPT !.mode = "restore"]
  BY DEF Rollback, Mode, SiteInv, ExecOK
<1>2. /\ exec' \in Exec /\ exec'.type = exec.type /\ exec'.mode = "restore"
      /\ exec'.opened <=> exec.opened
  BY <1>1, ModeIs
<1>3. app' \in App /\ (app'.state = "up" => app'.version \in Versions)
  BY RunningIs DEF Rollback
<1>4. file' \in File
  BY DEF Rollback, SiteInv, TypeOK, File
<1>5. ~row.deleted
  BY <1>1 DEF SiteInv, Gone
<1> QED
  BY <1>1, <1>2, <1>3, <1>4, <1>5, WindsUp DEF Rollback, SiteInv, TypeOK

LEMMA RollbackRestoresStep == SiteInv /\ RollbackRestores => SiteInv'
<1> SUFFICES ASSUME SiteInv, RollbackRestores PROVE SiteInv'
  OBVIOUS
<1>1. exec.mode = "restore" /\ exec # Idle
  BY DEF RollbackRestores, Idle
<1>2. row' \in Row /\ row'.deleted = row.deleted
  BY DEF RollbackRestores, SiteInv, TypeOK, Row, Status
<1> QED
  BY <1>1, <1>2, FailingIs, WindsUp DEF RollbackRestores, SiteInv, TypeOK, ReleasesRun

-----------------------------------------------------------------------------
(* Jobs, reports and maintenance.                                          *)

LEMMA CreateJobStep ==
    ASSUME SiteInv, NEW t \in Ops, NEW target, CreateSiteJob(t, target)
    PROVE  SiteInv'
<1>1. exec = Idle
  BY DEF CreateSiteJob, Active, SiteInv, ExecOK
<1>2. ~row.deleted
  BY DEF CreateSiteJob
<1>3. row' \in Row /\ row'.deleted = row.deleted
  BY DEF CreateSiteJob, SiteInv, TypeOK, Row, Status
<1>4. jobs' \in [Types -> Job]
  <2>1. target \in Versions \cup {NoVersion}
    BY DEF CreateSiteJob, Targets
  <2>2. [Ended("pending") EXCEPT !.target = target] \in Job
    BY <2>1 DEF Ended, Job
  <2> QED
    BY <2>2 DEF CreateSiteJob, SiteInv, TypeOK
<1>5. created' \in 0..MaxCreated
  BY CreatedAssumption DEF CreateSiteJob, SiteInv, TypeOK
<1>6. TypeOK' /\ ReleasesRun'
  BY <1>3, <1>4, <1>5 DEF CreateSiteJob, SiteInv, TypeOK, ReleasesRun
<1>7. ExecOK' /\ Done'
  BY <1>1 DEF CreateSiteJob, ExecOK, Done, Idle
<1>8. Gone'
  BY <1>2, <1>3 DEF Gone
<1> QED
  BY <1>6, <1>7, <1>8 DEF SiteInv

\* Another job, or another column of the job that is executed.
LEMMA JobsChange ==
    ASSUME SiteInv, NEW t \in Types, NEW j \in Job, jobs' = [jobs EXCEPT ![t] = j],
           exec # Idle /\ t = exec.type => j.status = jobs[t].status,
           j.target = jobs[t].target,
           UNCHANGED <<row, exec, app, file, db, report, created>>
    PROVE  SiteInv'
<1>1. jobs' \in [Types -> Job]
  BY DEF SiteInv, TypeOK
<1>2. TypeOK' /\ ReleasesRun' /\ Gone'
  BY <1>1 DEF SiteInv, TypeOK, ReleasesRun, Gone, LoadStep
<1>3. ExecOK'
  BY DEF SiteInv, TypeOK, ExecOK
<1>4. exec.type = "upgrade" /\ exec # Idle =>
         jobs'["upgrade"].target = jobs["upgrade"].target
  BY DEF SiteInv, TypeOK, ExecOK
<1>5. Done'
  BY <1>4
     DEF SiteInv, Done, Idle, ProvisionDone, UpgradeDone, StartDone, StopDone, DeleteDone,
         Serving, Public
<1> QED
  BY <1>2, <1>3, <1>5 DEF SiteInv

LEMMA RetryStep ==
    ASSUME SiteInv, NEW t \in Types, RetryJob(t)
    PROVE  SiteInv'
<1>1. PICK j \in Job : jobs' = [jobs EXCEPT ![t] = j] /\ j.target = jobs[t].target
  <2>1. [jobs[t] EXCEPT !.status = "pending"] \in Job
    BY DEF SiteInv, TypeOK, Job
  <2>2. [jobs[t] EXCEPT !.status = "pending"].target = jobs[t].target
    BY DEF SiteInv, TypeOK, Job
  <2> QED
    BY <2>1, <2>2 DEF RetryJob
<1>2. ~(exec # Idle /\ t = exec.type)
  BY DEF RetryJob, SiteInv, ExecOK
<1> QED
  BY <1>1, <1>2, JobsChange DEF RetryJob

LEMMA LeaseStep ==
    ASSUME SiteInv, NEW t \in Types, LeaseExpires(t)
    PROVE  SiteInv'
<1>1. PICK j \in Job : /\ jobs' = [jobs EXCEPT ![t] = j]
                       /\ j.target = jobs[t].target /\ j.status = jobs[t].status
  <2>1. [jobs[t] EXCEPT !.lease = FALSE] \in Job
    BY DEF SiteInv, TypeOK, Job
  <2>2. /\ [jobs[t] EXCEPT !.lease = FALSE].target = jobs[t].target
        /\ [jobs[t] EXCEPT !.lease = FALSE].status = jobs[t].status
    BY DEF SiteInv, TypeOK, Job
  <2> QED
    BY <2>1, <2>2 DEF LeaseExpires
<1> QED
  BY <1>1, JobsChange DEF LeaseExpires

LEMMA ClaimStep ==
    ASSUME SiteInv, NEW t \in Types, ClaimNextJob(t)
    PROVE  SiteInv'
<1>1. jobs' \in [Types -> Job] /\ jobs'[t].status = "running"
  <2>1. [jobs[t] EXCEPT !.status = "running", !.lease = TRUE] \in Job
    BY DEF SiteInv, TypeOK, Job
  <2>2. jobs' = [jobs EXCEPT ![t] = [jobs[t] EXCEPT !.status = "running", !.lease = TRUE]]
    BY DEF ClaimNextJob, SiteInv, TypeOK
  <2>3. [jobs[t] EXCEPT !.status = "running", !.lease = TRUE].status = "running"
    BY DEF SiteInv, TypeOK, Job
  <2> QED
    BY <2>1, <2>2, <2>3 DEF SiteInv, TypeOK
<1>2. /\ exec' \in Exec /\ exec'.type = t /\ exec'.mode = "run" /\ exec'.pc = 1
      /\ ~exec'.opened
  <2>1. 1 \in 0..21
    OBVIOUS
  <2> QED
    BY <2>1, IdleIsExec DEF ClaimNextJob, Idle, Exec
<1>3. TypeOK' /\ ReleasesRun'
  BY <1>1, <1>2 DEF ClaimNextJob, SiteInv, TypeOK, ReleasesRun
<1>4. ExecOK'
  <2>1. 1 \in 1..Len(Program[t])
    <3>1. t \in AllOps \cup {"provision"}
      BY TypesAre
    <3>2. /\ Len(ProvisionSteps) = 21 /\ Len(StartSteps) = 9 /\ Len(RestartSteps) = 8
          /\ Len(StopSteps) = 5 /\ Len(BackupSteps) = 4 /\ Len(UpgradeSteps) = 13
          /\ Len(DeleteSteps) = 10
      BY DEF ProvisionSteps, StartSteps, RestartSteps, StopSteps, BackupSteps,
             UpgradeSteps, DeleteSteps
    <3>3. Len(Program[t]) \in {4, 5, 8, 9, 10, 13, 21}
      BY <3>1, <3>2 DEF AllOps, Program
    <3> QED
      BY <3>3
  <2> QED
    BY <1>1, <1>2, <2>1 DEF ExecOK
<1>5. Done'
  BY <1>2 DEF Done, ProvisionDone, UpgradeDone, StartDone, StopDone, DeleteDone
<1>6. Gone'
  BY <1>2 DEF ClaimNextJob, SiteInv, Gone, LoadStep
<1> QED
  BY <1>3, <1>4, <1>5, <1>6 DEF SiteInv

\* Reports and the maintenance write columns of the row that no execution
\* relies on.
LEMMA RowChanges ==
    ASSUME SiteInv, row' \in Row, row'.desired = row.desired, row'.route = row.route,
           row'.deleted = row.deleted, report' \in Report,
           report'.accepted => report'.version \in Versions,
           UNCHANGED <<jobs, exec, app, file, db, created>>
    PROVE  SiteInv'
<1>1. TypeOK' /\ ReleasesRun' /\ ExecOK'
  BY DEF SiteInv, TypeOK, ReleasesRun, ExecOK
<1>2. Done'
  BY DEF SiteInv, Done, ProvisionDone, UpgradeDone, StartDone, StopDone, DeleteDone,
         Serving, Public
<1>3. Gone'
  BY DEF SiteInv, Gone, LoadStep
<1> QED
  BY <1>1, <1>2, <1>3 DEF SiteInv

LEMMA NoReportIs == NoReport \in Report /\ ~NoReport.accepted
BY DEF NoReport, Report

LEMMA VerifyStep == SiteInv /\ VerifySiteSignature => SiteInv'
<1> SUFFICES ASSUME SiteInv, VerifySiteSignature PROVE SiteInv'
  OBVIOUS
<1>1. PICK healthy \in BOOLEAN :
         report' = [accepted |-> TRUE, version |-> app.version, healthy |-> healthy]
  BY DEF VerifySiteSignature
<1>2. app.version \in Versions
  BY DEF VerifySiteSignature, ReporterRuns, SiteInv, ReleasesRun
<1> QED
  BY <1>1, <1>2, RowChanges DEF VerifySiteSignature, Report, SiteInv, TypeOK

LEMMA HeartbeatStep == SiteInv /\ Heartbeat => SiteInv'
<1> SUFFICES ASSUME SiteInv, Heartbeat PROVE SiteInv'
  OBVIOUS
<1>1. report.version \in Versions
  BY DEF Heartbeat, SiteInv, ReleasesRun
<1>2. /\ row' \in Row /\ row'.desired = row.desired /\ row'.route = row.route
      /\ row'.deleted = row.deleted
  BY <1>1 DEF Heartbeat, SiteInv, TypeOK, Row, Status
<1> QED
  BY <1>2, NoReportIs, RowChanges DEF Heartbeat

LEMMA ReportLostStep == SiteInv /\ ReportLost => SiteInv'
BY NoReportIs, RowChanges DEF ReportLost, SiteInv, TypeOK

LEMMA BeatStep ==
    ASSUME SiteInv, NEW age, BeatAges(age)
    PROVE  SiteInv'
<1>1. /\ row' \in Row /\ row'.desired = row.desired /\ row'.route = row.route
      /\ row'.deleted = row.deleted
  BY DEF BeatAges, SiteInv, TypeOK, Row
<1> QED
  BY <1>1, RowChanges DEF BeatAges, SiteInv, TypeOK, ReleasesRun

LEMMA MaintenanceStep == SiteInv /\ RunMaintenance => SiteInv'
<1> SUFFICES ASSUME SiteInv, RunMaintenance PROVE SiteInv'
  OBVIOUS
<1>1. /\ row' \in Row /\ row'.desired = row.desired /\ row'.route = row.route
      /\ row'.deleted = row.deleted
  BY DEF RunMaintenance, SweptStatus, SiteInv, TypeOK, Row, Status
<1> QED
  BY <1>1, RowChanges DEF RunMaintenance, SiteInv, TypeOK, ReleasesRun

-----------------------------------------------------------------------------
LEMMA ExecuteStep == SiteInv /\ Execute => SiteInv'
BY MarkStep, FenceStep, LoadIsStep, AimStep, CreateStep, OpenStep, UpStep, BootstrapStep,
   DownStep, DestroyStep, DropStep, EraseStep, FinishStep, PrivateStep, PublicStep,
   ActivateStep, ServeStep, DisableStep, DumpStep, ReadyStep, RouteStep, StepFailsStep,
   RouteFailsStep, CleanupChecksStep, CleanupClosesStep, CleanupRecordsStep,
   RollbackStep, RollbackRestoresStep, FailJobStep DEF Execute

LEMMA SiteInductive == SiteInv /\ [Next]_vars => SiteInv'
<1> SUFFICES ASSUME SiteInv, [Next]_vars PROVE SiteInv'
  OBVIOUS
<1>1. CASE \E t \in Ops, target \in Versions \cup {NoVersion} : CreateSiteJob(t, target)
  BY <1>1, CreateJobStep
<1>2. CASE \E t \in Types : RetryJob(t) \/ ClaimNextJob(t) \/ LeaseExpires(t)
  BY <1>2, RetryStep, ClaimStep, LeaseStep
<1>3. CASE Crash
  BY <1>3, CrashStep
<1>4. CASE Execute
  BY <1>4, ExecuteStep
<1>5. CASE VerifySiteSignature \/ Heartbeat \/ ReportLost
  BY <1>5, VerifyStep, HeartbeatStep, ReportLostStep
<1>6. CASE \E age \in Ages : BeatAges(age)
  BY <1>6, BeatStep
<1>7. CASE RunMaintenance
  BY <1>7, MaintenanceStep
<1>8. CASE UNCHANGED vars
  BY <1>8
     DEF vars, SiteInv, TypeOK, ExecOK, ReleasesRun, Done, ProvisionDone, UpgradeDone,
         StartDone, StopDone, DeleteDone, Serving, Public, Gone, LoadStep
<1> QED
  BY <1>1, <1>2, <1>3, <1>4, <1>5, <1>6, <1>7, <1>8 DEF Next

-----------------------------------------------------------------------------
THEOREM SiteInvariance == Spec => []SiteInv
<1>1. Init => SiteInv
  BY SiteInitial
<1>2. SiteInv /\ [Next]_vars => SiteInv'
  BY SiteInductive
<1> QED
  BY <1>1, <1>2, PTL DEF Spec

\* Whatever the site reports and whatever fails, current_version is a release
\* that ran, and no program runs past its last step.
THEOREM SiteKeepsItsShape == Spec => []TypeOK
<1>1. SiteInv => TypeOK
  BY DEF SiteInv
<1> QED
  BY <1>1, SiteInvariance, PTL

\* Of a deleted site nothing is left on the node, whatever is retried later
\* (runDelete, loadSite).
THEOREM NothingIsLeft == Spec => []DeletedLeavesNothing
<1>1. SiteInv => DeletedLeavesNothing
  BY DEF SiteInv, Gone, DeletedLeavesNothing
<1> QED
  BY <1>1, SiteInvariance, PTL

-----------------------------------------------------------------------------
(* The action properties.                                                  *)

\* Only the closing transaction ends a job as completed.
LEMMA OnlyFinishCompletes ==
    ASSUME SiteInv, [Next]_vars, NEW t \in Types, Completes(t)
    PROVE  Finish
<1>1. /\ exec.type = t /\ exec.mode = "run" /\ exec # Idle
      /\ jobs[t].status = "running" /\ jobs'[t].status = "none"
  BY DEF Completes, At, Idle
<1>2. CASE \E o \in Ops, target \in Versions \cup {NoVersion} : CreateSiteJob(o, target)
  BY <1>1, <1>2 DEF CreateSiteJob, Active
<1>3. CASE \E u \in Types : RetryJob(u) \/ ClaimNextJob(u) \/ LeaseExpires(u)
  <2>1. PICK u \in Types : RetryJob(u) \/ LeaseExpires(u)
    BY <1>1, <1>3 DEF ClaimNextJob
  <2>2. CASE RetryJob(u)
    BY <1>1, <2>2 DEF RetryJob, SiteInv, TypeOK
  <2>3. CASE LeaseExpires(u)
    BY <1>1, <2>3 DEF LeaseExpires, SiteInv, TypeOK, Job
  <2> QED
    BY <2>1, <2>2, <2>3
<1>4. CASE Execute /\ ~Finish
  <2>1. Execute => Finish \/ FailJob \/ UNCHANGED jobs
    BY DEF Execute, Mark, Fence, Load, Aim, CreateDatabase, Open, Up, Bootstrap, Down,
           Destroy, DropDatabase, Erase, Render, SetRouteState, Check, StepFails,
           RouteFails, CleanupChecks, CleanupCloses, CleanupRecords, Rollback,
           RollbackRestores
  <2> QED
    BY <1>1, <1>4, <2>1 DEF FailJob
<1>5. CASE UNCHANGED jobs
  BY <1>1, <1>5
<1>6. Crash \/ VerifySiteSignature \/ Heartbeat \/ ReportLost \/ RunMaintenance
      \/ (\E age \in Ages : BeatAges(age)) => UNCHANGED jobs
  BY DEF Crash, VerifySiteSignature, Heartbeat, ReportLost, RunMaintenance, BeatAges
<1> QED
  BY <1>2, <1>3, <1>4, <1>5, <1>6 DEF Next, vars

LEMMA FinishMeansDone ==
    ASSUME SiteInv, NEW t \in Types, exec.type = t, Finish
    PROVE  /\ t \in Opening =>
                /\ Serving /\ Public
                /\ row'.status = "active" /\ row'.route = "active"
           /\ t \in {"provision", "upgrade"} => row'.current = app.version
           /\ t \in {"stop", "freeze"} => app.state # "up" /\ row'.route = "disabled"
<1>1. exec.mode = "run" /\ Token = "finish" /\ row' = ClosedRow /\ row \in Row
  BY DEF Finish, At, SiteInv, TypeOK
<1>2. StepAt(t, exec.pc, "finish")
  BY <1>1, AtStep
<1>3. CASE t = "provision"
  <2>1. exec.pc = 21 /\ ProvisionDone
    BY <1>1, <1>2, <1>3 DEF StepAt, ProvisionAt, SiteInv, Done
  <2>2. Serving /\ Public /\ app.version = row.desired
    BY <2>1 DEF ProvisionDone, Serving, Public
  <2>3. row'.status = "active" /\ row'.route = "active" /\ row'.current = row.desired
    BY <1>1, <1>3 DEF ClosedRow, Row
  <2> QED
    BY <1>3, <2>2, <2>3
<1>4. CASE t = "upgrade"
  <2>1. exec.pc = 13 /\ UpgradeDone
    BY <1>1, <1>2, <1>4 DEF StepAt, UpgradeAt, SiteInv, Done
  <2>2. Serving /\ Public /\ app.version = jobs["upgrade"].target
    BY <2>1 DEF UpgradeDone
  <2>3. /\ row'.status = "active" /\ row'.route = "active"
        /\ row'.current = jobs["upgrade"].target
    BY <1>1, <1>4 DEF ClosedRow, Row
  <2> QED
    BY <1>4, <2>2, <2>3
<1>5. CASE t \in {"start", "unfreeze", "restart"}
  <2>1. Serving /\ Public /\ row.route = "active"
    BY <1>1, <1>2, <1>5 DEF StepAt, StartAt, RestartAt, SiteInv, Done, StartDone
  <2> QED
    BY <1>1, <1>5, <2>1 DEF ClosedRow, Row
<1>6. CASE t \in {"stop", "freeze"}
  <2>1. app.state # "up" /\ row.route = "disabled"
    BY <1>1, <1>2, <1>6 DEF StepAt, StopAt, SiteInv, Done, StopDone
  <2> QED
    BY <1>1, <1>6, <2>1 DEF ClosedRow, Row, Opening
<1> QED
  BY <1>3, <1>4, <1>5, <1>6 DEF Opening

\* A job that ends as completed has really happened, after whatever crashes,
\* retries and failed jobs before it (completeOperation, runProvision,
\* runUpgrade).
THEOREM CompletedJobsHappened == Spec => CompletedMeansDone
<1>1. SiteInv /\ [Next]_vars =>
         [\A t \in Types : Completes(t) =>
            /\ t \in Opening =>
                  /\ Serving /\ Public
                  /\ row'.status = "active" /\ row'.route = "active"
            /\ t \in {"provision", "upgrade"} => row'.current = app.version
            /\ t \in {"stop", "freeze"} => app.state # "up" /\ row'.route = "disabled"]_vars
  BY OnlyFinishCompletes, FinishMeansDone DEF Completes
<1> QED
  BY <1>1, SiteInvariance, PTL DEF Spec, CompletedMeansDone

\* Provisioning publishes a site only when its database is initialised, at the
\* first attempt and at every later one (runProvision).
THEOREM SitesOpenReady == Spec => ProvisionOpensLast
<1>1. ASSUME SiteInv, [Next]_vars, exec.type = "provision", ~Public, Public'
      PROVE  db = "ready"
  <2>1. app' # app
    BY <1>1 DEF Public
  <2>2. Up \/ Down \/ Destroy \/ CleanupCloses \/ Rollback
    BY <1>1, <2>1
       DEF Next, vars, Execute, Mark, Fence, Load, Aim, CreateDatabase, Open, Bootstrap,
           DropDatabase, Erase, Finish, Render, SetRouteState, Check, StepFails,
           RouteFails, CleanupChecks, CleanupRecords, RollbackRestores, FailJob,
           CreateSiteJob, RetryJob, ClaimNextJob, LeaseExpires, Crash,
           VerifySiteSignature, Heartbeat, ReportLost, BeatAges, RunMaintenance
  <2>3. CASE Up
    <3>1. exec.mode = "run" /\ Token = "up"
      BY <2>3 DEF Up, At
    <3>2. exec.pc \in {9, 17} /\ ProvisionDone
      BY <1>1, <3>1, AtStep DEF StepAt, ProvisionAt, SiteInv, Done
    <3>3. file = "public"
      BY <1>1, <2>3 DEF Up, Public, Running
    <3> QED
      BY <3>2, <3>3 DEF ProvisionDone
  <2>4. CASE Down \/ Destroy \/ CleanupCloses
    BY <1>1, <2>1, <2>4 DEF Down, Destroy, CleanupCloses, Public, NoContainers, Running
  <2>5. CASE Rollback
    BY <1>1, <2>5 DEF Rollback, Mode, SiteInv, ExecOK
  <2> QED
    BY <2>2, <2>3, <2>4, <2>5
<1>2. SiteInv /\ [Next]_vars => [exec.type = "provision" /\ ~Public /\ Public' => db = "ready"]_vars
  BY <1>1
<1> QED
  BY <1>2, SiteInvariance, PTL DEF Spec, ProvisionOpensLast
=============================================================================
