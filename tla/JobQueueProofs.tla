--------------------------- MODULE JobQueueProofs ---------------------------
(***************************************************************************)
(* Theorems about JobQueue, for any number of jobs, sites, processes,      *)
(* attempts and steps: its invariants, its action properties, and that it  *)
(* implements JobContract.                                                 *)
(*                                                                         *)
(* The argument of the second half: a claim that stands has not been taken *)
(* over, so the steps that its holder counts are the steps of this start   *)
(* (StepsOK), and a site that its holder has found cannot have been        *)
(* deleted since, because the deletion would be a second active operation  *)
(* of the site (SiteLoaded).                                               *)
(***************************************************************************)
EXTENDS JobQueue, TLAPS

\* lease_version counts the claims of a row, as attempt does, and a row that
\* was inserted belongs to a site.
RowsOK == \A j \in Jobs : /\ job[j].version = job[j].attempt
                          /\ job[j].status # "none" => /\ job[j].type \in Types
                                                       /\ job[j].site \in Sites

\* A process at work holds a claim that was granted on an inserted row.
ClaimsOK == \A a \in Agents :
                agent[a].pc # "idle" =>
                    /\ agent[a].job \in Jobs
                    /\ job[agent[a].job].status # "none"
                    /\ agent[a].version <= job[agent[a].job].version

\* The inductive invariant.  TypeOK alone is not inductive: that a claim keeps
\* lease_version within its range follows from RowsOK.
IInv == TypeOK /\ RowsOK /\ ClaimsOK

USE JobsAssumption, MaxAttemptsAssumption, StepsAssumption, NullsAssumption,
    OpTypesAssumption

-----------------------------------------------------------------------------

\* The empty tables and the fresh processes satisfy the inductive invariant.
LEMMA InitIInv == Init => IInv
  BY DEF Init, IInv, TypeOK, RowsOK, ClaimsOK, AbsentRow, FreshProcess, Row,
         Process, NoJob, NoType, Types

\* A row that a step of the API inserts is well typed.
LEMMA PendingRowType ==
    ASSUME NEW s \in Sites, NEW t \in Types
    PROVE  /\ PendingRow(s, t) \in Row
           /\ PendingRow(s, t).status = "pending"
           /\ PendingRow(s, t).type = t
           /\ PendingRow(s, t).site = s
           /\ PendingRow(s, t).version = PendingRow(s, t).attempt
           /\ PendingRow(s, t).version = 0
<1>1. AbsentRow \in Row
  BY DEF AbsentRow, Row, NoType
<1>2. AbsentRow.version = 0 /\ AbsentRow.attempt = 0
  BY DEF AbsentRow
<1>3. QED BY <1>1, <1>2 DEF PendingRow, Row

\* A claim stays within max_attempts and counts attempt and lease_version alike.
LEMMA ClaimedRowType ==
    ASSUME NEW r \in Row, NEW a \in Agents, r.attempt < MaxAttempts,
           r.version = r.attempt
    PROVE  /\ ClaimedRow(r, a) \in Row
           /\ ClaimedRow(r, a).version = r.version + 1
           /\ ClaimedRow(r, a).attempt = r.attempt + 1
           /\ ClaimedRow(r, a).status = "running"
           /\ ClaimedRow(r, a).type = r.type
           /\ ClaimedRow(r, a).site = r.site
<1>1. WorkerId[a] \in Workers
  BY DEF Workers
<1>2. /\ r.attempt \in 0..MaxAttempts
      /\ r.attempt + 1 \in 0..MaxAttempts
  BY DEF Row
<1>3. QED BY <1>1, <1>2 DEF ClaimedRow, Row

\* RetryJob leaves a well-typed row.
LEMMA RetriedRowType ==
    ASSUME NEW r \in Row
    PROVE  [r EXCEPT !.status = "pending", !.worker = NoWorker, !.lease = "none"] \in Row
  BY DEF Row

\* A process that has just been started is well typed and has no job.
LEMMA FreshProcessType == FreshProcess \in Process /\ FreshProcess.pc = "idle"
  BY DEF FreshProcess, Process, NoJob

\* So is a process that goes back to polling.
LEMMA IdleType ==
    ASSUME NEW a \in Agents
    PROVE  Idle(a) \in Process /\ Idle(a).pc = "idle"
  BY DEF Idle, FreshProcess, Process, NoJob

\* Process a goes on with the claim it holds, or lets go of it; the others stay.
KeepsClaims(a) ==
    /\ agent' \in [Agents -> Process]
    /\ \A b \in Agents : b # a => agent'[b] = agent[b]
    /\ agent'[a].pc # "idle" => /\ agent[a].pc # "idle"
                                /\ agent'[a].job = agent[a].job
                                /\ agent'[a].version = agent[a].version

\* Nothing but ClaimNextJob gives a process a claim.
LEMMA ProcessStep ==
    ASSUME TypeOK, NEW a \in Agents,
           Run(a) \/ RenewFails(a) \/ Crash(a) \/ StopAndRestart(a) \/ RequestStop(a)
    PROVE  KeepsClaims(a)
<1> USE DEF KeepsClaims
<1>1. CASE Advance(a)
  <2>1. CASE Fence(a)
    BY <1>1, <2>1 DEF Advance, TypeOK, Process
  <2>2. CASE ~ Fence(a)
    BY <1>1, <2>2 DEF Advance, TypeOK, Process
  <2>3. QED BY <2>1, <2>2
<1>2. CASE Work(a)
  BY <1>2 DEF Work, TypeOK, Process
<1>3. CASE ExecutionFails(a)
  BY <1>3 DEF ExecutionFails, Executing, TypeOK, Process
<1>4. CASE BeginComplete(a)
  BY <1>4 DEF BeginComplete, TypeOK, Process
<1>5. CASE Complete(a) \/ FailJob(a)
  <2>1. CASE agent' = [agent EXCEPT ![a] = Idle(a)]
    BY <2>1, IdleType DEF TypeOK
  <2>2. CASE agent' = [agent EXCEPT ![a].pc = "failing"] /\ agent[a].pc # "idle"
    BY <2>2 DEF TypeOK, Process
  <2>3. QED BY <1>5, <2>1, <2>2 DEF Complete, FailJob
<1>6. CASE RenewFails(a)
  BY <1>6 DEF RenewFails, Executing, TypeOK, Process
<1>7. CASE Crash(a) \/ StopAndRestart(a)
  BY <1>7, FreshProcessType DEF Crash, StopAndRestart, TypeOK
<1>8. CASE RequestStop(a)
  BY <1>8 DEF RequestStop, TypeOK, Process
<1>9. QED BY <1>1, <1>2, <1>3, <1>4, <1>5, <1>6, <1>7, <1>8 DEF Run

-----------------------------------------------------------------------------

\* A lease ends or is renewed late; nothing else changes.
LeaseBecomes(j, l) ==
    /\ job' = [job EXCEPT ![j].lease = l]
    /\ UNCHANGED <<site, opening, agent>>

Leases == {"live", "expired"}

\* The two steps that change a lease and nothing else.
LeaseStep == \/ \E j \in Jobs : LeaseExpires(j)
             \/ \E a \in Agents : RenewLate(a)

LEMMA LeaseSteps ==
    ASSUME ClaimsOK, LeaseStep PROVE \E j \in Jobs, l \in Leases : LeaseBecomes(j, l)
<1>1. ASSUME NEW a \in Agents, RenewLate(a)
      PROVE  agent[a].job \in Jobs /\ LeaseBecomes(agent[a].job, "live")
  BY <1>1 DEF RenewLate, Executing, ClaimsOK, LeaseBecomes
<1>2. ASSUME NEW j \in Jobs, LeaseExpires(j) PROVE LeaseBecomes(j, "expired")
  BY <1>2 DEF LeaseExpires, LeaseBecomes
<1> QED
  BY <1>1, <1>2 DEF LeaseStep, Leases

\* No step of the API, of an agent or of a fault breaks the inductive invariant.
LEMMA NextIInv == IInv /\ [Next]_vars => IInv'
<1> SUFFICES ASSUME IInv, [Next]_vars PROVE IInv'
  OBVIOUS
<1> USE DEF IInv
<1>1. ASSUME NEW s \in Sites, NEW j \in Jobs, CreateProvisionJob(s, j)
      PROVE  IInv'
  <2>1. PendingRow(s, "provision") \in Row /\ "provision" \in Types
    BY PendingRowType DEF Types
  <2>2. TypeOK'
    BY <1>1, <2>1 DEF CreateProvisionJob, TypeOK
  <2>3. RowsOK'
    BY <1>1, <2>1, PendingRowType DEF CreateProvisionJob, RowsOK, TypeOK
  <2>4. ClaimsOK'
    BY <1>1, <2>1, PendingRowType DEF CreateProvisionJob, ClaimsOK, TypeOK
  <2>5. QED BY <2>2, <2>3, <2>4
<1>2. ASSUME NEW s \in Sites, NEW t \in OpTypes, CreateSiteJobCheck(s, t)
      PROVE  IInv'
  BY <1>2 DEF CreateSiteJobCheck, TypeOK, RowsOK, ClaimsOK
<1>3. ASSUME NEW s \in Sites, NEW j \in Jobs, CreateSiteJobInsert(s, j)
      PROVE  IInv'
  <2>1. opening[s] \in Types
    BY <1>3 DEF CreateSiteJobInsert, TypeOK, Types
  <2>2. TypeOK'
    BY <1>3, <2>1, PendingRowType DEF CreateSiteJobInsert, TypeOK
  <2>3. RowsOK'
    BY <1>3, <2>1, PendingRowType DEF CreateSiteJobInsert, RowsOK, TypeOK
  <2>4. ClaimsOK'
    BY <1>3, <2>1, PendingRowType DEF CreateSiteJobInsert, ClaimsOK, TypeOK
  <2>5. QED BY <2>2, <2>3, <2>4
<1>4. ASSUME NEW s \in Sites, CreateSiteJobRollback(s)
      PROVE  IInv'
  BY <1>4 DEF CreateSiteJobRollback, TypeOK, RowsOK, ClaimsOK
<1>5. ASSUME NEW j \in Jobs, RetryJob(j)
      PROVE  IInv'
  <2> DEFINE q == [job[j] EXCEPT !.status = "pending", !.worker = NoWorker,
                                 !.lease = "none"]
  <2>11. q \in Row
    BY RetriedRowType DEF TypeOK
  <2>12. job' = [job EXCEPT ![j] = q]
    BY <1>5 DEF RetryJob, TypeOK
  <2>1. TypeOK'
    BY <1>5, <2>11, <2>12 DEF RetryJob, TypeOK
  <2>2. RowsOK'
    BY <1>5 DEF RetryJob, RowsOK, TypeOK, Row
  <2>3. ClaimsOK'
    BY <1>5 DEF RetryJob, ClaimsOK, TypeOK, Row
  <2>4. QED BY <2>1, <2>2, <2>3
<1>6. ASSUME NEW a \in Agents, ClaimNextJob(a)
      PROVE  IInv'
  <2>1. PICK j \in Jobs :
            /\ Claimable(j)
            /\ job' = [job EXCEPT ![j] = ClaimedRow(job[j], a)]
            /\ agent' = [agent EXCEPT ![a].pc = "advance", ![a].job = j,
                                      ![a].version = job'[j].version,
                                      ![a].step = 0]
    BY <1>6 DEF ClaimNextJob
  <2>2. /\ job[j] \in Row
        /\ job[j].attempt < MaxAttempts
        /\ job[j].version = job[j].attempt
        /\ job[j].status # "none"
    BY <2>1 DEF TypeOK, RowsOK, Claimable
  <2>3. /\ job'[j] = ClaimedRow(job[j], a)
        /\ job'[j] \in Row
        /\ job'[j].version = job[j].version + 1
        /\ job'[j].attempt = job[j].attempt + 1
        /\ job'[j].status = "running"
        /\ job'[j].type = job[j].type
        /\ job'[j].site = job[j].site
    <3>1. job'[j] = ClaimedRow(job[j], a)
      BY <2>1 DEF TypeOK
    <3>2. QED BY <2>2, <3>1, ClaimedRowType
  <2>4. \A i \in Jobs : i # j => job'[i] = job[i]
    BY <2>1 DEF TypeOK
  <2>5. TypeOK'
    <3>1. job' \in [Jobs -> Row]
      BY <2>1, <2>3 DEF TypeOK
    <3>2. job'[j].version \in 0..MaxAttempts
      BY <2>3 DEF Row
    <3>3. agent' \in [Agents -> Process]
      <4> DEFINE p == [agent[a] EXCEPT !.pc = "advance", !.job = j,
                                       !.version = job'[j].version, !.step = 0]
      <4>1. agent' = [agent EXCEPT ![a] = p]
        BY <2>1 DEF TypeOK
      <4>2. p \in Process
        <5>1. agent[a] \in Process /\ job'[j].version \in 0..MaxAttempts /\ 0 \in Nat
          BY <3>2 DEF TypeOK
        <5> QED
          BY <5>1 DEF Process
      <4>3. QED BY <4>1, <4>2 DEF TypeOK
    <3>4. QED BY <1>6, <3>1, <3>3 DEF TypeOK, ClaimNextJob
  <2>6. RowsOK'
    BY <2>2, <2>3, <2>4 DEF RowsOK
  <2>7. ClaimsOK'
    <3>1. /\ agent'[a].job = j
          /\ agent'[a].version = job'[j].version
          /\ \A b \in Agents : b # a => agent'[b] = agent[b]
      BY <2>1 DEF TypeOK, Process
    <3>2. job[j].version \in Nat /\ job'[j].version \in Nat
      BY <2>2, <2>3 DEF Row
    <3>3. ASSUME NEW b \in Agents, agent'[b].pc # "idle"
          PROVE  /\ agent'[b].job \in Jobs
                 /\ job'[agent'[b].job].status # "none"
                 /\ agent'[b].version <= job'[agent'[b].job].version
      <4>1. CASE b = a
        BY <4>1, <3>1, <3>2, <2>3
      <4>2. CASE b # a
        <5>1. /\ agent'[b] = agent[b]
              /\ agent[b].job \in Jobs
              /\ job[agent[b].job].status # "none"
              /\ agent[b].version <= job[agent[b].job].version
              /\ agent[b].version \in Nat
          BY <4>2, <3>1, <3>3 DEF ClaimsOK, TypeOK, Process
        <5>2. CASE agent[b].job = j
          BY <5>1, <5>2, <3>2, <2>3
        <5>3. CASE agent[b].job # j
          BY <5>1, <5>3, <2>4
        <5>4. QED BY <5>2, <5>3
      <4>3. QED BY <4>1, <4>2
    <3>4. QED BY <3>3 DEF ClaimsOK
  <2>8. QED BY <2>5, <2>6, <2>7
<1>7. ASSUME NEW a \in Agents, \/ Advance(a) \/ Work(a) \/ ExecutionFails(a)
                               \/ BeginComplete(a) \/ RenewFails(a) \/ Crash(a)
                               \/ StopAndRestart(a) \/ RequestStop(a)
      PROVE  IInv'
  <2>1. UNCHANGED <<job, site, opening>>
    BY <1>7 DEF Advance, Work, ExecutionFails, BeginComplete, RenewFails, Crash,
                StopAndRestart, RequestStop
  <2>2. KeepsClaims(a)
    BY <1>7, ProcessStep DEF Run
  <2>3. TypeOK'
    BY <2>1, <2>2 DEF TypeOK, KeepsClaims
  <2>4. RowsOK'
    BY <2>1 DEF RowsOK
  <2>5. ClaimsOK'
    BY <2>1, <2>2 DEF ClaimsOK, TypeOK, KeepsClaims
  <2>6. QED BY <2>3, <2>4, <2>5
<1>8. ASSUME NEW a \in Agents, Complete(a) \/ FailJob(a)
      PROVE  IInv'
  <2> DEFINE j == agent[a].job
  <2>1. /\ j \in Jobs
        /\ job[j] \in Row
        /\ job[j].site \in Sites
        /\ job[j].type \in Types
        /\ job[j].version = job[j].attempt
        /\ job[j].retryable \in BOOLEAN
    BY <1>8 DEF Complete, FailJob, ClaimsOK, RowsOK, TypeOK, Row
  <2>2. KeepsClaims(a)
    BY <1>8, ProcessStep DEF Run
  <2>3. \/ UNCHANGED job
        \/ \E st \in {"completed", "failed"}, b \in BOOLEAN :
              job' = [job EXCEPT ![j] = EndedRow(job[j], st, b)]
    <3>1. CASE Complete(a)
      BY <3>1, <2>1 DEF Complete
    <3>2. CASE FailJob(a)
      <4>1. (job[j].attempt < MaxAttempts) \in BOOLEAN
        OBVIOUS
      <4>2. \/ UNCHANGED job
            \/ job' = [job EXCEPT ![j] =
                          EndedRow(job[j], "failed", job[j].attempt < MaxAttempts)]
        BY <3>2 DEF FailJob
      <4>3. QED BY <4>1, <4>2
    <3>3. QED BY <1>8, <3>1, <3>2
  <2>4. /\ job' \in [Jobs -> Row]
        /\ \A i \in Jobs : /\ job'[i].version = job[i].version
                           /\ job'[i].attempt = job[i].attempt
                           /\ job'[i].type = job[i].type
                           /\ job'[i].site = job[i].site
                           /\ job'[i].status # "none" \/ job'[i] = job[i]
    <3>1. CASE UNCHANGED job
      BY <3>1 DEF TypeOK
    <3>2. ASSUME NEW st \in {"completed", "failed"}, NEW b \in BOOLEAN,
                 job' = [job EXCEPT ![j] = EndedRow(job[j], st, b)]
          PROVE  <2>4!1 /\ <2>4!2
      <4>1. /\ job'[j] = EndedRow(job[j], st, b)
            /\ \A i \in Jobs : i # j => job'[i] = job[i]
        BY <3>2, <2>1 DEF TypeOK
      <4>2. /\ EndedRow(job[j], st, b) \in Row
            /\ EndedRow(job[j], st, b).version = job[j].version
            /\ EndedRow(job[j], st, b).attempt = job[j].attempt
            /\ EndedRow(job[j], st, b).type = job[j].type
            /\ EndedRow(job[j], st, b).site = job[j].site
            /\ EndedRow(job[j], st, b).status = st
        BY <2>1 DEF EndedRow, Row
      <4>3. job' \in [Jobs -> Row]
        BY <3>2, <4>2 DEF TypeOK
      <4>4. st # "none"
        BY <3>2
      <4>5. QED BY <4>1, <4>2, <4>3, <4>4
    <3>3. QED BY <2>3, <3>1, <3>2
  <2>5. /\ site' \in [Sites -> {"absent", "present", "deleted"}]
        /\ UNCHANGED opening
    BY <1>8, <2>1 DEF Complete, FailJob, TypeOK
  <2>6. TypeOK'
    BY <2>2, <2>4, <2>5 DEF TypeOK, KeepsClaims
  <2>7. RowsOK'
    BY <2>1, <2>3, <2>4 DEF RowsOK, TypeOK
  <2>8. ClaimsOK'
    <3>1. ASSUME NEW b \in Agents, agent'[b].pc # "idle"
          PROVE  /\ agent[b].pc # "idle"
                 /\ agent'[b].job = agent[b].job
                 /\ agent'[b].version = agent[b].version
      BY <3>1, <2>2 DEF KeepsClaims
    <3>2. ASSUME NEW b \in Agents, agent'[b].pc # "idle"
          PROVE  /\ agent'[b].job \in Jobs
                 /\ job'[agent'[b].job].status # "none"
                 /\ agent'[b].version <= job'[agent'[b].job].version
      <4>1. /\ agent[b].job \in Jobs
            /\ job[agent[b].job].status # "none"
            /\ agent[b].version <= job[agent[b].job].version
        BY <3>1, <3>2 DEF ClaimsOK
      <4>2. agent'[b].job = agent[b].job /\ agent'[b].version = agent[b].version
        BY <3>1, <3>2
      <4>3. /\ job'[agent[b].job].version = job[agent[b].job].version
            /\ job'[agent[b].job].status # "none"
        BY <4>1, <2>4
      <4>4. QED BY <4>1, <4>2, <4>3
    <3>3. QED BY <3>2 DEF ClaimsOK
  <2>9. QED BY <2>6, <2>7, <2>8
<1>9. ASSUME NEW j \in Jobs, NEW l \in Leases, LeaseBecomes(j, l)
      PROVE  IInv'
  <2>1. TypeOK'
    BY <1>9 DEF LeaseBecomes, Leases, TypeOK, Row
  <2>2. RowsOK'
    BY <1>9 DEF LeaseBecomes, RowsOK, TypeOK, Row
  <2>3. ClaimsOK'
    BY <1>9 DEF LeaseBecomes, ClaimsOK, TypeOK, Row
  <2>4. QED BY <2>1, <2>2, <2>3
<1>10. CASE UNCHANGED vars
  BY <1>10 DEF vars, TypeOK, RowsOK, ClaimsOK
<1>11. QED
  BY <1>1, <1>2, <1>3, <1>4, <1>5, <1>6, <1>7, <1>8, <1>9, <1>10, LeaseSteps
     DEF Next, API, Run, Fault, LeaseStep

\* The inductive invariant holds in every reachable state of the queue.
LEMMA Invariance == Spec => []IInv
  BY InitIInv, NextIInv, PTL DEF Spec

\* The rows, the sites and the processes keep the shape that the schema and
\* ClaimedJob give them; no claim takes a job beyond max_attempts.
THEOREM TypeCorrect == Spec => []TypeOK
<1>1. IInv => TypeOK
  BY DEF IInv
<1>2. QED BY <1>1, Invariance, PTL

-----------------------------------------------------------------------------

\* A claim that is granted is newer than every claim of the job still held, so
\* for any number of processes, sharing AGENT_IDs in any way, no two hold the
\* same one: at most one of them passes the fence of advance, FailJob and the
\* closing updates.
THEOREM ClaimsAreUnique == Spec => []ClaimsUnique
<1>1. Init => ClaimsUnique
  BY DEF Init, ClaimsUnique, FreshProcess
<1>2. IInv /\ ClaimsUnique /\ [Next]_vars => ClaimsUnique'
  <2> SUFFICES ASSUME IInv, ClaimsUnique, [Next]_vars PROVE ClaimsUnique'
    OBVIOUS
  <2>1. ASSUME NEW c \in Agents, KeepsClaims(c)
        PROVE  ClaimsUnique'
    <3>1. ASSUME NEW b \in Agents, agent'[b].pc # "idle"
          PROVE  /\ agent[b].pc # "idle"
                 /\ agent'[b].job = agent[b].job
                 /\ agent'[b].version = agent[b].version
      BY <2>1, <3>1 DEF KeepsClaims
    <3>2. QED BY <3>1 DEF ClaimsUnique
  <2>2. ASSUME NEW c \in Agents, ClaimNextJob(c)
        PROVE  ClaimsUnique'
    <3>1. PICK j \in Jobs :
              /\ Claimable(j)
              /\ job' = [job EXCEPT ![j] = ClaimedRow(job[j], c)]
              /\ agent' = [agent EXCEPT ![c].pc = "advance", ![c].job = j,
                                        ![c].version = job'[j].version,
                                        ![c].step = 0]
      BY <2>2 DEF ClaimNextJob
    <3>2. /\ job'[j].version = job[j].version + 1
          /\ job[j].version \in Nat
      <4>1. job[j] \in Row /\ job[j].attempt < MaxAttempts
            /\ job[j].version = job[j].attempt
        BY <3>1 DEF IInv, TypeOK, RowsOK, Claimable
      <4>2. job'[j] = ClaimedRow(job[j], c)
        BY <3>1 DEF IInv, TypeOK
      <4>3. job[j].version \in Nat
        BY <4>1 DEF Row
      <4>4. QED BY <4>1, <4>2, <4>3, ClaimedRowType
    <3>3. /\ agent'[c].job = j
          /\ agent'[c].version = job'[j].version
          /\ \A b \in Agents : b # c => agent'[b] = agent[b]
      BY <3>1 DEF IInv, TypeOK, Process
    <3>4. ASSUME NEW b \in Agents, b # c, agent[b].pc # "idle", agent[b].job = j
          PROVE  agent[b].version # job'[j].version
      <4>1. agent[b].version <= job[j].version /\ agent[b].version \in Nat
        BY <3>4 DEF IInv, ClaimsOK, TypeOK, Process
      <4>2. QED BY <4>1, <3>2
    <3>5. QED BY <3>3, <3>4 DEF ClaimsUnique
  <2>3. ASSUME UNCHANGED agent
        PROVE  ClaimsUnique'
    BY <2>3 DEF ClaimsUnique
  <2>4. \/ UNCHANGED agent
        \/ \E c \in Agents : ClaimNextJob(c)
        \/ \E c \in Agents : Run(c) \/ RenewFails(c) \/ Crash(c)
                             \/ StopAndRestart(c) \/ RequestStop(c)
    BY DEF Next, API, Fault, vars, CreateProvisionJob, CreateSiteJobCheck,
           CreateSiteJobInsert, CreateSiteJobRollback, RetryJob, LeaseExpires, RenewLate
  <2>5. QED BY <2>1, <2>2, <2>3, <2>4, ProcessStep DEF IInv
<1>3. QED BY <1>1, <1>2, Invariance, PTL DEF Spec

-----------------------------------------------------------------------------

\* What a step does to the rows.  At most one row changes: a row is inserted, a
\* failed job is retried, a claim is granted, a job is ended or its lease renewed
\* by a process whose claim stands, or a lease expires.
RowStep(j) ==
    \/ /\ \E s \in Sites, t \in Types : /\ job'[j] = PendingRow(s, t)
                                        /\ IndexAdmits(s, t)
       /\ job[j].status = "none"
    \/ /\ job[j].status = "failed"
       /\ job'[j] = [job[j] EXCEPT !.status = "pending", !.worker = NoWorker,
                                   !.lease = "none"]
       /\ IndexAdmits(job[j].site, job[j].type)
    \/ /\ Claimable(j)
       /\ \E a \in Agents : job'[j] = ClaimedRow(job[j], a)
    \/ \E a \in Agents, st \in {"completed", "failed"}, b \in BOOLEAN :
          /\ job'[j] = EndedRow(job[j], st, b)
          /\ agent[a].job = j
          /\ ClaimStands(a)
          /\ agent'[a] # agent[a]
    \/ /\ job'[j] = [job[j] EXCEPT !.lease = "live"]
       /\ \E a \in Agents : Executing(a) /\ agent[a].job = j /\ ClaimStands(a)
    \/ job'[j] = [job[j] EXCEPT !.lease = "expired"]

OneRowChanges ==
    \E j \in Jobs : RowStep(j) /\ \A i \in Jobs : i # j => job'[i] = job[i]

\* Every step of the queue is one of these, or leaves the table alone.
LEMMA RowsChange == IInv /\ Next => UNCHANGED job \/ OneRowChanges
<1> SUFFICES ASSUME IInv, Next PROVE UNCHANGED job \/ OneRowChanges
  OBVIOUS
<1> USE DEF IInv, TypeOK, OneRowChanges
<1>1. ASSUME NEW s \in Sites, NEW j \in Jobs, CreateProvisionJob(s, j)
      PROVE  OneRowChanges
  <2>1. "provision" \in Types /\ "provision" \notin OpTypes
    BY OpTypesAssumption DEF Types, AllOpTypes
  <2>2. IndexAdmits(s, "provision")
    BY <2>1 DEF IndexAdmits
  <2>3. /\ job'[j] = PendingRow(s, "provision")
        /\ job[j].status = "none"
        /\ \A i \in Jobs : i # j => job'[i] = job[i]
    BY <1>1 DEF CreateProvisionJob
  <2>4. QED BY <2>1, <2>2, <2>3 DEF RowStep
<1>2. ASSUME NEW s \in Sites, NEW j \in Jobs, CreateSiteJobInsert(s, j)
      PROVE  OneRowChanges
  <2>1. opening[s] \in Types
    BY <1>2 DEF CreateSiteJobInsert, Types
  <2>2. /\ job'[j] = PendingRow(s, opening[s])
        /\ job[j].status = "none"
        /\ IndexAdmits(s, opening[s])
        /\ \A i \in Jobs : i # j => job'[i] = job[i]
    BY <1>2 DEF CreateSiteJobInsert
  <2>3. QED BY <2>1, <2>2 DEF RowStep
<1>3. ASSUME NEW j \in Jobs, RetryJob(j)
      PROVE  OneRowChanges
  <2>1. /\ job'[j] = [job[j] EXCEPT !.status = "pending", !.worker = NoWorker,
                                    !.lease = "none"]
        /\ job[j].status = "failed"
        /\ IndexAdmits(job[j].site, job[j].type)
        /\ \A i \in Jobs : i # j => job'[i] = job[i]
    BY <1>3 DEF RetryJob
  <2>2. QED BY <2>1 DEF RowStep
<1>4. ASSUME NEW a \in Agents, ClaimNextJob(a)
      PROVE  OneRowChanges
  <2>1. PICK j \in Jobs : /\ Claimable(j)
                          /\ job' = [job EXCEPT ![j] = ClaimedRow(job[j], a)]
    BY <1>4 DEF ClaimNextJob
  <2>2. /\ job'[j] = ClaimedRow(job[j], a)
        /\ \A i \in Jobs : i # j => job'[i] = job[i]
    BY <2>1
  <2>3. QED BY <2>1, <2>2 DEF RowStep
<1>5. ASSUME NEW a \in Agents, Complete(a) \/ FailJob(a)
      PROVE  UNCHANGED job \/ OneRowChanges
  <2> DEFINE j == agent[a].job
  <2>1. j \in Jobs
    BY <1>5 DEF Complete, FailJob, ClaimsOK
  <2>2. agent'[a] # agent[a]
    <3>1. CASE agent' = [agent EXCEPT ![a] = Idle(a)]
      BY <3>1, <1>5, IdleType DEF Complete, FailJob
    <3>2. CASE agent' = [agent EXCEPT ![a].pc = "failing"] /\ agent[a].pc = "closing"
      BY <3>2 DEF Process
    <3>3. QED BY <1>5, <3>1, <3>2 DEF Complete, FailJob
  <2>3. \/ UNCHANGED job
        \/ /\ ClaimStands(a)
           /\ \E st \in {"completed", "failed"}, b \in BOOLEAN :
                job' = [job EXCEPT ![j] = EndedRow(job[j], st, b)]
    <3>1. CASE Complete(a)
      <4>1. job[j].retryable \in BOOLEAN
        BY <2>1 DEF Row
      <4>2. QED BY <3>1, <4>1 DEF Complete
    <3>2. CASE FailJob(a)
      <4>1. (job[j].attempt < MaxAttempts) \in BOOLEAN
        OBVIOUS
      <4>2. \/ UNCHANGED job
            \/ /\ ClaimStands(a)
               /\ job' = [job EXCEPT ![j] =
                            EndedRow(job[j], "failed", job[j].attempt < MaxAttempts)]
        BY <3>2 DEF FailJob, Fence
      <4>3. QED BY <4>1, <4>2
    <3>3. QED BY <1>5, <3>1, <3>2
  <2>4. ASSUME NEW st \in {"completed", "failed"}, NEW b \in BOOLEAN, ClaimStands(a),
               job' = [job EXCEPT ![j] = EndedRow(job[j], st, b)]
        PROVE  OneRowChanges
    <3>1. /\ job'[j] = EndedRow(job[j], st, b)
          /\ \A i \in Jobs : i # j => job'[i] = job[i]
      BY <2>1, <2>4
    <3>2. RowStep(j)
      BY <2>2, <2>4, <3>1 DEF RowStep
    <3>3. QED BY <2>1, <3>1, <3>2
  <2>5. QED BY <2>3, <2>4
<1>6. ASSUME NEW j \in Jobs, LeaseExpires(j)
      PROVE  OneRowChanges
  <2>1. /\ job'[j] = [job[j] EXCEPT !.lease = "expired"]
        /\ \A i \in Jobs : i # j => job'[i] = job[i]
    BY <1>6 DEF LeaseExpires
  <2>2. QED BY <2>1 DEF RowStep
<1>7. ASSUME NEW a \in Agents, RenewLate(a)
      PROVE  OneRowChanges
  <2> DEFINE j == agent[a].job
  <2>1. j \in Jobs /\ ClaimStands(a) /\ Executing(a)
    BY <1>7 DEF RenewLate, MayRenew, Executing, ClaimsOK
  <2>2. /\ job'[j] = [job[j] EXCEPT !.lease = "live"]
        /\ \A i \in Jobs : i # j => job'[i] = job[i]
    BY <1>7, <2>1 DEF RenewLate
  <2>3. QED BY <2>1, <2>2 DEF RowStep
<1>8. QED
  BY <1>1, <1>2, <1>3, <1>4, <1>5, <1>6, <1>7
     DEF Next, API, Run, Fault, CreateSiteJobCheck, CreateSiteJobRollback, Advance,
         Work, ExecutionFails, BeginComplete, RenewFails, Crash, StopAndRestart,
         RequestStop

\* A lease that has run out comes back only with a takeover or for the execution
\* that holds the claim: a late renewal of any other changes nothing.
THEOREM LeasesRenewedByHolders == Spec => RenewedByHolder
<1> DEFINE ForHolder == \A j \in Jobs :
        /\ job[j].status = "running" /\ job[j].lease = "expired"
        /\ job'[j].lease = "live"
        => \/ job'[j].attempt = job[j].attempt + 1
           \/ \E a \in Agents : /\ Executing(a) /\ agent[a].job = j
                                 /\ agent[a].version = job[j].version
<1>1. IInv /\ [Next]_vars => [ForHolder]_vars
  <2> SUFFICES ASSUME IInv, Next, NEW j \in Jobs, job[j].status = "running",
                      job[j].lease = "expired", job'[j].lease = "live"
               PROVE  \/ job'[j].attempt = job[j].attempt + 1
                      \/ \E a \in Agents : /\ Executing(a) /\ agent[a].job = j
                                            /\ agent[a].version = job[j].version
    BY DEF vars
  <2>1. job[j] \in Row
    BY DEF IInv, TypeOK
  <2>2. RowStep(j)
    BY RowsChange DEF OneRowChanges
  <2>3. ASSUME NEW a \in Agents, job'[j] = ClaimedRow(job[j], a)
        PROVE  job'[j].attempt = job[j].attempt + 1
    BY <2>1, <2>3 DEF ClaimedRow, Row
  <2>4. ASSUME NEW a \in Agents, Executing(a), agent[a].job = j, ClaimStands(a)
        PROVE  agent[a].version = job[j].version
    BY <2>4 DEF ClaimStands
  <2>5. job'[j] # [job[j] EXCEPT !.lease = "expired"]
    BY <2>1 DEF Row
  <2>6. ASSUME NEW st \in {"completed", "failed"}, NEW b \in BOOLEAN
        PROVE  job'[j] # EndedRow(job[j], st, b)
    BY <2>1 DEF EndedRow, Row
  <2>7. QED BY <2>2, <2>3, <2>4, <2>5, <2>6 DEF RowStep
<1>2. QED BY <1>1, Invariance, PTL DEF Spec, RenewedByHolder

\* A job is ended only by a process that holds the claim in force: whatever an
\* execution that was taken over still sends changes nothing.
THEOREM HolderEnds == Spec => OnlyHolderEnds
<1> DEFINE ByHolder == \A j \in Jobs :
        job[j].status = "running" /\ job'[j].status \in {"completed", "failed"}
        => \E a \in Agents : /\ agent[a].job = j
                             /\ agent[a].version = job[j].version
                             /\ agent'[a] # agent[a]
<1>1. IInv /\ [Next]_vars => [ByHolder]_vars
  <2> SUFFICES ASSUME IInv, Next, NEW j \in Jobs, job[j].status = "running",
                      job'[j].status \in {"completed", "failed"}
               PROVE  \E a \in Agents : /\ agent[a].job = j
                                        /\ agent[a].version = job[j].version
                                        /\ agent'[a] # agent[a]
    BY DEF vars
  <2>1. RowStep(j)
    BY RowsChange DEF OneRowChanges
  <2>2. job[j] \in Row
    BY DEF IInv, TypeOK
  <2>3. ASSUME NEW a \in Agents, agent[a].job = j, ClaimStands(a), agent'[a] # agent[a]
        PROVE  \E b \in Agents : /\ agent[b].job = j
                                 /\ agent[b].version = job[j].version
                                 /\ agent'[b] # agent[b]
    BY <2>3 DEF ClaimStands
  <2>4. ASSUME NEW a \in Agents, job'[j] = ClaimedRow(job[j], a)
        PROVE  FALSE
    BY <2>2, <2>4 DEF ClaimedRow, Row
  <2>5. ASSUME NEW l \in Leases PROVE job'[j] # [job[j] EXCEPT !.lease = l]
    BY <2>2 DEF Row, Leases
  <2>6. QED BY <2>1, <2>3, <2>4, <2>5 DEF RowStep, Leases
<1>2. QED BY <1>1, Invariance, PTL DEF Spec, OnlyHolderEnds

\* A row that becomes an active operation was one already, of the same site, or
\* the index has admitted it.
LEMMA ActivationIsAdmitted ==
    ASSUME IInv, NEW j \in Jobs, RowStep(j),
           Active(j)', job'[j].type \in OpTypes
    PROVE  \/ /\ Active(j)
              /\ job[j].type = job'[j].type
              /\ job[j].site = job'[j].site
           \/ /\ ~ Active(j)
              /\ IndexAdmits(job'[j].site, job'[j].type)
<1>1. job[j] \in Row
  BY DEF IInv, TypeOK
<1>2. ASSUME NEW s \in Sites, NEW t \in Types, job'[j] = PendingRow(s, t),
             IndexAdmits(s, t), job[j].status = "none"
      PROVE  ~ Active(j) /\ IndexAdmits(job'[j].site, job'[j].type)
  BY <1>2, PendingRowType DEF Active
<1>3. CASE /\ job[j].status = "failed"
           /\ job'[j] = [job[j] EXCEPT !.status = "pending", !.worker = NoWorker,
                                       !.lease = "none"]
           /\ IndexAdmits(job[j].site, job[j].type)
  BY <1>1, <1>3 DEF Active, Row
<1>4. ASSUME NEW a \in Agents, Claimable(j), job'[j] = ClaimedRow(job[j], a)
      PROVE  Active(j) /\ job[j].type = job'[j].type /\ job[j].site = job'[j].site
  <2>1. Active(j)
    BY <1>4 DEF Claimable, Active
  <2>2. QED BY <1>1, <1>4, <2>1 DEF ClaimedRow, Row
<1>5. ASSUME NEW st \in {"completed", "failed"}, NEW b \in BOOLEAN,
             job'[j] = EndedRow(job[j], st, b)
      PROVE  FALSE
  BY <1>1, <1>5 DEF EndedRow, Row, Active
<1>6. ASSUME NEW l \in Leases, job'[j] = [job[j] EXCEPT !.lease = l]
      PROVE  /\ Active(j) /\ job[j].type = job'[j].type
             /\ job[j].site = job'[j].site
  BY <1>1, <1>6 DEF Row, Active
<1>7. QED BY <1>2, <1>3, <1>4, <1>5, <1>6 DEF RowStep, Leases

\* No interleaving of CreateSiteJob, RetryJob and the agents gives a site two
\* active operations: the count of CreateSiteJob may be stale when it inserts,
\* and RetryJob makes none, but the index decides at the moment of the write.
THEOREM OneOperation == Spec => []OneOperationPerSite
<1>1. Init => OneOperationPerSite
  BY DEF Init, OneOperationPerSite, ActiveOn, Active, AbsentRow
<1>2. IInv /\ OneOperationPerSite /\ [Next]_vars => OneOperationPerSite'
  <2> SUFFICES ASSUME IInv, OneOperationPerSite, [Next]_vars
               PROVE  OneOperationPerSite'
    OBVIOUS
  <2>1. CASE UNCHANGED job
    BY <2>1 DEF OneOperationPerSite, ActiveOn, Active
  <2>2. ASSUME NEW k \in Jobs, RowStep(k), \A i \in Jobs : i # k => job'[i] = job[i]
        PROVE  OneOperationPerSite'
    <3>1. SUFFICES ASSUME NEW i \in Jobs, i # k,
                          Active(i)', Active(k)', job'[i].site = job'[k].site,
                          job'[i].type \in OpTypes, job'[k].type \in OpTypes
                   PROVE  FALSE
      <4>1. SUFFICES ASSUME NEW s \in Sites, NEW i \in Jobs, NEW j \in Jobs,
                            Active(i)', Active(j)', i # j,
                            job'[i].site = s, job'[j].site = s,
                            job'[i].type \in OpTypes, job'[j].type \in OpTypes
                     PROVE  FALSE
        BY DEF OneOperationPerSite, ActiveOn
      <4>2. CASE i = k \/ j = k
        BY <4>1, <4>2, <3>1
      <4>3. CASE i # k /\ j # k
        BY <4>1, <4>3, <2>2 DEF OneOperationPerSite, ActiveOn, Active
      <4>4. QED BY <4>2, <4>3
    <3>2. Active(i) /\ job[i] = job'[i]
      BY <2>2, <3>1 DEF Active
    <3>3. job[i].site \in Sites
      BY <3>2 DEF Active, IInv, RowsOK
    <3>4. CASE /\ Active(k)
               /\ job[k].type = job'[k].type
               /\ job[k].site = job'[k].site
      BY <3>1, <3>2, <3>3, <3>4 DEF OneOperationPerSite, ActiveOn
    <3>5. CASE ~ Active(k) /\ IndexAdmits(job'[k].site, job'[k].type)
      BY <3>1, <3>2, <3>5 DEF IndexAdmits, ActiveOn
    <3>6. QED BY <2>2, <3>1, <3>4, <3>5, ActivationIsAdmitted
  <2>3. QED BY <2>1, <2>2, RowsChange DEF OneRowChanges, vars
<1>3. QED BY <1>1, <1>2, Invariance, PTL DEF Spec

-----------------------------------------------------------------------------
(* The strengthening that completion needs.                                *)

\* A row that is not inserted has used up no attempt.
AbsentOK == \A j \in Jobs : job[j].status = "none" => job[j].attempt = 0

\* Where a process is tells how many steps it has announced.
StepsOK ==
    \A a \in Agents :
        /\ agent[a].pc = "advance" => agent[a].step < Steps[job[agent[a].job].type]
        /\ agent[a].pc = "work" => agent[a].step \in 1..Steps[job[agent[a].job].type]
        /\ agent[a].pc \in {"complete", "closing"} =>
              agent[a].step = Steps[job[agent[a].job].type]

\* While an operation that has begun holds its claim, its site is there.
SiteLoaded ==
    \A a \in Agents :
        /\ Executing(a) /\ agent[a].step > 0 /\ ClaimStands(a)
        /\ job[agent[a].job].type \in OpTypes
        => site[job[agent[a].job].site] = "present"

QInv == IInv /\ ClaimsUnique /\ OneOperationPerSite /\ AbsentOK /\ StepsOK /\ SiteLoaded

-----------------------------------------------------------------------------
(* What a step does to a row that is inserted, and to a claim.             *)

\* It stays what it is, and its lease_version never falls.
LEMMA RowsKeep ==
    ASSUME IInv, [Next]_vars, NEW j \in Jobs, job[j].status # "none"
    PROVE  /\ job'[j].type = job[j].type /\ job'[j].site = job[j].site
           /\ job'[j].status # "none" /\ job'[j].version >= job[j].version
           /\ \/ job'[j].version > job[j].version
              \/ job'[j].status # "running"
              \/ /\ job'[j].status = job[j].status
                 /\ job'[j].version = job[j].version
                 /\ job'[j].worker = job[j].worker
<1>1. job[j] \in Row /\ job[j].version \in Nat
  BY DEF IInv, TypeOK, Row
<1>2. CASE job'[j] = job[j]
  BY <1>1, <1>2
<1>3. CASE RowStep(j)
  <2>1. CASE /\ job[j].status = "failed"
             /\ job'[j] = [job[j] EXCEPT !.status = "pending", !.worker = NoWorker,
                                         !.lease = "none"]
    BY <1>1, <2>1 DEF Row
  <2>2. CASE Claimable(j) /\ \E a \in Agents : job'[j] = ClaimedRow(job[j], a)
    <3>1. job[j].attempt < MaxAttempts /\ job[j].version = job[j].attempt
      BY <2>2 DEF Claimable, IInv, RowsOK
    <3> QED
      BY <1>1, <2>2, <3>1, ClaimedRowType
  <2>3. CASE \E a \in Agents, st \in {"completed", "failed"}, b \in BOOLEAN :
                job'[j] = EndedRow(job[j], st, b)
    BY <1>1, <2>3 DEF EndedRow, Row
  <2>4. ASSUME NEW l \in Leases, job'[j] = [job[j] EXCEPT !.lease = l]
        PROVE  /\ job'[j].type = job[j].type /\ job'[j].site = job[j].site
               /\ job'[j].status = job[j].status /\ job'[j].version = job[j].version
               /\ job'[j].worker = job[j].worker
    BY <1>1, <2>4 DEF Row
  <2> QED
    BY <1>1, <1>3, <2>1, <2>2, <2>3, <2>4 DEF RowStep, Leases
<1> QED
  BY <1>2, <1>3, RowsChange DEF OneRowChanges, vars

\* A claim that stands after a step has stood before it, unless it is new.
LEMMA ClaimsStood ==
    ASSUME IInv, [Next]_vars, NEW a \in Agents, agent[a].pc # "idle",
           agent'[a].job = agent[a].job, agent'[a].version = agent[a].version,
           ClaimStands(a)'
    PROVE  ClaimStands(a)
<1> DEFINE j == agent[a].job
<1>1. /\ j \in Jobs /\ job[j].status # "none" /\ agent[a].version <= job[j].version
      /\ agent[a].version \in Nat /\ job[j].version \in Nat
  <2>1. j \in Jobs /\ job[j].status # "none" /\ agent[a].version <= job[j].version
    BY DEF IInv, ClaimsOK
  <2>2. agent[a].version \in Nat
    BY DEF IInv, TypeOK, Process
  <2>3. job[j] \in Row
    BY <2>1 DEF IInv, TypeOK
  <2> QED
    BY <2>1, <2>2, <2>3 DEF Row
<1>2. /\ job'[j].status = "running" /\ job'[j].worker = WorkerId[a]
      /\ job'[j].version = agent[a].version
  BY DEF ClaimStands
<1>3. ~ (job'[j].version > job[j].version)
  BY <1>1, <1>2
<1>4. /\ job'[j].status = job[j].status /\ job'[j].version = job[j].version
      /\ job'[j].worker = job[j].worker
  BY <1>1, <1>2, <1>3, RowsKeep
<1> QED
  BY <1>2, <1>4 DEF ClaimStands

\* What a process does with the claim it keeps.
LEMMA ProcessMoves ==
    ASSUME TypeOK, NEW a \in Agents, agent'[a].pc # "idle",
           Run(a) \/ RenewFails(a) \/ Crash(a) \/ StopAndRestart(a) \/ RequestStop(a)
    PROVE  \/ /\ agent[a].pc = "advance" /\ agent'[a].pc = "work" /\ Fence(a)
              /\ agent'[a].step = agent[a].step + 1
              /\ agent[a].step = 0 /\ job[agent[a].job].type # "provision" => SiteLoads(a)
           \/ /\ agent[a].pc = "work" /\ agent'[a].step = agent[a].step
              /\ agent'[a].pc =
                    IF agent[a].step < Steps[job[agent[a].job].type]
                    THEN "advance" ELSE "complete"
           \/ /\ agent[a].pc = "complete" /\ agent'[a].pc = "closing"
              /\ agent'[a].step = agent[a].step
           \/ /\ agent'[a].step = agent[a].step
              /\ agent'[a].pc \in {agent[a].pc, "failing"}
<1>1. CASE Advance(a)
  BY <1>1 DEF Advance, TypeOK, Process
<1>2. CASE Work(a)
  BY <1>2 DEF Work, TypeOK, Process
<1>3. CASE ExecutionFails(a) \/ RenewFails(a) \/ RequestStop(a)
  BY <1>3 DEF ExecutionFails, RenewFails, RequestStop, TypeOK, Process
<1>4. CASE BeginComplete(a)
  BY <1>4 DEF BeginComplete, TypeOK, Process
<1>5. CASE Complete(a) \/ FailJob(a)
  <2>1. agent' = [agent EXCEPT ![a] = Idle(a)] \/ agent' = [agent EXCEPT ![a].pc = "failing"]
    BY <1>5 DEF Complete, FailJob
  <2> QED
    BY <2>1, IdleType DEF TypeOK, Process
<1>6. CASE Crash(a) \/ StopAndRestart(a)
  BY <1>6, FreshProcessType DEF Crash, StopAndRestart, TypeOK
<1> QED
  BY <1>1, <1>2, <1>3, <1>4, <1>5, <1>6 DEF Run

\* A step of the queue belongs to one process, or to none.
Moves(a) == Run(a) \/ RenewFails(a) \/ Crash(a) \/ StopAndRestart(a) \/ RequestStop(a)

LEMMA WhoMoves ==
    ASSUME [Next]_vars
    PROVE  \/ UNCHANGED agent
           \/ \E a \in Agents : ClaimNextJob(a) \/ Moves(a)
BY DEF Next, API, Fault, vars, CreateProvisionJob, CreateSiteJobCheck,
       CreateSiteJobInsert, CreateSiteJobRollback, RetryJob, LeaseExpires, RenewLate,
       Moves

LEMMA MovesKeep == ASSUME IInv, NEW a \in Agents, Moves(a) PROVE KeepsClaims(a)
BY ProcessStep DEF Moves, IInv

\* A claim that ClaimNextJob grants.
LEMMA Claims ==
    ASSUME IInv, NEW a \in Agents, ClaimNextJob(a)
    PROVE  \E j \in Jobs :
              /\ agent[a].pc = "idle" /\ Claimable(j)
              /\ job'[j] = ClaimedRow(job[j], a)
              /\ \A i \in Jobs : i # j => job'[i] = job[i]
              /\ agent'[a].pc = "advance" /\ agent'[a].job = j /\ agent'[a].step = 0
              /\ agent'[a].version = job'[j].version
              /\ \A b \in Agents : b # a => agent'[b] = agent[b]
<1>1. PICK j \in Jobs :
         /\ agent[a].pc = "idle" /\ Claimable(j)
         /\ job' = [job EXCEPT ![j] = ClaimedRow(job[j], a)]
         /\ agent' = [agent EXCEPT ![a].pc = "advance", ![a].job = j,
                                   ![a].version = job'[j].version,
                                   ![a].step = 0]
  BY DEF ClaimNextJob
<1> QED
  BY <1>1 DEF IInv, TypeOK, Process

-----------------------------------------------------------------------------
(* The strengthening is inductive.                                         *)

LEMMA QueueInitial == Init => AbsentOK /\ StepsOK /\ SiteLoaded
BY DEF Init, AbsentOK, StepsOK, SiteLoaded, Executing, AbsentRow, FreshProcess

LEMMA AbsentKept == IInv /\ AbsentOK /\ [Next]_vars => AbsentOK'
<1> SUFFICES ASSUME IInv, AbsentOK, [Next]_vars, NEW j \in Jobs,
                    job'[j].status = "none"
             PROVE  job'[j].attempt = 0
  BY DEF AbsentOK
<1>1. job[j].status = "none" /\ job[j] \in Row
  BY RowsKeep DEF IInv, TypeOK
<1>2. CASE job'[j] = job[j]
  BY <1>1, <1>2 DEF AbsentOK
<1>3. CASE RowStep(j)
  <2>1. \/ \E s \in Sites, t \in Types : job'[j] = PendingRow(s, t)
        \/ \E a \in Agents, st \in {"completed", "failed"}, b \in BOOLEAN :
              job'[j] = EndedRow(job[j], st, b)
        \/ \E l \in Leases : job'[j] = [job[j] EXCEPT !.lease = l]
    BY <1>1, <1>3 DEF RowStep, Claimable, Leases
  <2>2. ASSUME NEW r \in Types, NEW q \in Sites, job'[j] = PendingRow(q, r)
        PROVE  FALSE
    BY <2>2, PendingRowType
  <2>3. ASSUME NEW st \in {"completed", "failed"}, NEW b \in BOOLEAN,
               job'[j] = EndedRow(job[j], st, b)
        PROVE  FALSE
    BY <1>1, <2>3 DEF EndedRow, Row
  <2>4. ASSUME NEW l \in Leases, job'[j] = [job[j] EXCEPT !.lease = l]
        PROVE  job'[j].attempt = 0
    BY <1>1, <2>4 DEF Row, AbsentOK
  <2> QED
    BY <2>1, <2>2, <2>3, <2>4
<1> QED
  BY <1>2, <1>3, RowsChange DEF OneRowChanges, vars

LEMMA StepsKept == IInv /\ StepsOK /\ [Next]_vars => StepsOK'
<1> SUFFICES ASSUME IInv, StepsOK, [Next]_vars, NEW a \in Agents, agent'[a].pc # "idle"
             PROVE  /\ agent'[a].pc = "advance" =>
                          agent'[a].step < Steps[job'[agent'[a].job].type]
                    /\ agent'[a].pc = "work" =>
                          agent'[a].step \in 1..Steps[job'[agent'[a].job].type]
                    /\ agent'[a].pc \in {"complete", "closing"} =>
                          agent'[a].step = Steps[job'[agent'[a].job].type]
  BY DEF StepsOK
<1>1. CASE ClaimNextJob(a)
  <2>1. PICK j \in Jobs : /\ Claimable(j) /\ agent'[a].pc = "advance"
                          /\ agent'[a].job = j /\ agent'[a].step = 0
    BY <1>1, Claims
  <2>2. job[j].status # "none" /\ job[j].type \in Types
    BY <2>1 DEF Claimable, IInv, RowsOK
  <2>3. Steps[job'[j].type] \in Nat \ {0}
    BY <2>2, RowsKeep DEF Types
  <2> QED
    BY <2>1, <2>3
<1>2. CASE agent'[a] = agent[a] \/ Moves(a)
  <2>1. /\ agent[a].pc # "idle" /\ agent'[a].job = agent[a].job
        /\ agent[a].job \in Jobs /\ job[agent[a].job].status # "none"
    BY <1>2, ProcessStep DEF Moves, KeepsClaims, IInv, ClaimsOK
  <2>2. job'[agent[a].job].type = job[agent[a].job].type
    BY <2>1, RowsKeep
  <2>3. Steps[job[agent[a].job].type] \in Nat \ {0} /\ agent[a].step \in Nat
    BY <2>1 DEF IInv, RowsOK, TypeOK, Process, Types
  <2>4. CASE agent'[a] = agent[a]
    BY <2>1, <2>2, <2>4 DEF StepsOK
  <2>5. CASE Moves(a)
    BY <2>1, <2>2, <2>3, <2>5, ProcessMoves DEF Moves, IInv, StepsOK
  <2> QED
    BY <1>2, <2>4, <2>5
<1>3. \/ agent'[a] = agent[a] \/ Moves(a) \/ ClaimNextJob(a)
  <2>1. CASE UNCHANGED agent
    BY <2>1
  <2>2. ASSUME NEW b \in Agents, b # a, ClaimNextJob(b) \/ Moves(b)
        PROVE  agent'[a] = agent[a]
    <3>1. CASE ClaimNextJob(b)
      BY <2>2, <3>1, Claims
    <3>2. CASE Moves(b)
      BY <2>2, <3>2, MovesKeep DEF KeepsClaims
    <3> QED
      BY <2>2, <3>1, <3>2
  <2> QED
    BY <2>1, <2>2, WhoMoves
<1> QED
  BY <1>1, <1>2, <1>3

\* A site is deleted only by the holder of a claim on an operation of it.
LEMMA SitesChange ==
    ASSUME IInv, [Next]_vars, NEW s \in Sites, site[s] = "present"
    PROVE  \/ site'[s] = "present"
           \/ \E c \in Agents : /\ agent[c].job \in Jobs /\ ClaimStands(c)
                                /\ job[agent[c].job].type \in OpTypes
                                /\ job[agent[c].job].site = s
                                /\ job'[agent[c].job].status = "completed"
<1>1. CASE UNCHANGED site
  BY <1>1
<1>2. ASSUME NEW t \in Sites, NEW j \in Jobs, CreateProvisionJob(t, j)
      PROVE  site'[s] = "present"
  BY <1>2 DEF CreateProvisionJob, IInv, TypeOK
<1>3. ASSUME NEW c \in Agents, Complete(c), site'[s] # "present"
      PROVE  /\ agent[c].job \in Jobs /\ ClaimStands(c)
             /\ job[agent[c].job].type \in OpTypes
             /\ job[agent[c].job].site = s
             /\ job'[agent[c].job].status = "completed"
  <2>1. /\ agent[c].job \in Jobs /\ job[agent[c].job] \in Row
        /\ job[agent[c].job].type \in Types
    BY <1>3 DEF Complete, IInv, ClaimsOK, RowsOK, TypeOK
  <2>2. /\ ClaimStands(c)
        /\ job' = [job EXCEPT ![agent[c].job] = EndedRow(@, "completed", @.retryable)]
        /\ site' = [site EXCEPT ![job[agent[c].job].site] =
                       IF job[agent[c].job].type = "delete" THEN "deleted" ELSE @]
    BY <1>3 DEF Complete
  <2>3. job[agent[c].job].site = s /\ job[agent[c].job].type = "delete"
    BY <1>3, <2>2 DEF IInv, TypeOK
  <2>4. "delete" \in OpTypes
    BY <2>1, <2>3 DEF Types
  <2>5. job'[agent[c].job].status = "completed"
    BY <2>1, <2>2 DEF EndedRow, Row, IInv, TypeOK
  <2> QED
    BY <2>1, <2>2, <2>3, <2>4, <2>5
<1> QED
  BY <1>1, <1>2, <1>3
     DEF Next, API, Run, Fault, vars, CreateSiteJobCheck, CreateSiteJobInsert,
         CreateSiteJobRollback, RetryJob, ClaimNextJob, Advance, Work, ExecutionFails,
         RenewFails, BeginComplete, FailJob, Crash, RequestStop, StopAndRestart,
         LeaseExpires, RenewLate

LEMMA LoadedKept ==
    IInv /\ OneOperationPerSite /\ StepsOK /\ SiteLoaded /\ [Next]_vars => SiteLoaded'
<1> SUFFICES ASSUME IInv, OneOperationPerSite, StepsOK, SiteLoaded, [Next]_vars,
                    NEW a \in Agents, Executing(a)', agent'[a].step > 0, ClaimStands(a)',
                    job'[agent'[a].job].type \in OpTypes
             PROVE  site'[job'[agent'[a].job].site] = "present"
  BY DEF SiteLoaded
<1> DEFINE j == agent[a].job
<1>1. agent'[a] = agent[a] \/ Moves(a)
  <2>1. CASE UNCHANGED agent
    BY <2>1
  <2>2. ~ ClaimNextJob(a)
    BY Claims
  <2>3. ASSUME NEW b \in Agents, b # a, ClaimNextJob(b) \/ Moves(b)
        PROVE  agent'[a] = agent[a]
    <3>1. CASE ClaimNextJob(b)
      BY <2>3, <3>1, Claims
    <3>2. CASE Moves(b)
      BY <2>3, <3>2, MovesKeep DEF KeepsClaims
    <3> QED
      BY <2>3, <3>1, <3>2
  <2> QED
    BY <2>1, <2>2, <2>3, WhoMoves
<1>2. agent'[a].pc # "idle"
  BY DEF Executing
<1>3. /\ agent[a].pc # "idle" /\ agent'[a].job = j /\ agent'[a].version = agent[a].version
      /\ j \in Jobs /\ job[j].status # "none" /\ job[j].site \in Sites
  BY <1>1, <1>2, ProcessStep DEF Moves, KeepsClaims, IInv, ClaimsOK, RowsOK
<1>4. job'[j].type = job[j].type /\ job'[j].site = job[j].site /\ job[j].type \in OpTypes
  BY <1>3, RowsKeep
<1>5. ClaimStands(a)
  BY <1>3, ClaimsStood
<1>6. site[job[j].site] = "present"
  <2>1. CASE Executing(a) /\ agent[a].step > 0
    BY <1>4, <1>5, <2>1 DEF SiteLoaded
  <2>2. CASE ~ (Executing(a) /\ agent[a].step > 0)
    <3>1. Moves(a)
      BY <1>1, <2>2 DEF Executing
    <3>2. agent[a].step \in Nat
      BY DEF IInv, TypeOK, Process
    <3>3. "provision" \notin OpTypes
      BY DEF AllOpTypes
    <3>4. agent'[a].pc # "failing"
      BY DEF Executing
    <3>5. SiteLoads(a)
      BY <1>2, <1>4, <2>2, <3>1, <3>2, <3>3, <3>4, ProcessMoves
         DEF Moves, IInv, Executing
    <3> QED
      BY <3>5 DEF SiteLoads
  <2> QED
    BY <2>1, <2>2
<1>7. job[j].status = "running" /\ job'[j].status = "running"
  BY <1>3, <1>5 DEF ClaimStands
<1>8. ASSUME NEW c \in Agents, agent[c].job \in Jobs, ClaimStands(c),
             job[agent[c].job].type \in OpTypes, job[agent[c].job].site = job[j].site,
             job'[agent[c].job].status = "completed"
      PROVE  FALSE
  <2>1. job[agent[c].job].status = "running"
    BY <1>8 DEF ClaimStands
  <2>2. agent[c].job = j
    BY <1>3, <1>4, <1>7, <1>8, <2>1 DEF OneOperationPerSite, ActiveOn, Active
  <2> QED
    BY <1>7, <1>8, <2>2
<1> QED
  BY <1>3, <1>4, <1>6, <1>8, SitesChange

THEOREM QueueInvariance == Spec => []QInv
<1>1. Init => AbsentOK /\ StepsOK /\ SiteLoaded
  BY QueueInitial
<1>2. /\ IInv /\ OneOperationPerSite /\ AbsentOK /\ StepsOK /\ SiteLoaded
      /\ [Next]_vars
      => (AbsentOK /\ StepsOK /\ SiteLoaded)'
  BY AbsentKept, StepsKept, LoadedKept
<1> QED
  BY <1>1, <1>2, Invariance, ClaimsAreUnique, OneOperation, PTL DEF Spec, QInv

-----------------------------------------------------------------------------
\* Only the closing transaction of a process completes a job.
LEMMA Completion ==
    ASSUME IInv, [Next]_vars, NEW j \in Jobs, job[j].status # "completed",
           job'[j].status = "completed"
    PROVE  \E a \in Agents : /\ agent[a].pc = "closing" /\ agent[a].job = j
                             /\ ClaimStands(a) /\ Complete(a)
<1>1. job[j] \in Row /\ job'[j] # job[j]
  BY DEF IInv, TypeOK
<1>2. ASSUME NEW s \in Sites, NEW i \in Jobs,
             CreateProvisionJob(s, i) \/ CreateSiteJobInsert(s, i)
      PROVE  FALSE
  <2>1. PICK t \in Types : job' = [job EXCEPT ![i] = PendingRow(s, t)]
    BY <1>2 DEF CreateProvisionJob, CreateSiteJobInsert, IInv, TypeOK, Types
  <2>2. job'[j] = PendingRow(s, t)
    BY <1>1, <2>1 DEF IInv, TypeOK
  <2> QED
    BY <2>2, PendingRowType
<1>3. ASSUME NEW i \in Jobs, RetryJob(i) \/ \E l \in Leases : LeaseBecomes(i, l)
      PROVE  FALSE
  BY <1>1, <1>3 DEF RetryJob, LeaseBecomes, IInv, TypeOK, Row
<1>4. ASSUME NEW a \in Agents, ClaimNextJob(a)
      PROVE  FALSE
  <2>1. PICK i \in Jobs : /\ job'[i] = ClaimedRow(job[i], a) /\ Claimable(i)
                          /\ \A k \in Jobs : k # i => job'[k] = job[k]
    BY <1>4, Claims
  <2>2. i = j /\ job[j].version = job[j].attempt /\ job[j].attempt < MaxAttempts
    BY <1>1, <2>1 DEF IInv, RowsOK, Claimable
  <2> QED
    BY <1>1, <2>1, <2>2, ClaimedRowType
<1>5. ASSUME NEW a \in Agents, FailJob(a)
      PROVE  FALSE
  <2>1. PICK b \in BOOLEAN :
           job' = [job EXCEPT ![agent[a].job] = EndedRow(@, "failed", b)]
    <3>1. \A k \in Jobs : (job[k].attempt < MaxAttempts) \in BOOLEAN
      OBVIOUS
    <3>2. agent[a].job \in Jobs
      BY <1>5 DEF FailJob, IInv, ClaimsOK
    <3> QED
      BY <1>1, <1>5, <3>1, <3>2 DEF FailJob, IInv, TypeOK
  <2> QED
    BY <1>1, <2>1 DEF EndedRow, Row, IInv, TypeOK
<1>6. ASSUME NEW a \in Agents, Complete(a)
      PROVE  agent[a].pc = "closing" /\ agent[a].job = j /\ ClaimStands(a)
  BY <1>1, <1>6 DEF Complete, IInv, TypeOK
<1> QED
  BY <1>1, <1>2, <1>3, <1>4, <1>5, <1>6, LeaseSteps
     DEF IInv, LeaseStep, Next, API, Run, Fault, vars, CreateSiteJobCheck,
         CreateSiteJobRollback, Advance, Work, ExecutionFails, RenewFails, BeginComplete,
         Crash, RequestStop, StopAndRestart

\* No operation completes on a site that is already deleted, whichever jobs are
\* retried after the deletion (loadSite, completeOperation).
THEOREM OperationsSpareDeleted == Spec => OperationsSpareDeletedSites
<1> DEFINE Spares == \A j \in Jobs :
          /\ job[j].type \in OpTypes
          /\ job[j].status # "completed"
          /\ job'[j].status = "completed"
          => site[job[j].site] = "present"
<1>1. QInv /\ [Next]_vars => [Spares]_vars
  <2> SUFFICES ASSUME QInv, [Next]_vars, NEW j \in Jobs, job[j].type \in OpTypes,
                      job[j].status # "completed", job'[j].status = "completed"
               PROVE  site[job[j].site] = "present"
    OBVIOUS
  <2>1. PICK a \in Agents : agent[a].pc = "closing" /\ agent[a].job = j /\ ClaimStands(a)
    BY Completion DEF QInv
  <2>2. agent[a].step > 0
    BY <2>1 DEF QInv, StepsOK, Types
  <2> QED
    BY <2>1, <2>2 DEF QInv, SiteLoaded, Executing
<1> QED
  BY <1>1, QueueInvariance, PTL DEF Spec, OperationsSpareDeletedSites

-----------------------------------------------------------------------------
(* The refinement.  What the contract calls the steps reported are the     *)
(* steps of the process that holds the claim in force; at most one does.   *)

Holding(a, j) == agent[a].pc # "idle" /\ agent[a].job = j /\ ClaimStands(a)

ReportedOK ==
    \A j \in Jobs :
        /\ \A a \in Agents : Holding(a, j) => StepsReported(j) = agent[a].step
        /\ (\A a \in Agents : ~ Holding(a, j)) => StepsReported(j) = 0

LEMMA Reported == ClaimsUnique => ReportedOK
<1> SUFFICES ASSUME ClaimsUnique, NEW j \in Jobs
             PROVE  /\ \A a \in Agents : Holding(a, j) => StepsReported(j) = agent[a].step
                    /\ (\A a \in Agents : ~ Holding(a, j)) => StepsReported(j) = 0
  BY DEF ReportedOK
<1> DEFINE holders == {a \in Agents : agent[a].pc # "idle" /\ agent[a].job = j
                                      /\ ClaimStands(a)}
<1>1. StepsReported(j) =
         IF holders = {} THEN 0 ELSE agent[CHOOSE a \in holders : TRUE].step
  BY DEF StepsReported
<1>2. ASSUME NEW a \in Agents, Holding(a, j) PROVE StepsReported(j) = agent[a].step
  <2>1. a \in holders
    BY <1>2 DEF Holding
  <2>2. \A b \in holders : b = a
    BY <1>2 DEF Holding, ClaimStands, ClaimsUnique
  <2>3. (CHOOSE b \in holders : TRUE) = a
    BY <2>1, <2>2
  <2> QED
    BY <1>1, <2>1, <2>3
<1>3. (\A a \in Agents : ~ Holding(a, j)) => StepsReported(j) = 0
  BY <1>1 DEF Holding
<1> QED
  BY <1>2, <1>3

LEMMA ReportedPrime == ClaimsUnique' => ReportedOK'
BY Reported, PTL

\* A job whose holder and steps stay as they are.
LEMMA SameReported ==
    ASSUME ReportedOK, ReportedOK', NEW j \in Jobs,
           \A a \in Agents : Holding(a, j)' <=> Holding(a, j),
           \A a \in Agents : Holding(a, j) => agent'[a].step = agent[a].step
    PROVE  StepsReported(j)' = StepsReported(j)
BY DEF ReportedOK

\* The steps of the contract, for one job at a time.
OthersStay(j) ==
    \A i \in Jobs \ {j} :
        /\ job'[i].status = job[i].status /\ job'[i].attempt = job[i].attempt
        /\ job'[i].type = job[i].type /\ StepsReported(i)' = StepsReported(i)

LEMMA Elsewhere ==
    ASSUME ReportedOK, ReportedOK', NEW j \in Jobs,
           \A i \in Jobs : i # j => job'[i] = job[i],
           \A a \in Agents :
              \/ agent'[a] = agent[a]
              \/ /\ agent[a].pc = "idle" \/ agent[a].job = j
                 /\ agent'[a].pc = "idle" \/ agent'[a].job = j
    PROVE  OthersStay(j)
<1> SUFFICES ASSUME NEW i \in Jobs, i # j PROVE StepsReported(i)' = StepsReported(i)
  BY DEF OthersStay
<1>1. ASSUME NEW a \in Agents PROVE Holding(a, i)' <=> Holding(a, i)
  <2>1. CASE agent'[a] = agent[a]
    BY <2>1 DEF Holding, ClaimStands
  <2>2. CASE /\ agent[a].pc = "idle" \/ agent[a].job = j
             /\ agent'[a].pc = "idle" \/ agent'[a].job = j
    BY <2>2 DEF Holding
  <2> QED
    BY <2>1, <2>2
<1>2. ASSUME NEW a \in Agents, Holding(a, i) PROVE agent'[a].step = agent[a].step
  BY <1>2 DEF Holding
<1> QED
  BY <1>1, <1>2, SameReported

LengthOf(j) == IF job[j].type = NoType THEN 0 ELSE Steps[job[j].type]

LEMMA SubmitMaps ==
    ASSUME NEW j \in Jobs, OthersStay(j), job[j].status = "none",
           job'[j].status = "pending", job'[j].attempt = job[j].attempt,
           job'[j].type \in Types, StepsReported(j)' = StepsReported(j)
    PROVE  Contract!Submit(j)
<1> DEFINE n == Steps[job'[j].type]
<1>1. n \in {Steps[t] : t \in Types}
  OBVIOUS
<1>2. job'[j].type # NoType
  BY DEF NoType, Types, AllOpTypes
<1>3. [i \in Jobs |-> LengthOf(i)]' = [[i \in Jobs |-> LengthOf(i)] EXCEPT ![j] = n]
  BY <1>2 DEF LengthOf, OthersStay
<1>4. \E m \in {Steps[t] : t \in Types} :
         [i \in Jobs |-> LengthOf(i)]' = [[i \in Jobs |-> LengthOf(i)] EXCEPT ![j] = m]
  BY <1>1, <1>3
<1> QED
  BY <1>4 DEF Contract!Submit, OthersStay, LengthOf

LEMMA StartMaps ==
    ASSUME NEW j \in Jobs, OthersStay(j), job[j].status \in {"pending", "running"},
           job[j].attempt < MaxAttempts, job'[j].status = "running",
           job'[j].attempt = job[j].attempt + 1, job'[j].type = job[j].type,
           StepsReported(j)' = 0
    PROVE  Contract!Start(j)
BY DEF Contract!Start, OthersStay

LEMMA RetryMaps ==
    ASSUME NEW j \in Jobs, OthersStay(j), job[j].status = "failed",
           job[j].attempt < MaxAttempts, job'[j].status = "pending",
           job'[j].attempt = job[j].attempt, job'[j].type = job[j].type,
           StepsReported(j)' = StepsReported(j)
    PROVE  Contract!Retry(j)
BY DEF Contract!Retry, OthersStay

\* The steps of the process that holds the claim in force.
Kept(j) == job'[j].attempt = job[j].attempt /\ job'[j].type = job[j].type

LEMMA ReportMaps ==
    ASSUME NEW j \in Jobs, OthersStay(j), Kept(j), job[j].status = "running",
           job'[j].status = "running", job[j].type \in Types,
           StepsReported(j) < Steps[job[j].type],
           StepsReported(j)' = StepsReported(j) + 1
    PROVE  Contract!Report(j)
<1>1. job[j].type # NoType
  BY DEF NoType, Types, AllOpTypes
<1> QED
  BY <1>1 DEF Contract!Report, OthersStay, Kept

LEMMA LoseMaps ==
    ASSUME NEW j \in Jobs, OthersStay(j), Kept(j), job[j].status = "running",
           job'[j].status = "running", StepsReported(j)' = 0
    PROVE  Contract!Lose(j)
BY DEF Contract!Lose, OthersStay, Kept

LEMMA SucceedMaps ==
    ASSUME NEW j \in Jobs, OthersStay(j), Kept(j), job[j].status = "running",
           job'[j].status = "completed", job[j].type \in Types,
           StepsReported(j) = Steps[job[j].type], StepsReported(j)' = 0
    PROVE  Contract!Succeed(j)
<1>1. job[j].type # NoType
  BY DEF NoType, Types, AllOpTypes
<1> QED
  BY <1>1 DEF Contract!Succeed, OthersStay, Kept

LEMMA GiveUpMaps ==
    ASSUME NEW j \in Jobs, OthersStay(j), Kept(j), job[j].status = "running",
           job'[j].status = "failed", StepsReported(j)' = 0
    PROVE  Contract!GiveUp(j)
BY DEF Contract!GiveUp, OthersStay, Kept

LEMMA StutterMaps ==
    ASSUME \A j \in Jobs :
              /\ Kept(j) /\ job'[j].status = job[j].status
              /\ StepsReported(j)' = StepsReported(j)
    PROVE  UNCHANGED Contract!vars
BY DEF Contract!vars, Kept

-----------------------------------------------------------------------------
(* Every step of the queue is a step of the contract, or none.             *)

\* The steps that change nothing the contract speaks of.
Quiet ==
    /\ \A j \in Jobs : /\ Kept(j) /\ job'[j].status = job[j].status
                       /\ job'[j].version = job[j].version
                       /\ job'[j].worker = job[j].worker
    /\ \A a \in Agents :
          \/ /\ agent[a].pc # "idle" /\ agent'[a].pc # "idle"
             /\ agent'[a].job = agent[a].job /\ agent'[a].version = agent[a].version
             /\ agent'[a].step = agent[a].step
          \/ agent[a].pc = "idle" /\ agent'[a].pc = "idle"

LEMMA QuietMaps ==
    ASSUME IInv, ReportedOK, ReportedOK', Quiet
    PROVE  UNCHANGED Contract!vars
<1>1. ASSUME NEW j \in Jobs PROVE StepsReported(j)' = StepsReported(j)
  <2>1. ASSUME NEW a \in Agents PROVE Holding(a, j)' <=> Holding(a, j)
    BY DEF Quiet, Holding, ClaimStands
  <2>2. ASSUME NEW a \in Agents, Holding(a, j) PROVE agent'[a].step = agent[a].step
    BY <2>2 DEF Quiet, Holding
  <2> QED
    BY <2>1, <2>2, SameReported
<1> QED
  BY <1>1, StutterMaps DEF Quiet

LEMMA InsertMaps ==
    ASSUME QInv, ReportedOK, ReportedOK', NEW s \in Sites, NEW j \in Jobs,
           CreateProvisionJob(s, j) \/ CreateSiteJobInsert(s, j)
    PROVE  Contract!Submit(j)
<1>1. PICK t \in Types : job' = [job EXCEPT ![j] = PendingRow(s, t)]
  BY DEF CreateProvisionJob, CreateSiteJobInsert, QInv, IInv, TypeOK, Types
<1>2. job'[j] = PendingRow(s, t) /\ \A i \in Jobs : i # j => job'[i] = job[i]
  BY <1>1 DEF QInv, IInv, TypeOK
<1>3. job[j].status = "none" /\ UNCHANGED agent
  BY DEF CreateProvisionJob, CreateSiteJobInsert
<1>4. OthersStay(j)
  BY <1>2, <1>3, Elsewhere
<1>5. \A a \in Agents : agent[a].pc # "idle" => agent[a].job # j
  BY <1>3 DEF QInv, IInv, ClaimsOK
<1>6. StepsReported(j) = 0 /\ StepsReported(j)' = 0
  <2>1. \A a \in Agents : ~ Holding(a, j)
    BY <1>5 DEF Holding
  <2>2. \A a \in Agents : ~ Holding(a, j)'
    BY <1>3, <1>5 DEF Holding
  <2> QED
    BY <2>1, <2>2 DEF ReportedOK
<1>7. job[j].attempt = 0 /\ job'[j].attempt = 0
  BY <1>2, <1>3, PendingRowType DEF QInv, AbsentOK
<1>8. job'[j].status = "pending" /\ job'[j].type \in Types
  BY <1>2, PendingRowType
<1> QED
  BY <1>3, <1>4, <1>6, <1>7, <1>8, SubmitMaps

LEMMA RetryJobMaps ==
    ASSUME QInv, ReportedOK, ReportedOK', NEW j \in Jobs, RetryJob(j)
    PROVE  Contract!Retry(j)
<1>1. /\ job[j] \in Row /\ job[j].status = "failed" /\ job[j].attempt < MaxAttempts
      /\ UNCHANGED agent
      /\ job'[j] = [job[j] EXCEPT !.status = "pending", !.worker = NoWorker,
                                  !.lease = "none"]
      /\ \A i \in Jobs : i # j => job'[i] = job[i]
  BY DEF RetryJob, QInv, IInv, TypeOK
<1>2. OthersStay(j)
  BY <1>1, Elsewhere
<1>3. job'[j].status = "pending" /\ Kept(j)
  BY <1>1 DEF Row, Kept
<1>4. StepsReported(j) = 0 /\ StepsReported(j)' = 0
  <2>1. \A a \in Agents : ~ Holding(a, j)
    BY <1>1 DEF Holding, ClaimStands
  <2>2. \A a \in Agents : ~ Holding(a, j)'
    BY <1>1, <1>3 DEF Holding, ClaimStands
  <2> QED
    BY <2>1, <2>2 DEF ReportedOK
<1> QED
  BY <1>1, <1>2, <1>3, <1>4, RetryMaps DEF Kept

LEMMA ClaimMaps ==
    ASSUME QInv, ReportedOK, ReportedOK', NEW a \in Agents, ClaimNextJob(a)
    PROVE  \E j \in Jobs : Contract!Start(j)
<1>1. PICK j \in Jobs :
         /\ agent[a].pc = "idle" /\ Claimable(j)
         /\ job'[j] = ClaimedRow(job[j], a)
         /\ \A i \in Jobs : i # j => job'[i] = job[i]
         /\ agent'[a].pc = "advance" /\ agent'[a].job = j /\ agent'[a].step = 0
         /\ agent'[a].version = job'[j].version
         /\ \A b \in Agents : b # a => agent'[b] = agent[b]
  BY Claims DEF QInv
<1>2. /\ job[j] \in Row /\ job[j].attempt < MaxAttempts
      /\ job[j].version = job[j].attempt /\ job[j].status \in {"pending", "running"}
  BY <1>1 DEF QInv, IInv, TypeOK, RowsOK, Claimable
<1>3. /\ job'[j].status = "running" /\ job'[j].attempt = job[j].attempt + 1
      /\ job'[j].type = job[j].type
  BY <1>1, <1>2, ClaimedRowType
<1>4. Holding(a, j)'
  <2>1. job'[j].worker = WorkerId[a]
    BY <1>1, <1>2 DEF ClaimedRow, Row
  <2> QED
    BY <1>1, <1>3, <2>1 DEF Holding, ClaimStands
<1>5. StepsReported(j)' = 0
  BY <1>1, <1>4 DEF ReportedOK
<1>6. OthersStay(j)
  BY <1>1, Elsewhere
<1> QED
  BY <1>2, <1>3, <1>5, <1>6, StartMaps

-----------------------------------------------------------------------------
(* The steps of a process.                                                 *)

\* A process touches one job, the one in its hands.
LEMMA OnlyItsJob ==
    ASSUME QInv, ReportedOK, ReportedOK', NEW a \in Agents, Moves(a),
           agent[a].pc # "idle",
           \A i \in Jobs : i # agent[a].job => job'[i] = job[i]
    PROVE  OthersStay(agent[a].job)
<1>1. agent[a].job \in Jobs
  BY DEF QInv, IInv, ClaimsOK
<1>2. ASSUME NEW b \in Agents
      PROVE  \/ agent'[b] = agent[b]
             \/ /\ agent[b].pc = "idle" \/ agent[b].job = agent[a].job
                /\ agent'[b].pc = "idle" \/ agent'[b].job = agent[a].job
  BY ProcessStep DEF Moves, KeepsClaims, QInv, IInv
<1> QED
  BY <1>1, <1>2, Elsewhere

\* When a process lets go of a claim that stands, nobody holds the job.
LEMMA LetsGo ==
    ASSUME QInv, ReportedOK', NEW a \in Agents, Moves(a), agent[a].pc # "idle",
           NEW j \in Jobs, agent[a].job = j, ClaimStands(a),
           job'[j].version = job[j].version,
           agent'[a].pc = "idle" \/ job'[j].status # "running"
    PROVE  StepsReported(j)' = 0
<1>1. ASSUME NEW b \in Agents, Holding(b, j)' PROVE FALSE
  <2>1. /\ job'[j].status = "running" /\ agent'[b].pc # "idle" /\ agent'[b].job = j
        /\ agent'[b].version = job'[j].version
    BY <1>1 DEF Holding, ClaimStands
  <2>2. b # a
    BY <2>1
  <2>3. agent'[b] = agent[b]
    BY <2>2, ProcessStep DEF Moves, KeepsClaims, QInv, IInv
  <2>4. agent[b].version = agent[a].version
    BY <2>1, <2>3 DEF ClaimStands
  <2> QED
    BY <2>1, <2>2, <2>3, <2>4 DEF QInv, ClaimsUnique
<1> QED
  BY <1>1 DEF ReportedOK

\* A process whose claim does not stand is nothing to the contract.
LEMMA LostMaps ==
    ASSUME QInv, QInv', ReportedOK, ReportedOK', [Next]_vars, NEW a \in Agents,
           Moves(a), agent[a].pc # "idle", ~ ClaimStands(a), UNCHANGED job
    PROVE  UNCHANGED Contract!vars
<1>1. ASSUME NEW i \in Jobs PROVE StepsReported(i)' = StepsReported(i)
  <2>1. ~ Holding(a, i)
    BY DEF Holding
  <2>2. ~ Holding(a, i)'
    BY ProcessStep, ClaimsStood DEF Moves, KeepsClaims, QInv, IInv, Holding
  <2>3. ASSUME NEW b \in Agents, b # a PROVE agent'[b] = agent[b]
    BY <2>3, ProcessStep DEF Moves, KeepsClaims, QInv, IInv
  <2>4. ASSUME NEW b \in Agents PROVE Holding(b, i)' <=> Holding(b, i)
    BY <2>1, <2>2, <2>3 DEF Holding, ClaimStands
  <2>5. ASSUME NEW b \in Agents, Holding(b, i) PROVE agent'[b].step = agent[b].step
    BY <2>1, <2>3, <2>5
  <2> QED
    BY <2>4, <2>5, SameReported
<1> QED
  BY <1>1, StutterMaps DEF Kept

\* A process that drops its claim: the start is lost.
LEMMA DropMaps ==
    ASSUME QInv, QInv', ReportedOK, ReportedOK', [Next]_vars, NEW a \in Agents,
           Moves(a), agent[a].pc # "idle", agent'[a].pc = "idle", UNCHANGED job
    PROVE  \/ UNCHANGED Contract!vars
           \/ \E j \in Jobs : Contract!Lose(j)
<1>1. CASE ~ ClaimStands(a)
  BY <1>1, LostMaps
<1>2. CASE ClaimStands(a)
  <2>1. PICK j \in Jobs : j = agent[a].job
    BY DEF QInv, IInv, ClaimsOK
  <2>2. OthersStay(j)
    BY <2>1, OnlyItsJob
  <2>3. StepsReported(j)' = 0
    BY <1>2, <2>1, LetsGo
  <2>4. job[j].status = "running" /\ Kept(j)
    BY <1>2, <2>1 DEF ClaimStands, Kept
  <2> QED
    BY <2>2, <2>3, <2>4, LoseMaps
<1> QED
  BY <1>1, <1>2

\* A process that stays at work without announcing a step.
LEMMA WorkMaps ==
    ASSUME QInv, ReportedOK, ReportedOK', NEW a \in Agents, Moves(a),
           agent'[a].pc # "idle", agent'[a].step = agent[a].step, UNCHANGED job
    PROVE  UNCHANGED Contract!vars
<1>1. KeepsClaims(a)
  BY ProcessStep DEF Moves, QInv, IInv
<1>2. Quiet
  BY <1>1 DEF Quiet, Kept, KeepsClaims
<1> QED
  BY <1>2, QuietMaps DEF QInv

LEMMA AdvanceMaps ==
    ASSUME QInv, ReportedOK, ReportedOK', NEW a \in Agents, Advance(a)
    PROVE  \/ UNCHANGED Contract!vars
           \/ \E j \in Jobs : Contract!Report(j)
<1>1. agent[a].pc = "advance" /\ UNCHANGED job /\ Moves(a)
  BY DEF Advance, Moves, Run
<1>2. CASE ~ Fence(a)
  <2>1. agent'[a].pc = "failing" /\ agent'[a].step = agent[a].step
    BY <1>2 DEF Advance, QInv, IInv, TypeOK, Process
  <2> QED
    BY <1>1, <2>1, WorkMaps
<1>3. CASE Fence(a)
  <2>1. PICK j \in Jobs : j = agent[a].job
    BY <1>1 DEF QInv, IInv, ClaimsOK
  <2>2. /\ agent'[a].pc = "work" /\ agent'[a].step = agent[a].step + 1
        /\ agent'[a].job = j /\ agent'[a].version = agent[a].version
    BY <1>3, <2>1 DEF Advance, QInv, IInv, TypeOK, Process
  <2>3. ClaimStands(a) /\ ClaimStands(a)'
    BY <1>1, <1>3, <2>1, <2>2 DEF Fence, ClaimStands
  <2>4. StepsReported(j) = agent[a].step
    BY <1>1, <2>1, <2>3 DEF Holding, ReportedOK
  <2>5. StepsReported(j)' = agent[a].step + 1
    <3>1. Holding(a, j)'
      BY <2>2, <2>3 DEF Holding
    <3> QED
      BY <2>2, <3>1 DEF ReportedOK
  <2>6. agent[a].step < Steps[job[j].type]
    BY <1>1, <2>1 DEF QInv, StepsOK
  <2>7. job[j].status = "running" /\ job[j].type \in Types /\ Kept(j)
    BY <1>1, <2>1, <2>3 DEF ClaimStands, QInv, IInv, RowsOK, Kept
  <2>8. OthersStay(j)
    BY <1>1, <2>1, OnlyItsJob
  <2> QED
    BY <1>1, <2>4, <2>5, <2>6, <2>7, <2>8, ReportMaps
<1> QED
  BY <1>2, <1>3

\* The closing transaction or FailJob ends the job of the process.
LEMMA EndMaps ==
    ASSUME QInv, ReportedOK, ReportedOK', NEW a \in Agents, Moves(a),
           agent[a].pc # "idle", ClaimStands(a),
           NEW st \in {"completed", "failed"}, NEW b \in BOOLEAN,
           job' = [job EXCEPT ![agent[a].job] = EndedRow(@, st, b)],
           st = "completed" => agent[a].pc = "closing"
    PROVE  \E j \in Jobs : Contract!Succeed(j) \/ Contract!GiveUp(j)
<1>1. PICK j \in Jobs : j = agent[a].job
  BY DEF QInv, IInv, ClaimsOK
<1>2. /\ job'[j] = EndedRow(job[j], st, b) /\ job[j] \in Row
      /\ \A i \in Jobs : i # j => job'[i] = job[i]
  BY <1>1 DEF QInv, IInv, TypeOK
<1>3. job'[j].status = st /\ Kept(j) /\ job'[j].version = job[j].version
  <2>1. /\ EndedRow(job[j], st, b).status = st
        /\ EndedRow(job[j], st, b).version = job[j].version
        /\ EndedRow(job[j], st, b).attempt = job[j].attempt
        /\ EndedRow(job[j], st, b).type = job[j].type
    BY <1>2 DEF EndedRow, Row
  <2> QED
    BY <1>2, <2>1 DEF Kept
<1>4. job[j].status = "running" /\ job[j].type \in Types
  BY <1>1 DEF ClaimStands, QInv, IInv, RowsOK
<1>5. OthersStay(j)
  BY <1>1, <1>2, OnlyItsJob
<1>6. StepsReported(j)' = 0
  BY <1>1, <1>3, LetsGo
<1>7. CASE st = "completed"
  <2>1. StepsReported(j) = agent[a].step
    BY <1>1 DEF Holding, ReportedOK
  <2>2. agent[a].step = Steps[job[j].type]
    BY <1>1, <1>7 DEF QInv, StepsOK
  <2> QED
    BY <1>3, <1>4, <1>5, <1>6, <1>7, <2>1, <2>2, SucceedMaps
<1>8. CASE st = "failed"
  BY <1>3, <1>4, <1>5, <1>6, <1>8, GiveUpMaps
<1> QED
  BY <1>7, <1>8

LEMMA CompleteMaps ==
    ASSUME QInv, QInv', ReportedOK, ReportedOK', [Next]_vars, NEW a \in Agents,
           Complete(a)
    PROVE  \/ UNCHANGED Contract!vars
           \/ \E j \in Jobs : Contract!Succeed(j) \/ Contract!GiveUp(j)
<1>1. agent[a].pc = "closing" /\ agent[a].job \in Jobs /\ Moves(a)
  BY DEF Complete, Moves, Run, QInv, IInv, ClaimsOK
<1>2. CASE ClaimStands(a)
  <2>1. job[agent[a].job].retryable \in BOOLEAN
    BY <1>1 DEF QInv, IInv, TypeOK, Row
  <2>2. PICK b \in BOOLEAN :
           job' = [job EXCEPT ![agent[a].job] = EndedRow(@, "completed", b)]
    BY <1>1, <1>2, <2>1 DEF Complete
  <2> QED
    BY <1>1, <1>2, <2>2, EndMaps
<1>3. CASE ~ ClaimStands(a)
  BY <1>1, <1>3, LostMaps DEF Complete
<1> QED
  BY <1>2, <1>3

LEMMA FailJobMaps ==
    ASSUME QInv, QInv', ReportedOK, ReportedOK', [Next]_vars, NEW a \in Agents,
           FailJob(a)
    PROVE  \/ UNCHANGED Contract!vars
           \/ \E j \in Jobs : \/ Contract!Lose(j) \/ Contract!Succeed(j)
                              \/ Contract!GiveUp(j)
<1>1. agent[a].pc = "failing" /\ agent[a].job \in Jobs /\ Moves(a)
  BY DEF FailJob, Moves, Run, QInv, IInv, ClaimsOK
<1>2. agent'[a].pc = "idle"
  BY IdleType DEF FailJob, QInv, IInv, TypeOK
<1>3. CASE UNCHANGED job
  BY <1>1, <1>2, <1>3, DropMaps
<1>4. CASE ~ UNCHANGED job
  <2>1. (job[agent[a].job].attempt < MaxAttempts) \in BOOLEAN
    OBVIOUS
  <2>2. PICK b \in BOOLEAN :
           job' = [job EXCEPT ![agent[a].job] = EndedRow(@, "failed", b)]
    BY <1>1, <1>4, <2>1 DEF FailJob
  <2>3. ClaimStands(a)
    BY <1>4 DEF FailJob, Fence
  <2> QED
    BY <1>1, <2>2, <2>3, EndMaps
<1> QED
  BY <1>3, <1>4

\* What else a process does.
LEMMA OtherMovesMap ==
    ASSUME QInv, QInv', ReportedOK, ReportedOK', [Next]_vars, NEW a \in Agents,
           \/ Work(a) \/ ExecutionFails(a) \/ BeginComplete(a) \/ RenewFails(a)
           \/ Crash(a) \/ StopAndRestart(a) \/ RequestStop(a)
    PROVE  UNCHANGED Contract!vars \/ \E j \in Jobs : Contract!Lose(j)
<1>1. UNCHANGED job /\ Moves(a)
  BY DEF Work, ExecutionFails, BeginComplete, RenewFails, Crash, StopAndRestart,
         RequestStop, Moves, Run
<1>2. CASE agent[a].pc = "idle"
  <2>1. KeepsClaims(a)
    BY <1>1, ProcessStep DEF Moves, QInv, IInv
  <2>2. Quiet
    BY <1>1, <1>2, <2>1 DEF Quiet, Kept, KeepsClaims
  <2> QED
    BY <2>2, QuietMaps DEF QInv
<1>3. CASE agent[a].pc # "idle" /\ agent'[a].pc = "idle"
  BY <1>1, <1>3, DropMaps
<1>4. CASE agent'[a].pc # "idle"
  <2>1. agent'[a].step = agent[a].step
    <3>1. CASE Crash(a) \/ StopAndRestart(a)
      BY <1>4, <3>1, FreshProcessType DEF Crash, StopAndRestart, QInv, IInv, TypeOK
    <3>2. CASE ~ (Crash(a) \/ StopAndRestart(a))
      BY <3>2 DEF Work, ExecutionFails, BeginComplete, RenewFails, RequestStop, QInv,
                  IInv, TypeOK, Process
    <3> QED
      BY <3>1, <3>2
  <2> QED
    BY <1>1, <1>4, <2>1, WorkMaps
<1> QED
  BY <1>2, <1>3, <1>4

-----------------------------------------------------------------------------
\* The empty tables are the contract's.
LEMMA InitMaps == Init => Contract!Init
<1> SUFFICES ASSUME Init, NEW j \in Jobs
             PROVE  /\ job[j].status = "none" /\ job[j].attempt = 0
                    /\ job[j].type = NoType /\ StepsReported(j) = 0
  BY DEF Contract!Init
<1>1. \A a \in Agents : agent[a].pc = "idle"
  BY DEF Init, FreshProcess
<1>2. StepsReported(j) = 0
  BY <1>1 DEF StepsReported
<1> QED
  BY <1>2 DEF Init, AbsentRow

LEMMA StepMaps ==
    QInv /\ QInv' /\ ReportedOK /\ ReportedOK' /\ [Next]_vars
    => [Contract!Next]_Contract!vars
<1> SUFFICES ASSUME QInv, QInv', ReportedOK, ReportedOK', [Next]_vars
             PROVE  UNCHANGED Contract!vars \/ Contract!Next
  OBVIOUS
<1>1. ASSUME NEW s \in Sites, NEW j \in Jobs,
             CreateProvisionJob(s, j) \/ CreateSiteJobInsert(s, j)
      PROVE  Contract!Next
  BY <1>1, InsertMaps DEF Contract!Next
<1>2. ASSUME NEW j \in Jobs, RetryJob(j)
      PROVE  Contract!Next
  BY <1>2, RetryJobMaps DEF Contract!Next
<1>3. ASSUME NEW a \in Agents, ClaimNextJob(a)
      PROVE  Contract!Next
  BY <1>3, ClaimMaps DEF Contract!Next
<1>4. ASSUME NEW a \in Agents, Advance(a)
      PROVE  UNCHANGED Contract!vars \/ Contract!Next
  BY <1>4, AdvanceMaps DEF Contract!Next
<1>5. ASSUME NEW a \in Agents, Complete(a)
      PROVE  UNCHANGED Contract!vars \/ Contract!Next
  BY <1>5, CompleteMaps DEF Contract!Next
<1>6. ASSUME NEW a \in Agents, FailJob(a)
      PROVE  UNCHANGED Contract!vars \/ Contract!Next
  BY <1>6, FailJobMaps DEF Contract!Next
<1>7. ASSUME NEW a \in Agents,
             \/ Work(a) \/ ExecutionFails(a) \/ BeginComplete(a) \/ RenewFails(a)
             \/ Crash(a) \/ StopAndRestart(a) \/ RequestStop(a)
      PROVE  UNCHANGED Contract!vars \/ Contract!Next
  BY <1>7, OtherMovesMap DEF Contract!Next
<1>8. ASSUME NEW j \in Jobs, NEW l \in Leases, LeaseBecomes(j, l)
      PROVE  UNCHANGED Contract!vars
  <2>1. Quiet
    BY <1>8 DEF LeaseBecomes, Quiet, Kept, QInv, IInv, TypeOK, Row
  <2> QED
    BY <2>1, QuietMaps DEF QInv
<1>9. CASE UNCHANGED <<job, agent>>
  <2>1. Quiet
    BY <1>9 DEF Quiet, Kept
  <2> QED
    BY <2>1, QuietMaps DEF QInv
<1> QED
  BY <1>1, <1>2, <1>3, <1>4, <1>5, <1>6, <1>7, <1>8, <1>9, LeaseSteps
     DEF QInv, IInv, LeaseStep, Next, API, Run, Fault, vars, CreateSiteJobCheck,
         CreateSiteJobRollback

\* The queue keeps its contract: a job is completed only by a start that made
\* every step itself, after any number of takeovers, and a completed job is
\* never reopened, failed or executed again (ClaimNextJob, advance,
\* completeOperation, FailJob, RetryJob).
THEOREM QueueKeepsContract == Spec => ImplementsContract
<1>1. Init => Contract!Init
  BY InitMaps
<1>2. QInv => ReportedOK
  BY Reported DEF QInv
<1>3. QInv /\ QInv' /\ ReportedOK /\ ReportedOK' /\ [Next]_vars
      => [Contract!Next]_Contract!vars
  BY StepMaps
<1> QED
  BY <1>1, <1>2, <1>3, QueueInvariance, PTL DEF Spec, ImplementsContract, Contract!Spec

-----------------------------------------------------------------------------
(* A job that has lost its last executor.                                  *)

\* The lease of the last attempt is over, and neither a transaction that began in
\* time is about to complete the job nor a renewal sent in time is still to come.
Lost(j) ==
    /\ Exhausted(j)
    /\ \A a \in Agents : Executing(a) /\ agent[a].job = j /\ ClaimStands(a)
                          => agent[a].ctx # "live" /\ agent[a].pc # "closing"

LEMMA LostRowStays ==
    ASSUME IInv, Next, NEW j \in Jobs, Lost(j) PROVE job'[j] = job[j]
<1> USE DEF Lost, Exhausted
<1>1. job \in [Jobs -> Row] /\ agent \in [Agents -> Process]
  BY DEF IInv, TypeOK
<1>2. ASSUME NEW i \in Jobs, NEW row, i # j, job' = [job EXCEPT ![i] = row]
      PROVE  job'[j] = job[j]
  BY <1>1, <1>2
<1>3. CASE UNCHANGED job
  BY <1>3
<1>4. CASE API
  <2>1. UNCHANGED job \/ \E i \in Jobs : /\ job[i].status \in {"none", "failed"}
                                        /\ \E row : job' = [job EXCEPT ![i] = row]
    <3>1. ASSUME NEW i \in Jobs, RetryJob(i)
          PROVE  /\ job[i].status = "failed"
                 /\ job' = [job EXCEPT ![i] = [job[i] EXCEPT !.status = "pending",
                                                    !.worker = NoWorker, !.lease = "none"]]
      BY <3>1 DEF RetryJob
    <3> QED
      BY <1>4, <3>1 DEF API, CreateProvisionJob, CreateSiteJobCheck, CreateSiteJobInsert,
                        CreateSiteJobRollback
  <2> QED
    BY <1>2, <1>3, <2>1
<1>5. ASSUME NEW a \in Agents, ClaimNextJob(a) PROVE job'[j] = job[j]
  <2>1. PICK i \in Jobs : Claimable(i) /\ job' = [job EXCEPT ![i] = ClaimedRow(job[i], a)]
    BY <1>5 DEF ClaimNextJob
  <2>2. i # j
    BY <2>1, <1>1, MaxAttemptsAssumption DEF Claimable
  <2> QED
    BY <1>2, <2>1, <2>2
<1>6. ASSUME NEW a \in Agents, Complete(a) PROVE job'[j] = job[j]
  BY <1>1, <1>6 DEF Complete, Executing
<1>7. ASSUME NEW a \in Agents, FailJob(a) PROVE job'[j] = job[j]
  BY <1>1, <1>7 DEF FailJob, Fence
<1>8. ASSUME NEW i \in Jobs, LeaseExpires(i) PROVE job'[j] = job[j]
  BY <1>1, <1>8 DEF LeaseExpires
<1>9. ASSUME NEW a \in Agents, RenewLate(a) PROVE job'[j] = job[j]
  BY <1>1, <1>9 DEF RenewLate, MayRenew
<1> QED
  BY <1>3, <1>4, <1>5, <1>6, <1>7, <1>8, <1>9
     DEF Next, Run, Fault, Advance, Work, ExecutionFails, BeginComplete, RenewFails, Crash,
         StopAndRestart, RequestStop

\* A process that is closing was so, of the same claim, or has just seen it live.
LEMMA ClosersWereClosing ==
    ASSUME IInv, Next, NEW a \in Agents, agent'[a].pc = "closing"
    PROVE  /\ agent'[a].job = agent[a].job /\ agent'[a].version = agent[a].version
           /\ agent[a].pc = "closing" \/ Fence(a)
<1>1. agent \in [Agents -> Process]
  BY DEF IInv, TypeOK
<1>2. CASE UNCHANGED agent
  BY <1>2
<1>3. ASSUME NEW b \in Agents, NEW p, agent' = [agent EXCEPT ![b] = p], p.pc # "closing"
      PROVE  agent'[a] = agent[a]
  BY <1>1, <1>3
<1>4. ASSUME NEW b \in Agents, BeginComplete(b)
      PROVE  /\ agent'[a].job = agent[a].job /\ agent'[a].version = agent[a].version
             /\ agent[a].pc = "closing" \/ Fence(a)
  BY <1>1, <1>4 DEF BeginComplete, Process
<1>5. ASSUME NEW b \in Agents, RenewFails(b) \/ RequestStop(b)
      PROVE  /\ agent'[a].job = agent[a].job /\ agent'[a].version = agent[a].version
             /\ agent'[a].pc = agent[a].pc
  BY <1>1, <1>5 DEF RenewFails, RequestStop, Process
<1>6. ASSUME NEW b \in Agents,
             \/ ClaimNextJob(b) \/ Advance(b) \/ Work(b) \/ ExecutionFails(b)
             \/ Complete(b) \/ FailJob(b) \/ Crash(b) \/ StopAndRestart(b)
      PROVE  agent'[a] = agent[a]
  <2>1. CASE agent' = [agent EXCEPT ![b] = Idle(b)] \/ agent' = [agent EXCEPT ![b] = FreshProcess]
    <3>1. Idle(b).pc # "closing" /\ FreshProcess.pc # "closing"
      BY DEF Idle, FreshProcess
    <3> QED
      BY <1>3, <2>1, <3>1
  <2>2. CASE ClaimNextJob(b) \/ Advance(b) \/ Work(b) \/ ExecutionFails(b) \/ Complete(b)
    <3>1. \/ agent'[a] = agent[a]
          \/ a = b /\ agent'[a].pc # "closing"
          \/ agent' = [agent EXCEPT ![b] = Idle(b)]
      <4>1. CASE ClaimNextJob(b)
        BY <1>1, <4>1 DEF ClaimNextJob, Process
      <4>2. CASE Advance(b)
        BY <1>1, <4>2 DEF Advance, Process
      <4>3. CASE Work(b)
        BY <1>1, <4>3 DEF Work, Process
      <4>4. CASE ExecutionFails(b)
        BY <1>1, <4>4 DEF ExecutionFails, Process
      <4>5. CASE Complete(b)
        BY <1>1, <4>5 DEF Complete, Process
      <4> QED
        BY <2>2, <4>1, <4>2, <4>3, <4>4, <4>5
    <3> QED
      BY <2>1, <3>1
  <2>3. CASE FailJob(b) \/ Crash(b) \/ StopAndRestart(b)
    BY <2>1, <2>3 DEF FailJob, Crash, StopAndRestart
  <2> QED
    BY <1>6, <2>2, <2>3
<1>7. (API \/ LeaseStep) => UNCHANGED agent
  BY DEF LeaseStep, RenewLate, API, CreateProvisionJob, CreateSiteJobCheck, CreateSiteJobInsert,
         CreateSiteJobRollback, RetryJob, LeaseExpires
<1> QED
  BY <1>2, <1>4, <1>5, <1>6, <1>7 DEF Next, Run, Fault, LeaseStep

\* A process that executes a job that no claim can reach was doing so, and its
\* context does not come back to life.
LEMMA ExecutorsWereExecuting ==
    ASSUME IInv, Next, NEW a \in Agents, Executing(a)', NEW j \in Jobs, Exhausted(j),
           agent'[a].job = j
    PROVE  /\ Executing(a) /\ agent[a].job = j /\ agent[a].version = agent'[a].version
           /\ agent'[a].ctx = "live" => agent[a].ctx = "live"
<1>1. agent \in [Agents -> Process] /\ job \in [Jobs -> Row]
  BY DEF IInv, TypeOK
<1>2. agent'[a].pc # "idle" /\ agent'[a].pc # "failing"
  BY DEF Executing
<1>3. CASE agent'[a] = agent[a]
  BY <1>3 DEF Executing
<1>4. CASE Moves(a)
  <2>1. agent[a].job = j /\ agent[a].version = agent'[a].version
    BY <1>2, <1>4, MovesKeep DEF KeepsClaims
  <2>2. Executing(a)
    BY <1>2, <1>4, ProcessMoves DEF Moves, Executing, IInv
  <2>3. ASSUME agent'[a].ctx = "live" PROVE agent[a].ctx = "live"
    <3>1. CASE Advance(a) \/ Work(a) \/ ExecutionFails(a) \/ BeginComplete(a)
      BY <1>1, <2>3, <3>1 DEF Advance, Work, ExecutionFails, BeginComplete, Process
    <3>2. CASE RenewFails(a) \/ RequestStop(a)
      BY <1>1, <2>3, <3>2 DEF RenewFails, RequestStop, Process
    <3>3. CASE Complete(a) \/ FailJob(a)
      BY <1>1, <1>2, <3>3, IdleType DEF Complete, FailJob, Process
    <3>4. CASE Crash(a) \/ StopAndRestart(a)
      BY <1>1, <1>2, <3>4, FreshProcessType DEF Crash, StopAndRestart
    <3> QED
      BY <1>4, <3>1, <3>2, <3>3, <3>4 DEF Moves, Run
  <2> QED
    BY <2>1, <2>2, <2>3
<1>5. CASE ClaimNextJob(a)
  BY <1>1, <1>5, Claims, MaxAttemptsAssumption DEF Claimable, Exhausted
<1>6. ASSUME NEW b \in Agents, b # a, ClaimNextJob(b) \/ Moves(b)
      PROVE  agent'[a] = agent[a]
  BY <1>6, Claims, MovesKeep DEF KeepsClaims
<1> QED
  BY <1>3, <1>4, <1>5, <1>6, WhoMoves

\* Such a row never changes again: no claim, retry, completion or failure reaches
\* it (ClaimNextJob, ExecuteClaimedJob, RetryJob, FailJob, completeOperation).
THEOREM LostForEver ==
    Spec => [][\A j \in Jobs : Lost(j) => Lost(j)' /\ job'[j] = job[j]]_vars
<1>1. ASSUME IInv, Next, NEW j \in Jobs, Lost(j) PROVE Lost(j)' /\ job'[j] = job[j]
  <2>1. job'[j] = job[j]
    BY <1>1, LostRowStays
  <2>2. ASSUME NEW a \in Agents, Executing(a)', agent'[a].job = j, ClaimStands(a)'
        PROVE  agent'[a].ctx # "live" /\ agent'[a].pc # "closing"
    <3>1. /\ Executing(a) /\ agent[a].job = j /\ agent[a].version = agent'[a].version
          /\ agent'[a].ctx = "live" => agent[a].ctx = "live"
      BY <1>1, <2>2, ExecutorsWereExecuting DEF Lost
    <3>2. agent[a].ctx # "live" /\ agent[a].pc # "closing" /\ ~ Fence(a)
      BY <1>1, <2>1, <2>2, <3>1 DEF Lost, Exhausted, ClaimStands, Fence
    <3> QED
      BY <1>1, <3>1, <3>2, ClosersWereClosing
  <2> QED
    BY <1>1, <2>1, <2>2 DEF Lost, Exhausted
<1>2. IInv /\ [Next]_vars => [\A j \in Jobs : Lost(j) => Lost(j)' /\ job'[j] = job[j]]_vars
  BY <1>1
<1> QED
  BY <1>2, Invariance, PTL DEF Spec
-----------------------------------------------------------------------------
(* A retry beside other jobs.  OneActiveJobPerSite is not an invariant of  *)
(* the code; what follows says that its counterexample is the only kind.   *)

\* RetryJob finds what CreateSiteJob makes sure of before its insert: the site has
\* no active job, and no CreateSiteJob that has counted is still to insert.
RetriedAlone ==
    \A j \in Jobs : RetryJob(j) =>
        ActiveOn(job[j].site) = {} /\ opening[job[j].site] = NoType

\* What CreateSiteJob has counted is so until it inserts, and jobs belong to sites.
Alone ==
    /\ OneActiveJobPerSite
    /\ \A s \in Sites : opening[s] # NoType => site[s] # "absent" /\ ActiveOn(s) = {}
    /\ \A j \in Jobs : job[j].status # "none" => site[job[j].site] # "absent"

\* A row becomes active on a site where none is, and no other row changes.
LEMMA ActivatedAlone ==
    ASSUME IInv, Alone, NEW s \in Sites, NEW k \in Jobs,
           \A i \in Jobs \ {k} : job'[i] = job[i],
           job'[k].site = s, ActiveOn(s) = {}, ~ Active(k),
           opening'[s] = NoType, \A r \in Sites \ {s} : opening'[r] = opening[r],
           site'[s] # "absent", \A r \in Sites \ {s} : site'[r] = site[r],
           opening[s] # NoType \/ opening[s] = opening'[s]
    PROVE  Alone'
<1>1. \A r \in Sites \ {s} : ActiveOn(r)' \subseteq ActiveOn(r)
  BY DEF ActiveOn, Active
<1>2. ActiveOn(s)' \subseteq {k}
  BY DEF ActiveOn, Active
<1>3. OneActiveJobPerSite'
  BY <1>1, <1>2 DEF Alone, OneActiveJobPerSite
<1>4. \A r \in Sites : opening'[r] # NoType => site'[r] # "absent" /\ ActiveOn(r)' = {}
  BY <1>1 DEF Alone
<1>5. \A j \in Jobs : job'[j].status # "none" => site'[job'[j].site] # "absent"
  <2> SUFFICES ASSUME NEW j \in Jobs \ {k}, job[j].status # "none"
               PROVE  site'[job[j].site] # "absent"
    OBVIOUS
  <2>1. job[j].site \in Sites
    BY DEF IInv, RowsOK
  <2> QED
    BY <2>1 DEF Alone
<1> QED
  BY <1>3, <1>4, <1>5 DEF Alone

\* No row becomes active, and no site disappears.
LEMMA NothingActivated ==
    ASSUME IInv, Alone, opening' = opening,
           \A s \in Sites : site[s] # "absent" => site'[s] # "absent",
           \A j \in Jobs : /\ Active(j)' => Active(j)
                           /\ job'[j].site = job[j].site
                           /\ job'[j].status # "none" => job[j].status # "none"
    PROVE  Alone'
<1>1. \A s \in Sites : ActiveOn(s)' \subseteq ActiveOn(s)
  BY DEF ActiveOn
<1>2. \A j \in Jobs : job'[j].status # "none" => site'[job'[j].site] # "absent"
  <2> SUFFICES ASSUME NEW j \in Jobs, job[j].status # "none"
               PROVE  site'[job[j].site] # "absent"
    OBVIOUS
  <2>1. job[j].site \in Sites
    BY DEF IInv, RowsOK
  <2> QED
    BY <2>1 DEF Alone
<1> QED
  BY <1>1, <1>2 DEF Alone, OneActiveJobPerSite

\* What an agent, or time, does to the rows of jobs and sites activates nothing.
LEMMA AgentsActivateNothing ==
    ASSUME IInv, Alone, NEW a \in Agents, ClaimNextJob(a) \/ Complete(a) \/ FailJob(a)
    PROVE  Alone'
<1>1. /\ job \in [Jobs -> Row]
      /\ agent[a].pc \in {"closing", "failing"} => agent[a].job \in Jobs
  BY DEF IInv, TypeOK, ClaimsOK
<1> \A k \in Jobs : job[k] \in Row
  BY <1>1
<1>2. CASE ClaimNextJob(a)
  <2>1. PICK k \in Jobs : Claimable(k) /\ job' = [job EXCEPT ![k] = ClaimedRow(@, a)]
    BY <1>2 DEF ClaimNextJob
  <2>2. job'[k].site = job[k].site /\ Active(k) /\ job[k].status # "none"
    BY <1>1, <2>1 DEF ClaimedRow, Row, Claimable, Active
  <2>3. \A j \in Jobs \ {k} : job'[j] = job[j]
    BY <1>1, <2>1
  <2> QED
    BY <1>2, <2>2, <2>3, NothingActivated DEF ClaimNextJob, Active
<1>3. ASSUME NEW k \in Jobs, NEW st \in {"completed", "failed"}, NEW b \in BOOLEAN,
             job[k].status = "running", job' = [job EXCEPT ![k] = EndedRow(@, st, b)],
             opening' = opening,
             \A s \in Sites : site[s] # "absent" => site'[s] # "absent"
      PROVE  Alone'
  <2>1. job'[k].site = job[k].site /\ ~ Active(k)' /\ job[k].status # "none"
    BY <1>1, <1>3 DEF EndedRow, Row, Active
  <2>2. \A j \in Jobs \ {k} : job'[j] = job[j]
    BY <1>1, <1>3
  <2> QED
    BY <1>3, <2>1, <2>2, NothingActivated DEF Active
<1>4. CASE UNCHANGED <<job, site, opening>>
  BY <1>4, NothingActivated DEF Active
<1>5. CASE Complete(a)
  <2>1. CASE ClaimStands(a)
    <3>1. /\ job[agent[a].job].status = "running" /\ agent[a].job \in Jobs
          /\ job[agent[a].job].retryable \in BOOLEAN
      BY <1>1, <1>5, <2>1 DEF Complete, ClaimStands, Row
    <3>2. /\ job' = [job EXCEPT ![agent[a].job] = EndedRow(@, "completed", @.retryable)]
          /\ opening' = opening
          /\ site' = [site EXCEPT ![job[agent[a].job].site] =
                         IF job[agent[a].job].type = "delete" THEN "deleted" ELSE @]
      BY <1>5, <2>1 DEF Complete
    <3>3. \A s \in Sites : site[s] # "absent" => site'[s] # "absent"
      BY <3>2 DEF IInv, TypeOK
    <3> QED
      BY <3>1, <3>2, <3>3, <1>3
  <2>2. CASE ~ ClaimStands(a)
    BY <1>4, <1>5, <2>2 DEF Complete
  <2> QED
    BY <2>1, <2>2
<1>6. CASE FailJob(a)
  <2>1. CASE UNCHANGED job
    BY <1>4, <1>6, <2>1 DEF FailJob
  <2>2. CASE ~ UNCHANGED job
    <3> DEFINE b == job[agent[a].job].attempt < MaxAttempts
    <3>1. /\ job[agent[a].job].status = "running" /\ agent[a].job \in Jobs
          /\ job' = [job EXCEPT ![agent[a].job] = EndedRow(@, "failed", b)]
          /\ UNCHANGED <<site, opening>>
      BY <1>1, <1>6, <2>2 DEF FailJob, Fence, ClaimStands
    <3>2. b \in BOOLEAN
      OBVIOUS
    <3> HIDE DEF b
    <3> QED
      BY <3>1, <3>2, <1>3
  <2> QED
    BY <2>1, <2>2
<1> QED
  BY <1>2, <1>5, <1>6

LEMMA AloneInductive == IInv /\ Alone /\ [Next]_vars /\ RetriedAlone => Alone'
<1> SUFFICES ASSUME IInv, Alone, [Next]_vars, RetriedAlone PROVE Alone'
  OBVIOUS
<1> job \in [Jobs -> Row] /\ opening \in [Sites -> OpTypes \cup {NoType}]
    /\ site \in [Sites -> {"absent", "present", "deleted"}]
  BY DEF IInv, TypeOK
<1>1. ASSUME NEW s \in Sites, NEW k \in Jobs, CreateProvisionJob(s, k) PROVE Alone'
  <2>1. ActiveOn(s) = {}
    BY <1>1 DEF CreateProvisionJob, Alone, ActiveOn, Active
  <2>2. job'[k].site = s /\ ~ Active(k) /\ opening[s] = NoType
    BY <1>1, PendingRowType DEF CreateProvisionJob, Alone, Active, Types
  <2> QED
    BY <1>1, <2>1, <2>2, ActivatedAlone DEF CreateProvisionJob
<1>2. ASSUME NEW s \in Sites, NEW t \in OpTypes, CreateSiteJobCheck(s, t) PROVE Alone'
  <2>1. \A r \in Sites : ActiveOn(r)' = ActiveOn(r)
    BY <1>2 DEF CreateSiteJobCheck, ActiveOn, Active
  <2> QED
    BY <1>2, <2>1 DEF CreateSiteJobCheck, Alone, OneActiveJobPerSite
<1>3. ASSUME NEW s \in Sites, NEW k \in Jobs, CreateSiteJobInsert(s, k) PROVE Alone'
  <2>1. /\ opening[s] \in OpTypes /\ ActiveOn(s) = {} /\ site[s] # "absent"
        /\ ~ Active(k)
    BY <1>3 DEF CreateSiteJobInsert, Alone, Active
  <2>2. job'[k].site = s
    BY <1>3, <2>1, PendingRowType DEF CreateSiteJobInsert, Types
  <2> QED
    BY <1>3, <2>1, <2>2, ActivatedAlone DEF CreateSiteJobInsert
<1>4. ASSUME NEW s \in Sites, CreateSiteJobRollback(s) PROVE Alone'
  <2>1. \A r \in Sites : ActiveOn(r)' = ActiveOn(r)
    BY <1>4 DEF CreateSiteJobRollback, ActiveOn, Active
  <2> QED
    BY <1>4, <2>1 DEF CreateSiteJobRollback, Alone, OneActiveJobPerSite
<1>5. ASSUME NEW k \in Jobs, RetryJob(k) PROVE Alone'
  <2>1. /\ job[k].site \in Sites /\ site[job[k].site] # "absent" /\ ~ Active(k)
        /\ ActiveOn(job[k].site) = {} /\ opening[job[k].site] = NoType
    BY <1>5 DEF RetryJob, RetriedAlone, Alone, IInv, RowsOK, Active
  <2>2. job[k] \in Row
    OBVIOUS
  <2>3. job'[k].site = job[k].site
    BY <1>5, <2>2 DEF RetryJob, Row
  <2> QED
    BY <1>5, <2>1, <2>3, ActivatedAlone DEF RetryJob
<1>6. ASSUME NEW a \in Agents, ClaimNextJob(a) \/ Complete(a) \/ FailJob(a) PROVE Alone'
  BY <1>6, AgentsActivateNothing
<1>7. ASSUME NEW k \in Jobs, NEW l \in Leases, LeaseBecomes(k, l) PROVE Alone'
  <2>1. job[k] \in Row
    OBVIOUS
  <2>2. job'[k].site = job[k].site /\ job'[k].status = job[k].status
    BY <1>7, <2>1 DEF LeaseBecomes, Row
  <2> QED
    BY <1>7, <2>2, NothingActivated DEF LeaseBecomes, Active
<1>8. CASE UNCHANGED <<job, site, opening>>
  BY <1>8, NothingActivated DEF Active
<1>9. ASSUME NEW a \in Agents,
             \/ Advance(a) \/ Work(a) \/ ExecutionFails(a) \/ BeginComplete(a)
             \/ RenewFails(a) \/ StopAndRestart(a) \/ Crash(a) \/ RequestStop(a)
      PROVE  Alone'
  BY <1>8, <1>9 DEF Advance, Work, ExecutionFails, BeginComplete, RenewFails,
       StopAndRestart, Crash, RequestStop
<1>10. CASE UNCHANGED vars
  BY <1>8, <1>10 DEF vars
<1> QED
  BY <1>1, <1>2, <1>3, <1>4, <1>5, <1>6, <1>7, <1>9, <1>10, LeaseSteps
     DEF Next, API, Run, Fault, LeaseStep, IInv

\* Two active jobs on one site take a retry beside a job: inserts, claims, takeovers,
\* completions and the deletion of sites never bring them about (CreateSiteJob, RetryJob).
THEOREM OnlyARetryDoublesJobs ==
    Spec /\ [][RetriedAlone]_vars => []OneActiveJobPerSite
<1>1. Init => Alone
  BY DEF Init, Alone, OneActiveJobPerSite, ActiveOn, Active, AbsentRow
<1>2. IInv /\ Alone /\ [Next]_vars /\ [RetriedAlone]_vars => Alone'
  <2>1. ASSUME Alone, UNCHANGED vars PROVE Alone'
    BY <2>1 DEF vars, Alone, OneActiveJobPerSite, ActiveOn, Active
  <2> QED
    BY <2>1, AloneInductive
<1>3. Alone => OneActiveJobPerSite
  BY DEF Alone
<1> QED
  BY <1>1, <1>2, <1>3, Invariance, PTL DEF Spec
=============================================================================
