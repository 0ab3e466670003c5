# Formal models of the 知梦 control plane

The control plane sells and operates isolated sites. An administrator issues
provision codes; a customer redeems one for a session, reserves a domain and
orders a site; an agent on the node executes the deployment job; the site's
reporter sends heartbeats, metrics and channels back; the administrator stops, upgrades, freezes or
deletes the site. All state that matters is in one PostgreSQL database, in
the Docker daemon of the node and in the directory of each site.

What can go wrong is therefore not in a single function but between
transactions: two requests, two agents, an agent and its successor after a
crash, a job and a heartbeat, a page and the answers it waits for. These modules
model the transactions, external commands and messages as atomic actions, and
check what must hold in every order.

- [Inventory](#inventory)
- [Plan](#plan)
- [How the models correspond to the code](#how-the-models-correspond-to-the-code)
- [Runs](#runs)
- [Fairness](#fairness)
- [Proofs](#proofs)
- [Where code and documents disagree](#where-code-and-documents-disagree)
- [What is not modelled](#what-is-not-modelled)

Paths below are relative to `src/backend/` unless they begin otherwise.

## Inventory

| Component | State | Operations | Module |
| --- | --- | --- | --- |
| Deployment job queue (`internal/control/service.go`, `agent.go`) | `deployment_jobs`: status, attempt, worker_id, lease_version, lease_until, retryable | CreateProvisionJob, CreateSiteJob, RetryJob, ClaimNextJob, renewal, advance, completion, FailJob | `JobQueue`, `JobContract` |
| Agent worker (`internal/agent/worker.go`, `cmd/agent`) | none beyond the job in hand | claim, execute, fail; maintenance every minute; shutdown | `JobQueue`; its maintenance in `CodeLifecycle`, `SiteLifecycle` and `ReportNonce` |
| Codes, sessions, domain reservations (`service.go`) | `provision_codes`, `provision_sessions`, `domain_reservations` | CreateCodes, VerifyCode, ReserveDomain, CreateProvisionJob, RevokeCode, DeleteCode, release at deletion, sweeps | `CodeLifecycle` |
| Site status and routing (`agent.go`, `report.go`) | `sites`: status, route_status, versions, deleted_at, last_heartbeat_at | provisioning, eight operations, heartbeats, sweeps | `SiteLifecycle` |
| Site executor (`executor.go`, templates) | containers, compose file, database and role, directory of a site; `site_secrets` | credentials, render, compose up/stop/down, create and drop the database, bootstrap, checks | `SiteLifecycle`, what it does to one site; `SiteSecrets`, its passwords |
| Job events and their stream (`service.go`, `handler.go`, `Progress.vue`) | `deployment_job_events`, the page's list | append MAX+1, SSE with last id, polling, retry | `ProgressStream` |
| Site reports (`report.go`, `cmd/reporter`) | `report_nonces`, heartbeats, metric and channel snapshots, daily metrics | the reporter's cycle, signed reports | heartbeats in `SiteLifecycle`; `ReportNonce`; `MetricReports` |
| Administrator login (`internal/auth`) | `admin_sessions`, `admin_login_attempts` | login, lockout; logout, session check | `AdminLogin`, the lockout |
| Rate limiter (`internal/middleware/rate_limit.go`) | buckets by address | count, refuse, purge | `RateLimit` |
| Queries, dashboard and audit (`service.go`, `dashboard.go`) | none; `audit_logs` | reads | the latest snapshots and daily totals in `MetricReports` |
| Release versions, node registry, images, site profile, security primitives, configuration, administration frontend | tables edited by hand, one row per agent, files, none | CRUD, validation, wiring | not modelled, see below |

**How they interact.** The API and the agents never talk to each other: the
API inserts rows, agents poll. One transaction often writes several
components: CreateProvisionJob consumes a reservation, completes a session,
binds a code, inserts a site and its job; the end of a provision job marks the
site, the code and the job; the deletion of a site releases the domain and the
code. Heartbeats and maintenance write `sites.status` beside the jobs, without
looking at them. The page of the customer follows a job by its events.

**What is hard, and what makes each part correct**

- *Queue.* Several agents, perhaps with the same `AGENT_ID`; crashes, pauses,
  lost renewals, a COMMIT whose answer is lost. A claim has one holder; only it
  ends the job; only it keeps the lease alive, also when what another sent in time
  arrives late; completed is final; a site has one active operation; every job is
  executed and ends.
- *Codes.* Public requests that read, then write in a later transaction;
  expiries that fall between; deletion and provisioning of sites of the same
  code in any order. A reserved domain stays with its session, and is used up
  exactly as long as the session has a site on it;
  a session opens one site, however often its form is sent;
  a code leads back to its site; an abandoned code comes back; a revoked code
  stays revoked; a code opens no more sites than it was sold for.
- *Sites.* Jobs of a dozen steps, each of which may fail after it has done its
  work, and start again from the first; heartbeats in between. A job that is
  recorded as completed has really happened; a deleted site leaves nothing on
  the node; the route opens last; a failed site is not shown as active; a
  silent one goes offline; a frozen one stays frozen.
- *Events.* Numbered by MAX+1 under a row lock, delivered by a stream that
  breaks, is repeated and is closed by the page. Two writers never draw one
  number; the list of the page has no gap that stays; the page ends on the end of the job,
  and follows a job that is retried.
- *Reports.* Delivered late or twice, by clocks that differ, in cycles that fail
  half way. A report counts once; what no longer changes is shown in the end; a
  day keeps the total it was given, and today's is never too high.
- *Login, limiter.* Requests count, work and record in separate steps. Guesses
  are bounded, a lock ends, nobody is let through or refused without reason.
- *Credentials.* Drawn by attempts at a job that may overlap, and handed on in
  steps between which an attempt may die. Role, file and containers agree; the
  first administrator can log in until the job is completed.

The complete list of hazards, each at its line, with the properties that cover
it, is in `PROJECT.json`.

## Plan

Written, in this order, because everything else depends on the queue:

1. `JobContract` — what the queue promises about a job: abstract.
2. `JobQueue` — rows, API and agents; implements `JobContract`.
3. `CodeLifecycle` — codes, sessions, reservations and sites.
4. `SiteLifecycle` — one site: row, containers, files, database, reports.
5. `ProgressStream` — the events of a job, the stream and the page.
6. `ReportNonce`, `MetricReports` — the reports of a site.
7. `RateLimit`, `AdminLogin`, `SiteSecrets`.
8. `MCSafety`, `MCLiveness` — small instances of parts that share no state,
   checked side by side.
9. The theorems, for all constants: every safety property that a run expects to hold,
   the refinement, and under which condition the properties hold that a run refutes.
   `JobQueueProofs`, `CodeLifecycleProofs`, `SiteLifecycleProofs` and
   `ProgressStreamProofs` are about the module of that name, `AccessProofs` about the
   three of step 7, `ReportProofs` about the two of step 6, `MCSafetyProofs` and
   `MCLivenessProofs` about the parts side by side.

Left, most important first:

10. `FrozenUntilUnfrozen`, the order of bootstrap and route under start and
    restart, and the versions after a failed upgrade, as properties of
    `SiteLifecycle`; a variant of it with two agents, for the unfenced writes of
    a roll-back.
11. `site_config_events` in `MetricReports`, with transactions that overlap.

Theorems left: each of the properties above, when it is stated; and what it takes for a
site whose provisioning failed not to be shown as active, which `site_failed` refutes:
heartbeats, a backup and every other operation may each do it, so the condition would
be most of the model.

## How the models correspond to the code

In all modules an action is one database transaction, or one external command
between two transactions. Columns no property depends on (messages, times of
creation, percentages, results) are left out. There is no clock in most of them:
"live", "expired", "stale" are flags that an action of time may change at any
moment, which covers every duration. `RateLimit` and `ReportNonce` compare
intervals, and count time in ticks. Definitions keep the names of the functions they
model; `map` in `PROJECT.json` gives the lines of each. Definitions whose
comment begins with "Mutant" are deliberate mistakes, used to make sure that
each property can fail; no specification uses them.

### JobQueue

| State | Code |
| --- | --- |
| `job[j]` | a row of `deployment_jobs`; numbers are the order of `created_at` |
| `site[s]` | absent, present, or deleted_at set |
| `opening` | CreateSiteJob between its count of active jobs and its insert |
| `agent[a]` | a process: the claim in its hands, the step it has announced, whether it was told to stop, whether its context was cancelled |

- *ClaimNextJob* takes the oldest claimable row. `SKIP LOCKED` may let it pass
  over a row that another transaction holds at that moment; the model orders
  those transactions one way or the other.
- *Fence* is the condition `status='running' AND worker_id AND lease_version
  AND lease_until>now()`, shared by advance, FailJob and completion.
- A closing transaction is two actions, *BeginComplete* and *Complete*:
  PostgreSQL's `now()` is the beginning of the transaction, which may then wait
  for the row of the site while the lease runs out.
- *LeaseExpires* stands for the silence of the renewal goroutine, whose renewals in
  time change nothing that the model sees. *RenewLate* is one that was sent, that
  is, got its `now()`, before the lease ran out, and is carried out after: it waited
  for the row, which another transaction had locked. Its condition *MayRenew* is
  evaluated on the row as it is by then, as PostgreSQL does. *RenewFails* is a renewal
  that finds no row, or an error: both cancel the context.
- *Advance* announces a step, *Work* does it. The steps of a job are counted,
  not named: `Steps` says how many.
- *FailJob* may also find nothing to do, after a COMMIT whose answer was lost.
- *manual_intervention*, a status that RetryJob accepts, is never written by
  the code and is not in the model.

`JobContract` has four variables per job: status, starts used up, number of
steps, steps reported by the start in progress. The refinement takes the last
from the process that holds the claim in force.

### CodeLifecycle

Codes, sessions, reservations and sites are rows; `call[u]` is what the request
of caller `u` read before its transaction began. VerifyCode is *VerifyRead*
followed by one action per outcome (resume the own session, replace another,
return the job of the bound site, reserve). ReserveDomain is three: *ReserveRead* finds
the session, *ReserveCount* counts the sites with the domain, and *ReserveDomain* is the
upsert with the update of the session, which lock their rows until the commit. The
count locks nothing, and in a READ COMMITTED transaction the upsert sees what was
committed after it: a site may be opened on the domain in between, and the
reservation it used up may be swept. The caller then holds a live reservation of a domain
that is occupied, and is refused by CreateProvisionJob, whose insert meets the unique
domain of `sites`. This is the one way to such a reservation
(OnlyAStaleCountBlocksADomain). The `now()` of the upsert is that of the BEGIN, so
that it refuses a row that expired after it, which the model lets it take or refuse.
The end of a provision or delete job is here as far as it writes
codes; whether it happens is JobQueue's subject. *ReservedTooLong* presumes
that a session has expired when `reserved_at` is thirty minutes old, that is, that API
and database agree on the time, and it leaves out the milliseconds by which VerifyReplace
computes the expiry after the `now()` of its transaction.

### SiteLifecycle

One site, one agent (as `src/deploy/docker-compose.production.yml` has it) and,
of each job type, the latest job. `Program` lists the steps of every type in
the order of the code; each is an action that goes on, fails, or fails after
having done its work (`Outcomes`). "fence" is a call of advance: several in a
row are one. After a failure the agent goes through the same handlers as the
code: the deferred clean-up of runProvision, the roll-back of runUpgrade, then
FailJob. A crash skips them. Which writes are guarded by the lease and which
are not (mark, aim, the roll-back, the heartbeat) follows the SQL.

Assumed of the outside: the readiness check passes only when the application
runs on an initialised database, the route check only when moreover its label
opens the route, and containers change only by the agent's commands.

### ProgressStream

| State | Code |
| --- | --- |
| `deployment` | status and attempt of the job |
| `events` | committed rows of `deployment_job_events`: number and status |
| `writing[w]` | the open transaction of the agent, of the page's retry, of another retry |
| `page` | `job.status`, `events`, `eventSource` with its last event id, `pollTimer`, and what created() or retry() awaits |
| `loads` | requests of `load()` under way, on the way there or back |

- A writer locks the row of the job first, by an UPDATE or FOR UPDATE; its
  number is drawn in a step of its own (*AddEvent*), before *Commit*. What it
  writes to the row (*Writes*) is the effect of claim, advance, FailJob,
  completion and RetryJob; which of them when is JobQueue's subject.
- *GetJob* and *LoadArrives* are the two queries of GetPublicJob and the arrival
  of the answer: the events may be newer than the status, and answers overtake
  each other.
- *StreamDrops* is a connection that the browser opens again, with
  Last-Event-ID; *StreamRefused* one that gets another status than 200 and is
  dead. *Connect* makes a new EventSource, which forgets the last id.
- *Open* is a visit or a reload. The events after the retry of a job are more
  than the code has only where `MaxEvents` cuts the job short.
- retry() empties the list and does not close a stream that is still open. When
  the reload after an earlier retry was lost and its visitor retries again, such a
  stream goes on from the middle, and until the next load the list begins there.
  So ShownWithoutGap speaks of the list until the first retry, and of what the
  stream has passed except while a page waits for that reload. It takes three
  attempts to see this, which the run does not have: the attempt to prove a
  simpler property found it.

### ReportNonce, MetricReports

In `ReportNonce` a message can be delivered any number of times, to several
handlers at once; a handler checks the timestamp when the headers are there,
reads the body, and inserts the nonce up to `HandlerDelay` later. The lifetime
of a nonce (10 minutes) and the tolerance (5) are those of the code in ticks;
the assumption `Ahead + HandlerDelay < Keep - Tolerance` says that clocks agree
to within four and a half minutes, the server's ReadTimeout being 30 seconds.
Without it CountedOnce does not hold.

`MetricReports` is the loop of the reporter: a cycle sends a heartbeat, the
metrics and the channels one after the other, each after the answer to the one
before, and ends at the first error. A request that times out may still arrive
(`awaited` is false then). `app` is external: the site's application, whose
calls, day and channels change as they like. The daily row has the date on which
the cycle began and the count of the moment it was taken.

### AdminLogin, RateLimit

One user name and one limiter; several requests at a time. The SQL statements
of Login are actions of their own; a failure older than 15 minutes does not
exist any more. In `RateLimit` a goroutine reads the clock (*ReadClock*), waits
for the mutex for at most `Stall`, and does the rest at once (*Handle*);
`answers` is the history that the properties speak about and the code does not
keep: per address, when each request was answered and how, and by which of the
buckets that the address had one after the other. A second address is needed to
fill the map.

### SiteSecrets

`attempt[a]` is the a-th execution of the provision job: where it is and which
credentials it has read. ensureCredentials is three statements for each kind of
secret, outside of any transaction. An attempt that lost its claim is stopped by
the next advance, but not before it has done what it was about to do, so that
two attempts overlap by one step each. The application's part in the bootstrap
(one first administrator, a login with its password) is what executor.go uses.

### MCSafety, MCLiveness

The parts checked together there share no variable. A behaviour chooses one part
and leaves the others in their first state, so the states add up, and every
property is checked of the part it is about as it would be in a run of its own.
The codes have two instances in `MCSafety`, *code* and *race*, for the reason given
under the bounds.
For liveness this is sound because the parts at rest owe nothing to the fairness
of theirs: in its first state a page is not open, a reporter is off, no login
has failed and no code is reserved. The names of `CodeLifecycle` are chosen so
that it can stand beside `JobQueue`: its sites are *sites* and *SiteIds*, and
CreateProvisionJob, which both model, is *OpenSite* there.

## Runs

| Run | Instance | Shows |
| --- | --- | --- |
| `jobs` | 2 jobs, 2 agents with one AGENT_ID, 2 attempts, fair | TypeOK, ClaimsUnique, OnlyHolderEnds, RenewedByHolder, ImplementsContract, PendingStarts, RunningEnds |
| `safety` | queue: 3 jobs (provision, backup, delete) of one site, 1 agent, 2 attempts | OneOperationPerSite, OperationsSpareDeletedSites |
| | codes: 1 code for two sites, 2 callers, symmetry; 2 sessions, 2 domains, 2 sites (*code*), or 3 sessions, 1 site, 1 domain in use at a time (*race*) | SpentWithItsSite, CodeKnowsItsSite, DomainKept, SessionOpensOnce |
| | limiter: 2 addresses, 2 goroutines, Limit 2, a map of 1, five ticks | TwoWindowsAtMost, RefusedForReason |
| | nonces: 1 report, 2 handlers, tolerance 3, lifetime 6, clock off by 1, delay 1, ten ticks | CountedOnce |
| | secrets: 3 attempts | OnePassword, AdminCanLogIn |
| | all five | SafetyTypeOK |
| `liveness` | codes: 1 code, 1 caller, 2 sessions, 1 domain, 1 site | AbandonedCodeReturns |
| | stream: 2 attempts, 4 events, 1 request beside those of the timer | NumberIsFree, ShownWithoutGap, EndIsShown |
| | login: 2 requests, limit 2 | GuessesBounded, LockEnds |
| | reports: 2 days, 1 call a day, 2 revisions, 1 late request, 2 failed cycles | TodayIsNotOvercounted, SettledIsShown |
| | the last three | LivenessTypeOK |
| `site_jobs` | 2 releases, provisioning and any 2 of 5 operations | TypeOK, DeletedLeavesNothing, CompletedMeansDone, ProvisionOpensLast |
| `site_silence` | provisioning and one freeze or restart, heartbeats that age, fair | SilentSiteGoesOffline |
| `job_lost`, `job_retry_race`, `code_revoked`, `code_quota`, `site_failed`, `stream_stuck`, `daily_total` | as small as the counterexample | one disagreement each, see below |

**Why the bounds are enough.** The code allows three attempts; two suffice for
a queue, where a first and a last one are all that matters, and the theorems
below hold for every number. Two agents make
every conflict over a claim, which is always between a holder and a successor;
a third would be another successor. Two announced steps instead of twelve
(provision), five (upgrade) or four (delete) leave one place between the first
and the last to lose the claim in; operations announced by one call keep one.
Two sessions and two domains are the fewest with which a domain can be taken
from someone and a code used twice. A third session is needed for the race of
ReserveDomain, in which a site appears between the count and the upsert, and with
three sessions one site and one domain at a time are enough: `MCSafety` has an instance
for each, the second with a code that does not run out. `safety` lets a code open two sites
because its interesting case is the deletion of one of several, `code_quota`
one because there the second is the violation. In `SiteLifecycle` MaxCreated
bounds the operations after provisioning: two, so that every operation follows
every other, on a site that is provisioned, failed, or half provisioned;
`Retried` says whose failed jobs somebody retries, and the provision job is the
one whose retry differs from a new job. start and stop are left out of the
instance: they differ from unfreeze and freeze in the final status only. `Ages`
is empty in `site_jobs`, whose properties do not depend on silence, and
complete in `site_silence`. Attempts are unbounded there, which allows more
than the code does. Four events are a first one, a start, an end and a retry:
what the stream replays after it. The two windows of the limiter are the fewest
in which one could run into the other; five requests with a limit of two are
the fewest with which two windows' allowance could be exceeded. The ticks of the
nonces keep the order of the intervals of the code (delay and clock difference
below the difference of lifetime and tolerance), and time ends after the
lifetime of a nonce that was inserted as late as possible. Three attempts at the
provisioning are a first, one that overlaps with it, and one that finds what
both have left. Cycles that fail are bounded instead of being assumed to be
rare. Symmetry is used only in runs without liveness, over sets
of model values that nothing orders.

All runs but those of SiteLifecycle do not check deadlock: when the bounded rows,
events, requests or ticks are used up and every job has ended, nothing may be
left to do.

## Fairness

- *Agents* (`JobQueue`): weak fairness of claiming and of executing for each
  process. The worker polls for ever; every external command has a timeout, and
  every error leads to FailJob. That all commands return is an assumption.
- *Requests*: CreateSiteJob, once begun, commits or rolls back.
- *Leases*: a lease that nobody renews expires, the passage of time.
- *Faults* (crash, pause, stop) have no fairness and no bound: none is needed,
  because every claim uses up an attempt.
- *Maintenance* (`CodeLifecycle`): weak fairness. The loop of the worker runs
  it every minute; a job in progress delays it but ends. A reserved code
  grows stale by time alone.
- *Maintenance* (`SiteLifecycle`): here the delay by jobs is in the model, so
  RunMaintenance is not always enabled and needs strong fairness: the `select`
  of the worker chooses at random among the tickers that are due, so maintenance
  cannot be passed over for ever. Execution of a job is weakly fair.

- *The page* (`ProgressStream`): strong fairness of GetJob, LoadArrives,
  StreamOpens and StreamDelivers. Each can fail or be cut off any number of
  times; assumed is only that a page that goes on asking is not unlucky for
  ever. The timer fires (weak fairness of Poll). Nothing is assumed of the job.
- *Time* (`AdminLogin`): the oldest failure gets 15 minutes old.
- *The reporter* (`MetricReports`): weak fairness of a cycle's steps while it
  runs, and of an awaited request being answered; all but finitely many cycles
  succeed, which `MaxFailures` bounds.

No request, administrator, visitor, retry or heartbeat is assumed to come.

## Proofs

Every safety property that a run expects to hold is proved, type correctness and the
composed instances included, for all values of the constants: any number of jobs,
agents, codes, callers, sessions, domains, sites, attempts, events, requests, days,
calls, addresses and goroutines, and all intervals. Of the seven properties that a
run refutes, four are proved under a condition on the steps that each of their
counterexamples must break: the run shows that the code can go wrong, the theorem
that it takes just this. For two more a theorem says what the code does keep
(RevokedForGood) or what follows (LostForEver). A condition is written as a
hypothesis `[][...]_vars` of its theorem; behaviours that satisfy it do everything
else that the code does.

Nothing is assumed but the named assumptions of the modules: that the values for
"none" differ from the others (NullsAssumption, NullAssumption, NoClient), that
numbers and bounds are natural, that the operations of an instance are among the
eight, that finitely many logins are served at a time (LoginAssumption), that a
goroutine waits for the mutex no longer than a window (RateAssumption), that there
is a channel list to report (ReportAssumption), and the relation of the intervals in
NonceAssumption. The bounds (MaxCreated, MaxEvents, LastTick, EndOfTime, MaxRequests
and the like) are constants too: the theorems hold for each of their values.

Each proof has an inductive invariant, found with the help of TLC on small
instances, one lemma per action or kind of action, and theorems that follow from the
invariant.

| Module | Inductive invariant | Theorem | Property |
| --- | --- | --- | --- |
| `JobQueueProofs` | IInv | TypeCorrect | TypeOK |
| | | ClaimsAreUnique | ClaimsUnique |
| | | LeasesRenewedByHolders | RenewedByHolder |
| | | HolderEnds | OnlyHolderEnds |
| | | OneOperation | OneOperationPerSite |
| | QInv | OperationsSpareDeleted | OperationsSpareDeletedSites |
| | | QueueKeepsContract | ImplementsContract |
| | | LostForEver | (what follows on a job_lost) |
| | Alone | OnlyARetryDoublesJobs | OneActiveJobPerSite, if RetriedAlone |
| `CodeLifecycleProofs` | CodesInv | CodesKnowTheirSites | CodeKnowsItsSite |
| | | ReservationsAreKept | DomainKept |
| | | OnlyAStaleCountBlocksADomain | HeldDomainIsFree (which no run checks), if CountIsFresh |
| | OpenedInv | SessionsOpenOnce | SessionOpensOnce |
| | | ReservationsSpentWithTheirSites | SpentWithItsSite |
| | NoSecondForm | RevokedForGood | (what code_revoked leaves possible) |
| | Single | OneAfterTheOther, OnlyTheRaceExceedsQuota | SitesWithinQuota, if Rechecked |
| `SiteLifecycleProofs` | SiteInv | SiteKeepsItsShape | TypeOK |
| | | NothingIsLeft | DeletedLeavesNothing |
| | | CompletedJobsHappened | CompletedMeansDone |
| | | SitesOpenReady | ProvisionOpensLast |
| `ProgressStreamProofs` | StreamInv | EventNumbersAreFree | NumberIsFree |
| | | ListHasNoGap | ShownWithoutGap |
| | Followed | OnlyARetryStrandsAPage | UnfinishedIsFollowed, if NotRetried |
| `ReportProofs` | NonceInv | CountedOnlyOnce | CountedOnce |
| | ReportInv | TodayIsRight | TodayIsNotOvercounted |
| | NotBehind | TotalsStandInTurn | DailyTotalStands, if InTurn and CountsOfItsDay |
| `AccessProofs` | RateInv | AtMostTwoWindows | TwoWindowsAtMost |
| | | RefusalsHaveReasons | RefusedForReason |
| | SecretsInv | OnePasswordForever | OnePassword |
| | | AdminCanAlwaysLogIn | AdminCanLogIn |
| | LoginInv | GuessesAreBounded | GuessesBounded |
| `MCSafetyProofs` | those of the parts | SafetyKeepsItsShape | SafetyTypeOK |
| | | NothingForbiddenHappens | all that `safety` checks |
| `MCLivenessProofs` | those of the parts | LivenessKeepsItsShape | LivenessTypeOK |
| | | LivenessRunsItsParts | (specifications, fairness included) |
| | | NothingForbiddenOnTheWay | the safety properties that `liveness` checks |

**The queue.** TypeOK bounds lease_version by MaxAttempts, but the claim raises it
after comparing *attempt* with the bound; so TypeOK is inductive only together with
RowsOK, which says that both count the claims. ClaimsUnique needs ClaimsOK: the
version a process holds is at most that of its row. A claim then takes a version
that no other process can hold yet. `IInv == TypeOK /\ RowsOK /\ ClaimsOK` is shown
inductive action by action (InitIInv, NextIInv); what an action does to the
processes is factored into ProcessStep. For the action properties RowsChange shows
that a step changes at most one row, and in which of five ways (RowStep): inserted,
retried, claimed, ended behind the fence, or its lease expired or renewed. Each property is
then a case analysis over these ways. OneOperation is separate: an operation becomes
active only by an insert or a retry, and both pass the unique index
(ActivationIsAdmitted).

LostForEver follows a row whose last attempt has lost its lease (Lost): it is not
claimable, FailJob is refused by the fence, RetryJob by the status. Only a closing
transaction that began before the lease ran out could still end it, and only a
renewal sent before that could revive it; Lost says that no process whose claim stands
is closing or has a context that is alive. OnlyARetryDoublesJobs supposes of RetryJob what
CreateSiteJob makes sure of: that it finds no active job of the site and no
CreateSiteJob that has counted and not yet inserted (RetriedAlone). Then what
CreateSiteJob has counted is so until it inserts (Alone).

**The contract.** That a job is completed only on a site that is there, and only
after all of its steps, depends on what an execution has done before: StepsOK ties
the number of steps announced to where the process is, SiteLoaded says that an
operation which has begun and still holds its claim has a site that is present. The
latter is kept because the only step that deletes a site is the completion of a
deletion, and OneOperationPerSite excludes another operation of that site with a
claim. The refinement takes "steps reported" from the process that holds the claim
in force; since claims are unique it is the same process for as long as the claim
stands (Reported), and every action maps to one of the contract or to a stutter
(StepMaps).

**Codes.** CodeKnowsItsSite is inductive with two additions: rows and requests refer to
what exists (RefersOK), and used_sites never exceeds the sites of the code that exist
and whose job is done (UsedCounted). The second is what a deletion needs: the code
stays active when used_sites is above one, and then one of those sites is left. A stale
request cannot break it, because each transaction checks the row it writes to.

Of the reservations, RowsOnlyGo says that only ReserveDomain and OpenSite give a domain
to anyone: after every other step the row of a domain is the same, expired, or gone
with its session or with a site on the domain, and a site that loses its domain takes
the row with it. DomainKept is then a matter of what the two find (ReserveDomainTakes,
OpenSiteTakes). SpentWithItsSite moreover needs OpenedInv: the session that opened a
site is completed with that site, or gone (Finished), also when the site is deleted. So
it has no form left to send, which is SessionOpensOnce, and no ReserveDomain that was
under way for it gets past the update of the session. That a live reservation can be
used, HeldDomainIsFree, does not hold of the code: TLC finds the race described
above. OnlyAStaleCountBlocksADomain supposes that the count still holds at the upsert
(CountIsFresh).

RevokedForGood and the quota are about codes with which nothing goes wrong. A code
is Dead when it is revoked and nothing is under way: no live session, no open site,
no request that read it as reserved. No step ends that (DeadStays); what it rests on
is that only VerifyReserve and VerifyReplace make a session that can open a site
(NoSecondForm), not the finished one that VerifyReturn makes. Rechecked supposes
that VerifyReplace finds what VerifyRead found, which is what reading the code again
in its transaction, under its lock, would give. Then a code has one live session or
one open site, never two and never both (Single), so that it stays within every
quota; and one that was sold for several sites opens them one after the other at
most, each when the one before is gone.

**The site.** One agent executes one job at a time and nothing else changes the
node, so what a step has done still holds at the later steps of the same execution:
Done lists, per job type, what is relied upon from which step on. Gone says of a
deleted site that nothing is left, and that an execution which finds it deleted has
not got past loadSite, opens no route and rolls nothing back. Heartbeats,
maintenance and requests change only the row and jobs that are not running, which is
why they cannot disturb either.

**Events.** The numbers of the committed events are 1..Last, and one writer at a
time is past its UPDATE (History, Turns); what it inserts is Last + 1. For the page,
Awaited says which phase an answer under way belongs to, so that an answer that
fills the list after a retry is known to be one.

When nobody retries a job after it has ended (NotRetried), what a page hears is not
ahead of the job, so it does not stop listening while the job runs: Followed says
that no answer, event or page speaks of an end before there is one, and that until
then a page that watches has a stream or its timer. Nothing is supposed about what
gets lost.

**Reports.** No cycle or report is dated ahead of the application, one that is dated
today has counted no more than today's calls (DatesOK), and a day to come has no row
(NoRowsAhead). That is enough for today's total; a day that is over may get the
calls of the next one, which is `daily_total`. TotalsStandInTurn supposes that a
report counts on the day it is dated (CountsOfItsDay) and that no two metrics
reports are under way at a time (InTurn). Then what is under way has counted no less
than what its row says (NotBehind). Both are needed: TLC finds a total that gets
smaller when either is left out.

**Nonces.** NonceInv adds three things to the type: what was sent is not stamped
further ahead than the clocks allow (Stamps); a handler at work accepted a timestamp
that was near enough, not longer than HandlerDelay ago (Handling); and what was
counted is remembered until Tolerance + HandlerDelay after its timestamp, by its
nonce or, when that is forgotten, because that moment has passed (Remembered). Only
ConsumeNonce uses the assumption: the nonce it inserts outlives that moment.

**The limiter.** The answers to an address fall into buckets, one after the other
(Ordered). A bucket counts all its answers (InMap), so it lets at most Limit through
(FewPassed), and one that refuses has counted more than Limit within a window and
the delay of a goroutine (Reason). A bucket is replaced, or purged, only when a
clock has passed its resetAt; what the buckets before it answered is then further
back than Window - Stall (Past), so that buckets which are not neighbours lie
further apart than that (Apart). All that passes in such a span was therefore
counted by two of them (TwoBuckets).

**Credentials.** The first database password is final because of ON CONFLICT DO
NOTHING, and every attempt goes on with what it has read back (ReadBack). The
visitor's password leaves the table with the closing transaction alone
(ChosenIsKept); an attempt that reads after it does not get past its next advance
(HasChosen).

**The parts side by side.** A step of one part leaves the variables of the others
alone, so it is a step or a stutter of each (SafetyStep, LivenessStep): the
composition implements every part, and what is proved of a part holds of it.

**The login.** A request gets past the count only below the limit, when all the
others that are served may be past it already; recording a failure moves one unit
from what is under way to what is recorded.

Checked by TLC only:

- liveness (PendingStarts, RunningEnds, AbandonedCodeReturns, SilentSiteGoesOffline,
  EndIsShown, LockEnds, SettledIsShown): it rests on fairness, which the prover does
  not treat. So the theorem about the contract is about its safety part, which is
  all that `JobContract` states;
- the refuted properties that have no conditional theorem: RevokedStaysRevoked, of which
  RevokedForGood states what is left, and FailedIsNotActive.

## Where code and documents disagree

| Run | What happens |
| --- | --- |
| `job_lost` | The lease of a job's last attempt runs out: the row stays `running` for ever, cannot be claimed, failed or retried, and blocks every operation of its site. |
| `job_retry_race` | A failed provision job is retried while another operation of the site is active; neither RetryJob nor the unique index objects. |
| `code_revoked` | A session opened before the revocation opens a site with the revoked code, which is in use again. |
| `code_quota` | A request reads a code as reserved, and begins its transaction when the session of that code has opened its site: it finds no live session and makes another, which opens a second site with a code for one. |
| `site_failed` | The clean-up of a failed provisioning leaves the containers running; the next heartbeat marks the failed site active. |
| `stream_stuck` | A page that opens a stream after a retry is sent the `failed` event of the first attempt, closes the stream, and waits for ever while the job goes on. |
| `daily_total` | A cycle that begins before midnight and counts after it replaces the total of the old day by the calls of the new one. |

Each is quoted with the document or message it contradicts under `findings` in
`PROJECT.json`. `job_lost` and `job_retry_race` have counterexamples of a few steps;
that of `code_quota` needs a VerifyCode that reads the code before the site of another
session is opened and writes after. What each of
them takes is the subject of the theorems with a condition (see Proofs):
OnlyTheRaceExceedsQuota, OnlyARetryDoublesJobs, OnlyARetryStrandsAPage and
TotalsStandInTurn, which names a second way to a total that gets smaller, a report
overtaken by that of a later cycle. LostForEver says that the row of `job_lost`
cannot be helped by anything the code does, RevokedForGood that `code_revoked` takes
something begun before the revocation.

## What is not modelled

- Release versions (a table edited by hand, read to resolve an image), the
  registry of nodes (one row per agent, overwritten), the other queries, the
  audit log and the administration pages: no state that interacts.
- Configuration events: a log written when a channel report differs from the one
  before; only a list reads it.
- Administrator sessions: one statement each to insert, find and delete a row.
- Images, the site profile, hashing, encryption and tokens: stateless; tokens
  are identities in the models. The normalisation of the profile treats every
  field alone and once, so a model would repeat it.
- Restarts of the control plane in `RateLimit` (the map is empty again) and the
  expiry of the customer's session in `ProgressStream` (every request fails).
- Several agents in SiteLifecycle: JobQueue covers the claim, but the writes
  that do not check it (the roll-back of an upgrade, the mark of a
  provisioning) are exposed only with two; planned.
- VERIFY_PUBLIC_HTTPS: one more check of the kind that is modelled.
