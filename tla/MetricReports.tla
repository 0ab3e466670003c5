--------------------------- MODULE MetricReports ----------------------------
(***************************************************************************)
(* What a site reports of itself besides its heartbeat: the cycle of its   *)
(* reporter, and the endpoints Metrics and Channels, whose rows the        *)
(* dashboard shows. A request whose answer the reporter no longer awaits   *)
(* may still arrive; its nonce lets it count once.                         *)
(*                                                                         *)
(* Of the metrics, the calls of the day stand for all.                     *)
(***************************************************************************)
EXTENDS Integers, FiniteSets

CONSTANTS
    LastDay,    \* bound: days are 0..LastDay
    MaxCalls,   \* bound: calls of a day
    Revisions,  \* configRevision
    NoRevision, \* no snapshot
    MaxLate,    \* bound: requests under way that nobody awaits
    MaxFailures \* bound: cycles that fail

ASSUME ReportAssumption ==
    /\ LastDay \in Nat /\ MaxCalls \in Nat /\ MaxLate \in Nat /\ MaxFailures \in Nat
    /\ Revisions # {} /\ NoRevision \notin Revisions

VARIABLES
    app,        \* of the application of the site: day, calls of the day, revision
    reporter,   \* where report is, and the day of its now
    sent,       \* requests under way
    daily,      \* site_daily_metrics: calls_total by metric_date, -1 without a row
    failed,     \* cycles that have failed
    shown       \* the latest site_metric_snapshots and site_channel_snapshots

reportVars == <<app, reporter, sent, daily, failed, shown>>

Days == 0..LastDay
NoCalls == -1
Counts == NoCalls..MaxCalls
Application == [day : Days, calls : 0..MaxCalls, revision : Revisions]
Cycle == [at : {"off", "waiting", "heartbeat", "metrics", "channels"}, today : Days]

\* Both kinds carry everything here; a handler takes what is of its kind.
Report == [kind : {"metrics", "channels"}, awaited : BOOLEAN, date : Days,
           calls : 0..MaxCalls, revision : Revisions]

ReportInit ==
    /\ app = [day |-> 0, calls |-> 0, revision |-> CHOOSE r \in Revisions : TRUE]
    /\ shown = [calls |-> NoCalls, revision |-> NoRevision]
    /\ reporter = [at |-> "off", today |-> 0]
    /\ sent = {}
    /\ failed = 0
    /\ daily = [d \in Days |-> NoCalls]

-----------------------------------------------------------------------------
(* The application and its day.                                            *)

CallMade ==
    /\ app.calls < MaxCalls
    /\ app' = [app EXCEPT !.calls = @ + 1]
    /\ UNCHANGED <<reporter, sent, daily, failed, shown>>

Midnight ==
    /\ app.day < LastDay
    /\ app' = [app EXCEPT !.day = @ + 1, !.calls = 0]
    /\ UNCHANGED <<reporter, sent, daily, failed, shown>>

\* The revision is that of the channel changed last, which may be deleted.
EditChannels ==
    /\ \E r \in Revisions : app' = [app EXCEPT !.revision = r]
    /\ UNCHANGED <<reporter, sent, daily, failed, shown>>

-----------------------------------------------------------------------------
(* The reporter.                                                           *)

\* No request awaits its answer.
Free == \A r \in sent : ~r.awaited

\* The container is started, or stopped, with the site.
StartReporter ==
    /\ reporter.at = "off"
    /\ reporter' = [reporter EXCEPT !.at = "waiting"]
    /\ UNCHANGED <<app, sent, daily, failed, shown>>

StopReporter ==
    /\ reporter.at # "off" /\ Free
    /\ reporter' = [reporter EXCEPT !.at = "off"]
    /\ UNCHANGED <<app, sent, daily, failed, shown>>

BeginCycle ==
    /\ reporter.at = "waiting"
    /\ reporter' = [at |-> "heartbeat", today |-> app.day]
    /\ UNCHANGED <<app, sent, daily, failed, shown>>

\* The heartbeat was accepted; the database and its schema are ready.
HeartbeatSent ==
    /\ reporter.at = "heartbeat"
    /\ reporter' = [reporter EXCEPT !.at = "metrics"]
    /\ UNCHANGED <<app, sent, daily, failed, shown>>

\* metrics or channels reads the database; send puts the request on its way.
SendReport(kind) ==
    /\ reporter.at = kind /\ Free
    /\ sent' = sent \cup {[kind |-> kind, awaited |-> TRUE, date |-> reporter.today,
                           calls |-> app.calls, revision |-> app.revision]}
    /\ UNCHANGED <<app, reporter, daily, failed, shown>>

NextStep(kind) == IF kind = "metrics" THEN "channels" ELSE "waiting"

\* Mutant: a failed cycle is the last one.
CycleFailsForGood ==
    /\ reporter.at \notin {"off", "waiting"}
    /\ reporter' = [reporter EXCEPT !.at = "stopped"]
    /\ \E late \in SUBSET sent : sent' = {[r EXCEPT !.awaited = FALSE] : r \in late}
    /\ Cardinality(sent') <= MaxLate
    /\ failed < MaxFailures /\ failed' = failed + 1
    /\ UNCHANGED <<app, daily, shown>>

\* A query fails, the request or its answer gets lost, the answer is an error or
\* does not come in ten seconds, or the container is started again; a request
\* that is lost is one that will not be accepted any more.
CycleFails ==
    /\ reporter.at \notin {"off", "waiting"}
    /\ reporter' = [reporter EXCEPT !.at = "waiting"]
    /\ \E late \in SUBSET sent : sent' = {[r EXCEPT !.awaited = FALSE] : r \in late}
    /\ Cardinality(sent') <= MaxLate
    /\ failed < MaxFailures /\ failed' = failed + 1
    /\ UNCHANGED <<app, daily, shown>>

-----------------------------------------------------------------------------
(* The control plane.                                                      *)

\* Mutant: the date on which the report arrives.
DateReceived(r) == app.day

MetricDate(r) == r.date

\* The rows are written; ON CONFLICT DO UPDATE.
Record(r) ==
    IF r.kind = "metrics"
    THEN /\ daily' = [daily EXCEPT ![MetricDate(r)] = r.calls]
         /\ shown' = [shown EXCEPT !.calls = r.calls]
    ELSE /\ shown' = [shown EXCEPT !.revision = r.revision]
         /\ UNCHANGED daily

\* Metrics or Channels, whose answer the reporter receives if it awaits it.
Accept(r) ==
    /\ r \in sent
    /\ Record(r)
    /\ sent' = sent \ {r}
    /\ reporter' = IF r.awaited THEN [reporter EXCEPT !.at = NextStep(r.kind)] ELSE reporter
    /\ UNCHANGED <<app, failed>>

\* A request that nobody awaits never arrives, or is refused.
LateLost(r) ==
    /\ r \in sent /\ ~r.awaited
    /\ sent' = sent \ {r}
    /\ UNCHANGED <<app, reporter, daily, failed, shown>>

-----------------------------------------------------------------------------
ReportNext ==
    \/ CallMade \/ Midnight \/ EditChannels
    \/ StartReporter \/ StopReporter \/ BeginCycle \/ HeartbeatSent \/ CycleFails
    \/ \E kind \in {"metrics", "channels"} : SendReport(kind)
    \/ \E r \in sent : Accept(r) \/ LateLost(r)

CycleGoesOn ==
    \/ BeginCycle \/ HeartbeatSent
    \/ \E kind \in {"metrics", "channels"} : SendReport(kind)
    \/ \E r \in sent : r.awaited /\ Accept(r)

\* The reporter goes on while it runs, and from some time on its cycles succeed.
ReportFairness == WF_reportVars(CycleGoesOn)

ReportSpec == ReportInit /\ [][ReportNext]_reportVars /\ ReportFairness

-----------------------------------------------------------------------------
ReportTypeOK ==
    /\ app \in Application
    /\ reporter \in Cycle
    /\ sent \subseteq Report
    /\ daily \in [Days -> Counts]
    /\ failed \in 0..MaxFailures
    /\ shown \in [calls : Counts, revision : Revisions \cup {NoRevision}]

\* Whatever comes late, is lost or ran over midnight: the total of the day that
\* goes on is never more than the calls made (report, Metrics). Of a day that
\* is over this does not hold, see DailyTotalStands.
TodayIsNotOvercounted == daily[app.day] <= app.calls

\* What no longer changes in a site that runs is shown in the end and stays so,
\* whatever requests were lost or come late (report, Metrics, Channels).
SettledIsShown ==
    /\ \A n \in 0..MaxCalls :
          <>[](app.calls = n /\ reporter.at # "off") => <>[](shown.calls = n)
    /\ \A r \in Revisions :
          <>[](app.revision = r /\ reporter.at # "off") => <>[](shown.revision = r)

\* The total of a day, once reported, does not get smaller.
DailyTotalStands == [][\A d \in Days : daily'[d] >= daily[d]]_reportVars
=============================================================================
