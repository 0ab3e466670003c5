--------------------------- MODULE ProgressStream ---------------------------
(***************************************************************************)
(* The events of one provision job, and the page that shows them: the      *)
(* transactions that append events, the server-sent event stream, the      *)
(* requests for the job and the retry button.                              *)
(*                                                                         *)
(* Of an event only its number and its status are kept; its type is        *)
(* "completed" or "failed" when that is its status, else "progress".       *)
(* An answer or an event that is under way may be late or get lost, and    *)
(* requests overtake each other.                                           *)
(***************************************************************************)
EXTENDS Integers, FiniteSets

CONSTANTS
    MaxAttempts,  \* max_attempts of the job
    MaxEvents,    \* bound: events of the job
    MaxPolls      \* bound: requests under way when the timer sends another one

ASSUME StreamAssumption ==
    MaxAttempts \in Nat \ {0} /\ MaxEvents \in Nat \ {0} /\ MaxPolls \in Nat

VARIABLES
    deployment,  \* the row of deployment_jobs
    events,      \* committed rows of deployment_job_events
    writing,     \* writing[w]: the open transaction of writer w
    page,        \* the data of the page
    loads        \* requests for the job under way

streamVars == <<deployment, events, writing, page, loads>>

Ends == {"completed", "failed"}
JobStatus == {"pending", "running"} \cup Ends
Deployment == [status : JobStatus, attempt : 0..MaxAttempts]
Event == [seq : 1..MaxEvents, status : JobStatus]

\* An agent (its successor after a takeover included), RetryPublicJob for this
\* page, and RetryJob for an administrator or another page.
Writers == {"agent", "page", "admin"}

\* seq: the number of its event, 0 before the INSERT.
Transaction == [open : BOOLEAN, row : Deployment, seq : 0..MaxEvents]

\* phase: "away" before the page is opened, then where created() or retry() waits;
\* last: lastEventId of the stream; retried: a retry of the visitor was accepted.
Page == [phase : {"away", "loading", "watching", "asking", "granted", "reloading"},
         status : {"none"} \cup JobStatus, shown : SUBSET (1..MaxEvents),
         stream : {"none", "connecting", "open", "dead"}, last : 0..MaxEvents,
         polling : BOOLEAN, retried : BOOLEAN]

\* for: what awaits the answer; upto: events there were when the job was read.
Request == [for : {"created", "retry", "nobody"}, read : BOOLEAN,
            status : {"none"} \cup JobStatus, upto : 0..MaxEvents]

NoTransaction == [open |-> FALSE, row |-> [status |-> "pending", attempt |-> 0],
                  seq |-> 0]
Asked(for) == [for |-> for, read |-> FALSE, status |-> "none", upto |-> 0]
NewPage == [phase |-> "away", status |-> "none", shown |-> {}, stream |-> "none",
            last |-> 0, polling |-> FALSE, retried |-> FALSE]

\* The wizard has created the job.
StreamInit ==
    /\ deployment = [status |-> "pending", attempt |-> 0]
    /\ events = {[seq |-> 1, status |-> "pending"]}
    /\ writing = [w \in Writers |-> NoTransaction]
    /\ page = NewPage
    /\ loads = {}

-----------------------------------------------------------------------------
(* The writers.                                                            *)

Last == Cardinality(events)

\* ClaimNextJob, advance, FailJob and the end of runProvision; RetryJob.
Writes(w) ==
    LET row == deployment IN
    IF w = "agent"
    THEN {[row EXCEPT !.status = s] : s \in IF row.status = "running"
                                            THEN {"running"} \cup Ends ELSE {}}
         \cup {[status |-> "running", attempt |-> n] : n \in
                 IF row.status \in {"pending", "running"} /\ row.attempt < MaxAttempts
                 THEN {row.attempt + 1} ELSE {}}
    ELSE {[row EXCEPT !.status = s] : s \in
                 IF row.status = "failed" /\ row.attempt < MaxAttempts
                 THEN {"pending"} ELSE {}}

\* Mutant: the row is read and checked without a lock.
RowAlwaysFree == TRUE

\* Nobody holds the lock of the row.
RowFree == \A w \in Writers : ~writing[w].open

\* Every writer first updates the row of the job, or locks it: FOR UPDATE.
LockRow(w) ==
    /\ ~writing[w].open /\ RowFree
    /\ w = "page" => page.phase = "asking"
    /\ Last < MaxEvents
    /\ \E row \in Writes(w) :
          writing' = [writing EXCEPT ![w] = [open |-> TRUE, row |-> row, seq |-> 0]]
    /\ UNCHANGED <<deployment, events, page, loads>>

\* INSERT with MAX(sequence)+1 of what is committed.
AddEvent(w) ==
    /\ writing[w].open /\ writing[w].seq = 0
    /\ writing' = [writing EXCEPT ![w].seq = Last + 1]
    /\ UNCHANGED <<deployment, events, page, loads>>

Commit(w) ==
    /\ writing[w].open /\ writing[w].seq # 0
    /\ deployment' = writing[w].row
    /\ events' = events \cup {[seq |-> writing[w].seq, status |-> writing[w].row.status]}
    /\ writing' = [writing EXCEPT ![w] = NoTransaction]
    /\ page' = IF w = "page" THEN [page EXCEPT !.phase = "granted"] ELSE page
    /\ UNCHANGED loads

RollBack(w) ==
    /\ writing[w].open
    /\ writing' = [writing EXCEPT ![w] = NoTransaction]
    /\ UNCHANGED <<deployment, events, page, loads>>

-----------------------------------------------------------------------------
(* The page.                                                               *)

CloseConnections(p) == [p EXCEPT !.stream = "none", !.last = 0, !.polling = FALSE]

\* A new EventSource, which starts without a Last-Event-ID.
Connect(p) == [p EXCEPT !.stream = "connecting", !.last = 0]

\* What created() and retry() do when their load has settled.
Resume(for, p) ==
    CASE for = "created" ->
            LET q == [p EXCEPT !.phase = "watching"]
            IN  IF p.status \in Ends THEN q ELSE Connect(q)
      [] for = "retry" -> Connect([p EXCEPT !.phase = "watching"])
      [] for = "nobody" -> p

\* GetPublicJob reads the job, and then its events.
GetJob(l) ==
    /\ l \in loads /\ ~l.read
    /\ loads' = (loads \ {l}) \cup
                {[l EXCEPT !.read = TRUE, !.status = deployment.status, !.upto = Last]}
    /\ UNCHANGED <<deployment, events, writing, page>>

LoadArrives(l) ==
    /\ l \in loads /\ l.read
    /\ \E n \in l.upto..Last :
         LET p == [page EXCEPT !.status = l.status, !.shown = @ \cup 1..n]
         IN  page' = Resume(l.for, IF l.status \in Ends THEN CloseConnections(p) ELSE p)
    /\ loads' = loads \ {l}
    /\ UNCHANGED <<deployment, events, writing>>

\* The request gets lost, or is refused, by the rate limiter for example.
LoadFails(l) ==
    /\ l \in loads
    /\ page' = Resume(l.for, page)
    /\ loads' = loads \ {l}
    /\ UNCHANGED <<deployment, events, writing>>

StreamOpens ==
    /\ page.stream = "connecting"
    /\ page' = [page EXCEPT !.stream = "open", !.polling = FALSE]
    /\ UNCHANGED <<deployment, events, writing, loads>>

\* Mutant: the stream starts with the events that come after its opening.
NextNumberLive == IF page.last = 0 THEN Last ELSE page.last + 1

\* JobEvents after Last-Event-ID, or after the event sent last.
NextNumber == page.last + 1

StreamDelivers ==
    /\ page.stream = "open"
    /\ \E e \in events :
         LET p == [page EXCEPT !.shown = @ \cup {e.seq}, !.status = e.status,
                               !.last = e.seq]
         IN  /\ e.seq = NextNumber
             /\ page' = IF e.status \in Ends THEN CloseConnections(p) ELSE p
             /\ loads' = IF e.status \in Ends THEN loads \cup {Asked("nobody")} ELSE loads
    /\ UNCHANGED <<deployment, events, writing>>

\* Mutant of OnError: polling begins with the second error.
OnErrorLazy(stream) ==
    /\ page' = [page EXCEPT !.stream = stream,
                            !.polling = @ \/ (page.stream = "connecting" /\ stream = "connecting")]
    /\ UNCHANGED loads

\* onerror: polling starts, at once and every three seconds.
OnError(stream) ==
    LET starts == ~page.polling /\ page.status \notin Ends
    IN  /\ page' = [page EXCEPT !.stream = stream, !.polling = @ \/ starts]
        /\ loads' = IF starts THEN loads \cup {Asked("nobody")} ELSE loads

\* The browser connects again by itself.
StreamDrops ==
    /\ page.stream \in {"connecting", "open"}
    /\ OnError("connecting")
    /\ UNCHANGED <<deployment, events, writing>>

\* Any status but 200 ends the EventSource for good.
StreamRefused ==
    /\ page.stream = "connecting"
    /\ OnError("dead")
    /\ UNCHANGED <<deployment, events, writing>>

Poll ==
    /\ page.polling
    /\ Cardinality(loads) < MaxPolls
    /\ loads' = loads \cup {Asked("nobody")}
    /\ UNCHANGED <<deployment, events, writing, page>>

\* The button is there when the page says failed.
AskRetry ==
    /\ page.phase = "watching" /\ page.status = "failed"
    /\ page' = [page EXCEPT !.phase = "asking"]
    /\ UNCHANGED <<deployment, events, writing, loads>>

RetryAccepted ==
    /\ page.phase = "granted"
    /\ page' = [page EXCEPT !.phase = "reloading", !.shown = {}, !.retried = TRUE]
    /\ loads' = loads \cup {Asked("retry")}
    /\ UNCHANGED <<deployment, events, writing>>

\* The job cannot be retried, or the request or its answer is lost.
RetryRefused ==
    /\ page.phase \in {"asking", "granted"} /\ ~writing["page"].open
    /\ page' = [page EXCEPT !.phase = "watching"]
    /\ UNCHANGED <<deployment, events, writing, loads>>

\* The wizard routes to the page, or the visitor closes it and opens it again.
Open ==
    /\ page.phase \in {"away", "watching"}
    /\ page' = [NewPage EXCEPT !.phase = "loading"]
    /\ loads' = {Asked("created")}
    /\ UNCHANGED <<deployment, events, writing>>

-----------------------------------------------------------------------------
Write(w) == LockRow(w) \/ AddEvent(w) \/ Commit(w) \/ RollBack(w)

StreamNext ==
    \/ \E w \in Writers : Write(w)
    \/ \E l \in loads : GetJob(l) \/ LoadArrives(l) \/ LoadFails(l)
    \/ StreamOpens \/ StreamDelivers \/ StreamDrops \/ StreamRefused \/ Poll
    \/ AskRetry \/ RetryAccepted \/ RetryRefused \/ Open

\* Not every request and not every stream of a page gets lost; nothing is
\* assumed of the job.
StreamFairness ==
    /\ SF_streamVars(\E l \in loads : GetJob(l))
    /\ SF_streamVars(\E l \in loads : LoadArrives(l))
    /\ SF_streamVars(StreamOpens)
    /\ SF_streamVars(StreamDelivers)
    /\ WF_streamVars(Poll)

StreamSpec == StreamInit /\ [][StreamNext]_streamVars /\ StreamFairness

-----------------------------------------------------------------------------
(* Properties.                                                             *)

StreamTypeOK ==
    /\ deployment \in Deployment
    /\ events \subseteq Event
    /\ writing \in [Writers -> Transaction]
    /\ page \in Page
    /\ loads \subseteq Request

\* No transaction is refused for the number of its event, whoever else writes
\* events of the job: MAX+1 is free until the transaction ends (addEvent).
NumberIsFree ==
    \A w \in Writers : writing[w].seq # 0 =>
        /\ \A e \in events : e.seq # writing[w].seq
        /\ \A v \in Writers \ {w} : writing[v].seq # writing[w].seq

\* Whatever is lost, late, repeated or reloaded, the list of the page has no gap
\* until its visitor retries the job; and it always holds what its stream has passed,
\* so that the stream brings what is missing, except while the page that retries
\* has emptied the list and waits for its reload (mergeEvents, events, retry).
ShownWithoutGap ==
    /\ page.shown \subseteq 1..Last
    /\ ~page.retried => \A n \in page.shown : 1..n \subseteq page.shown
    /\ page.phase # "reloading" => 1..page.last \subseteq page.shown

\* The first end of the job, or 0.
FirstEnd ==
    LET ends == {e.seq : e \in {f \in events : f.status \in Ends}}
    IN  IF ends = {} THEN 0 ELSE CHOOSE n \in ends : \A m \in ends : n <= m

\* A page shows how the job ended, with the stream or without it, until its
\* visitor retries the job (Progress.vue: connect, onerror, load).
EndIsShown == FirstEnd # 0 /\ page.phase # "away" ~> FirstEnd \in page.shown \/ page.retried

\* A page that shows an unfinished job as unfinished has not given up: a stream,
\* the timer or a request will bring it the rest (Progress.vue: connect, load).
UnfinishedIsFollowed ==
    page.phase = "watching" /\ {page.status, deployment.status} \subseteq {"pending", "running"} =>
        page.stream \in {"connecting", "open"} \/ page.polling \/ loads # {}
=============================================================================
