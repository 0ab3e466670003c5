------------------------ MODULE ProgressStreamProofs -------------------------
(***************************************************************************)
(* The numbers of the events of a job and the list of its page, for every  *)
(* number of attempts, events and requests: the proofs of NumberIsFree and *)
(* ShownWithoutGap of ProgressStream, and of UnfinishedIsFollowed for a    *)
(* job nobody retries.                                                     *)
(*                                                                         *)
(* The argument: one writer at a time holds the row, and what it inserts   *)
(* is the next number of a history 1..Last, so that it stays one.  On the  *)
(* page a load brings a beginning of the history and the stream the number *)
(* after the last one it sent; a new stream begins with the first.         *)
(***************************************************************************)
EXTENDS ProgressStream, FiniteSetTheorems, TLAPS

\* The numbers of the committed events are 1..Last.
History ==
    /\ IsFiniteSet(events)
    /\ {e.seq : e \in events} = 1..Last

\* One writer at a time is past its UPDATE; its event, once inserted, is next.
Turns ==
    /\ \A v, w \in Writers : writing[v].open /\ writing[w].open => v = w
    /\ \A w \in Writers : writing[w].open => Last < MaxEvents
    /\ \A w \in Writers : writing[w].seq # 0 =>
          writing[w].open /\ writing[w].seq = Last + 1

\* created() and retry() await one request, and only in their own phase; the
\* transaction of a retry is open while the page asks for it, and the page reloads
\* only after its retry was accepted.
Awaited ==
    /\ \A r \in loads :
          /\ r.for = "created" => page.phase = "loading"
          /\ r.for = "retry" => page.phase = "reloading"
    /\ \A q, r \in loads : q.for # "nobody" /\ r.for # "nobody" => q = r
    /\ writing["page"].open => page.phase = "asking"
    /\ page.phase = "reloading" => page.retried

StreamInv == StreamTypeOK /\ History /\ Turns /\ Awaited /\ ShownWithoutGap

LEMMA LastIsNatural == History => Last \in Nat
BY FS_CardinalityType DEF History, Last

-----------------------------------------------------------------------------
LEMMA StreamInitial == StreamInit => StreamInv
<1> SUFFICES ASSUME StreamInit PROVE StreamInv
  OBVIOUS
<1>1. IsFiniteSet(events) /\ Last = 1
  BY FS_Singleton DEF StreamInit, Last
<1>2. History
  <2>1. {e.seq : e \in events} = {1}
    BY DEF StreamInit
  <2> QED
    BY <1>1, <2>1 DEF History
<1>3. StreamTypeOK
  <2>1. deployment \in Deployment /\ events \subseteq Event
    BY StreamAssumption DEF StreamInit, Deployment, Event, JobStatus, Ends
  <2>2. writing \in [Writers -> Transaction]
    BY StreamAssumption
       DEF StreamInit, NoTransaction, Transaction, Deployment, JobStatus, Ends
  <2>3. page \in Page
    BY StreamAssumption DEF StreamInit, NewPage, Page, JobStatus
  <2> QED
    BY <2>1, <2>2, <2>3 DEF StreamTypeOK, StreamInit
<1>4. Turns
  BY DEF StreamInit, Turns, NoTransaction
<1>5. Awaited /\ ShownWithoutGap
  BY DEF StreamInit, Awaited, ShownWithoutGap, NewPage, NoTransaction, Writers
<1> QED
  BY <1>2, <1>3, <1>4, <1>5 DEF StreamInv

-----------------------------------------------------------------------------
(* The writers.                                                            *)

\* A step that commits nothing leaves the history and what the page shows of it.
LEMMA NothingCommitted ==
    ASSUME StreamInv, UNCHANGED <<deployment, events, page, loads>>,
           writing' \in [Writers -> Transaction], Turns',
           writing'["page"].open => page.phase = "asking"
    PROVE  StreamInv'
BY DEF StreamInv, StreamTypeOK, History, Awaited, ShownWithoutGap, Last

LEMMA WritesOfType ==
    ASSUME deployment \in Deployment, NEW w \in Writers
    PROVE  Writes(w) \subseteq Deployment
BY StreamAssumption DEF Writes, Deployment, JobStatus, Ends

LEMMA LockRowKeeps == ASSUME StreamInv, NEW w \in Writers, LockRow(w) PROVE StreamInv'
<1>1. PICK row \in Writes(w) :
         writing' = [writing EXCEPT ![w] = [open |-> TRUE, row |-> row, seq |-> 0]]
  BY DEF LockRow
<1>2. row \in Deployment /\ 0 \in 0..MaxEvents
  BY WritesOfType, StreamAssumption DEF StreamInv, StreamTypeOK
<1>3. writing' \in [Writers -> Transaction]
  BY <1>1, <1>2 DEF StreamInv, StreamTypeOK, Transaction
<1>4. Turns'
  BY <1>1 DEF StreamInv, StreamTypeOK, Turns, LockRow, RowFree, Last
<1>5. writing'["page"].open => page.phase = "asking"
  BY <1>1 DEF StreamInv, StreamTypeOK, Awaited, LockRow, Writers
<1> QED
  BY <1>3, <1>4, <1>5, NothingCommitted DEF LockRow

LEMMA AddEventKeeps == ASSUME StreamInv, NEW w \in Writers, AddEvent(w) PROVE StreamInv'
<1>1. writing[w].open /\ Last < MaxEvents /\ Last \in Nat /\ Last' = Last
  BY LastIsNatural DEF AddEvent, StreamInv, Turns, Last
<1>2. Last + 1 \in 0..MaxEvents
  BY <1>1, StreamAssumption
<1>3. writing' \in [Writers -> Transaction]
  BY <1>2 DEF AddEvent, StreamInv, StreamTypeOK, Transaction
<1>4. Turns'
  BY <1>1 DEF AddEvent, StreamInv, StreamTypeOK, Turns
<1>5. writing'["page"].open => page.phase = "asking"
  BY DEF StreamInv, StreamTypeOK, Awaited, AddEvent, Writers
<1> QED
  BY <1>3, <1>4, <1>5, NothingCommitted DEF AddEvent

LEMMA RollBackKeeps == ASSUME StreamInv, NEW w \in Writers, RollBack(w) PROVE StreamInv'
<1>1. writing' \in [Writers -> Transaction]
  BY StreamAssumption
     DEF RollBack, StreamInv, StreamTypeOK, NoTransaction, Transaction, Deployment, JobStatus
<1>2. Turns'
  BY DEF RollBack, StreamInv, StreamTypeOK, Turns, NoTransaction, Last
<1>3. writing'["page"].open => page.phase = "asking"
  BY DEF StreamInv, StreamTypeOK, Awaited, RollBack, NoTransaction, Writers
<1> QED
  BY <1>1, <1>2, <1>3, NothingCommitted DEF RollBack

\* The number is the next one, so that the history grows by it.
LEMMA CommitExtends ==
    ASSUME StreamInv, NEW w \in Writers, Commit(w)
    PROVE  History' /\ Last' = Last + 1 /\ Last < MaxEvents
<1> DEFINE new == [seq |-> writing[w].seq, status |-> writing[w].row.status]
<1>1. writing[w].seq = Last + 1 /\ Last < MaxEvents /\ Last \in Nat
  BY LastIsNatural DEF Commit, StreamInv, Turns
<1>2. new \notin events
  BY <1>1 DEF StreamInv, History
<1>3. events' = events \cup {new} /\ IsFiniteSet(events)
  BY DEF Commit, StreamInv, History
<1>4. IsFiniteSet(events') /\ Cardinality(events') = Cardinality(events) + 1
  BY <1>2, <1>3, FS_AddElement
<1>5. {e.seq : e \in events'} = {e.seq : e \in events} \cup {Last + 1}
  <2>1. {e.seq : e \in events \cup {new}} = {e.seq : e \in events} \cup {new.seq}
    OBVIOUS
  <2> QED
    BY <1>1, <1>3, <2>1
<1>6. {e.seq : e \in events'} = 1..(Last + 1)
  BY <1>1, <1>5 DEF StreamInv, History
<1> QED
  BY <1>1, <1>4, <1>6 DEF History, Last

LEMMA CommitKeeps == ASSUME StreamInv, NEW w \in Writers, Commit(w) PROVE StreamInv'
<1>1. History' /\ Last' = Last + 1 /\ Last < MaxEvents /\ Last \in Nat
  BY CommitExtends, LastIsNatural DEF StreamInv
<1>2. StreamTypeOK'
  <2>1. writing[w] \in Transaction /\ writing[w].seq \in 1..MaxEvents
    BY <1>1 DEF Commit, StreamInv, StreamTypeOK, Transaction
  <2>2. deployment' \in Deployment /\ events' \subseteq Event
    BY <2>1 DEF Commit, StreamInv, StreamTypeOK, Transaction, Deployment, Event
  <2>3. writing' \in [Writers -> Transaction]
    BY StreamAssumption
       DEF Commit, StreamInv, StreamTypeOK, NoTransaction, Transaction, Deployment, JobStatus
  <2>4. page' \in Page /\ loads' \subseteq Request
    BY DEF Commit, StreamInv, StreamTypeOK, Page
  <2> QED
    BY <2>2, <2>3, <2>4 DEF StreamTypeOK
<1>3. Turns'
  BY DEF Commit, StreamInv, StreamTypeOK, Turns, NoTransaction
<1>4. /\ page'.shown = page.shown /\ page'.last = page.last
      /\ page'.retried = page.retried
      /\ IF w = "page" THEN page'.phase = "granted" ELSE page'.phase = page.phase
      /\ loads' = loads
  BY DEF Commit, StreamInv, StreamTypeOK, Page
<1>5. w = "page" => page.phase = "asking"
  BY DEF Commit, StreamInv, Awaited
<1>6. Awaited'
  BY <1>3, <1>4, <1>5 DEF Commit, StreamInv, StreamTypeOK, Awaited, NoTransaction, Writers
<1>7. ShownWithoutGap'
  <2>1. page.phase = "reloading" <=> page'.phase = "reloading"
    BY <1>4, <1>5
  <2>2. 1..Last \subseteq 1..Last'
    BY <1>1
  <2> QED
    BY <1>4, <2>1, <2>2 DEF StreamInv, ShownWithoutGap
<1> QED
  BY <1>1, <1>2, <1>3, <1>6, <1>7 DEF StreamInv

-----------------------------------------------------------------------------
(* The page.                                                               *)

\* A step of the page leaves the job, its events and its transactions alone.
LEMMA PageStep ==
    ASSUME StreamInv, UNCHANGED <<deployment, events, writing>>,
           page' \in Page, loads' \subseteq Request, Awaited', ShownWithoutGap'
    PROVE  StreamInv'
BY DEF StreamInv, StreamTypeOK, History, Turns, Last

LEMMA CloseConnectionsKeeps ==
    ASSUME NEW p \in Page
    PROVE  /\ CloseConnections(p) \in Page
           /\ CloseConnections(p).phase = p.phase
           /\ CloseConnections(p).shown = p.shown
           /\ CloseConnections(p).retried = p.retried
           /\ CloseConnections(p).last = 0
<1>1. 0 \in 0..MaxEvents
  BY StreamAssumption
<1> QED
  BY <1>1 DEF CloseConnections, Page

\* created() and retry() go on to watch; retry() with a stream from the beginning.
LEMMA ResumeKeeps ==
    ASSUME NEW p \in Page, NEW f \in {"created", "retry", "nobody"}
    PROVE  /\ Resume(f, p) \in Page
           /\ Resume(f, p).phase = IF f = "nobody" THEN p.phase ELSE "watching"
           /\ Resume(f, p).shown = p.shown
           /\ Resume(f, p).retried = p.retried
           /\ Resume(f, p).last \in {0, p.last}
           /\ f = "retry" => Resume(f, p).last = 0
<1>1. ASSUME NEW q \in Page
      PROVE  /\ Connect(q) \in Page /\ Connect(q).phase = q.phase
             /\ Connect(q).shown = q.shown /\ Connect(q).retried = q.retried
             /\ Connect(q).last = 0
  <2>1. 0 \in 0..MaxEvents
    BY StreamAssumption
  <2> QED
    BY <2>1 DEF Connect, Page
<1>2. DEFINE q == [p EXCEPT !.phase = "watching"]
<1>3. /\ q \in Page /\ q.phase = "watching" /\ q.shown = p.shown
      /\ q.retried = p.retried /\ q.last = p.last
  BY DEF Page
<1> HIDE DEF q
<1>4. CASE f = "created"
  <2>1. Resume(f, p) = IF p.status \in Ends THEN q ELSE Connect(q)
    BY <1>4 DEF Resume, q
  <2> QED
    BY <2>1, <1>1, <1>3, <1>4
<1>5. CASE f = "retry"
  <2>1. Resume(f, p) = Connect(q)
    BY <1>5 DEF Resume, q
  <2> QED
    BY <2>1, <1>1, <1>3, <1>5
<1>6. CASE f = "nobody"
  BY <1>6 DEF Resume
<1> QED
  BY <1>4, <1>5, <1>6

\* A request settles: its answer, if it came, has brought a beginning.
LEMMA LoadSettles ==
    ASSUME StreamInv, NEW l \in loads, NEW p \in Page,
           UNCHANGED <<deployment, events, writing>>,
           p.phase = page.phase, p.retried = page.retried, p.last \in {0, page.last},
           page.shown \subseteq p.shown, p.shown \subseteq 1..Last,
           ~p.retried => \A n \in p.shown : 1..n \subseteq p.shown,
           page' = Resume(l.for, p), loads' = loads \ {l}
    PROVE  StreamInv'
<1>1. l.for \in {"created", "retry", "nobody"}
  BY DEF StreamInv, StreamTypeOK, Request
<1>2. /\ page' \in Page
      /\ page'.phase = IF l.for = "nobody" THEN page.phase ELSE "watching"
      /\ page'.shown = p.shown /\ page'.retried = page.retried
      /\ page'.last \in {0, page.last}
      /\ l.for = "retry" => page'.last = 0
  BY <1>1, ResumeKeeps
<1>3. loads' \subseteq Request
  BY DEF StreamInv, StreamTypeOK
<1>4. Awaited'
  <2>1. l.for # "nobody" => \A m \in loads' : m.for = "nobody"
    BY DEF StreamInv, Awaited
  <2>2. \A m \in loads' :
           /\ m.for = "created" => page'.phase = "loading"
           /\ m.for = "retry" => page'.phase = "reloading"
    <3>1. \A m \in loads' : m.for = "nobody" \/ l.for = "nobody"
      BY <2>1
    <3> QED
      BY <3>1, <1>2 DEF StreamInv, Awaited
  <2>3. writing["page"].open => l.for = "nobody"
    BY <1>1 DEF StreamInv, Awaited
  <2>4. writing'["page"].open => page'.phase = "asking"
    BY <2>3, <1>2 DEF StreamInv, Awaited
  <2>5. page'.phase = "reloading" => page'.retried
    BY <1>2 DEF StreamInv, Awaited
  <2>6. \A k, m \in loads' : k.for # "nobody" /\ m.for # "nobody" => k = m
    BY DEF StreamInv, Awaited
  <2> QED
    BY <2>2, <2>4, <2>5, <2>6 DEF Awaited
<1>5. ShownWithoutGap'
  <2>1. Last' = Last
    BY DEF Last
  <2>2. page'.phase # "reloading" => page'.last = 0 \/ page.phase # "reloading"
    BY <1>1, <1>2 DEF StreamInv, Awaited
  <2>3. page'.phase # "reloading" => 1..page'.last \subseteq page'.shown
    <3>1. CASE page'.last = 0
      BY <3>1
    <3>2. CASE page'.last # 0
      BY <3>2, <2>2, <1>2 DEF StreamInv, ShownWithoutGap
    <3> QED
      BY <3>1, <3>2
  <2> QED
    BY <2>1, <2>3, <1>2 DEF ShownWithoutGap
<1> QED
  BY <1>2, <1>3, <1>4, <1>5, PageStep

LEMMA GetJobKeeps == ASSUME StreamInv, NEW l \in loads, GetJob(l) PROVE StreamInv'
<1> DEFINE read == [l EXCEPT !.read = TRUE, !.status = deployment.status, !.upto = Last]
<1>1. Last \in 0..MaxEvents
  <2>1. Last \in Nat /\ {e.seq : e \in events} = 1..Last
    BY LastIsNatural DEF StreamInv, History
  <2>2. \A n \in 1..Last : n \in 1..MaxEvents
    BY <2>1 DEF StreamInv, StreamTypeOK, Event
  <2> QED
    BY <2>1, <2>2, StreamAssumption
<1>2. l \in Request /\ deployment.status \in JobStatus
  BY DEF StreamInv, StreamTypeOK, Deployment
<1>3. read \in Request /\ read.for = l.for
  BY <1>1, <1>2 DEF Request
<1>4. loads' = (loads \ {l}) \cup {read} /\ page' = page /\ writing' = writing
  BY DEF GetJob
<1> HIDE DEF read
<1>5. loads' \subseteq Request /\ page' \in Page
  BY <1>3, <1>4 DEF StreamInv, StreamTypeOK
<1>6. Awaited'
  BY <1>3, <1>4 DEF StreamInv, Awaited
<1>7. ShownWithoutGap'
  BY <1>4 DEF GetJob, StreamInv, ShownWithoutGap, Last
<1> QED
  BY <1>5, <1>6, <1>7, PageStep DEF GetJob

LEMMA LoadArrivesKeeps == ASSUME StreamInv, NEW l \in loads, LoadArrives(l) PROVE StreamInv'
<1>1. PICK n \in l.upto..Last :
        LET p == [page EXCEPT !.status = l.status, !.shown = @ \cup 1..n]
        IN  page' = Resume(l.for, IF l.status \in Ends THEN CloseConnections(p) ELSE p)
  BY DEF LoadArrives
<1> DEFINE p == [page EXCEPT !.status = l.status, !.shown = @ \cup 1..n]
           q == IF l.status \in Ends THEN CloseConnections(p) ELSE p
<1>2. /\ l \in Request /\ page \in Page /\ Last \in Nat
      /\ n \in Int /\ 1..n \subseteq 1..Last
  BY LastIsNatural DEF StreamInv, StreamTypeOK, Request
<1>3. 1..Last \subseteq 1..MaxEvents
  <2>1. {e.seq : e \in events} = 1..Last
    BY DEF StreamInv, History
  <2> QED
    BY <2>1 DEF StreamInv, StreamTypeOK, Event
<1>4. /\ p \in Page /\ p.phase = page.phase /\ p.retried = page.retried
      /\ p.last = page.last /\ p.shown = page.shown \cup 1..n
  BY <1>2, <1>3 DEF Page, Request
<1> HIDE DEF p
<1>5. /\ q \in Page /\ q.phase = page.phase /\ q.retried = page.retried
      /\ q.last \in {0, page.last} /\ q.shown = page.shown \cup 1..n
  BY <1>4, CloseConnectionsKeeps
<1>6. page' = Resume(l.for, q)
  BY <1>1 DEF p
<1> HIDE DEF q
<1>7. page.shown \subseteq q.shown /\ q.shown \subseteq 1..Last
  BY <1>2, <1>5 DEF StreamInv, ShownWithoutGap
<1>8. ~q.retried => \A m \in q.shown : 1..m \subseteq q.shown
  <2>1. \A m \in 1..n : 1..m \subseteq 1..n
    BY <1>2
  <2> QED
    BY <2>1, <1>5 DEF StreamInv, ShownWithoutGap
<1> QED
  BY <1>5, <1>6, <1>7, <1>8, LoadSettles DEF LoadArrives

LEMMA LoadFailsKeeps == ASSUME StreamInv, NEW l \in loads, LoadFails(l) PROVE StreamInv'
<1>1. page \in Page /\ page.last \in {0, page.last}
  BY DEF StreamInv, StreamTypeOK
<1> QED
  BY <1>1, LoadSettles DEF LoadFails, StreamInv, ShownWithoutGap

\* A request nobody awaits.
LEMMA AskingNobody ==
    /\ Asked("nobody") \in Request
    /\ Asked("nobody").for = "nobody"
BY StreamAssumption DEF Asked, Request

\* A step that at most sends a request nobody awaits.
LEMMA AwaitedKeeps ==
    ASSUME StreamInv, writing' = writing, page'.phase = page.phase,
           page'.retried = page.retried, loads' \subseteq loads \cup {Asked("nobody")}
    PROVE  Awaited' /\ loads' \subseteq Request
<1>1. loads' \subseteq Request
  BY AskingNobody DEF StreamInv, StreamTypeOK
<1>2. \A m \in loads' : m.for # "nobody" => m \in loads
  BY AskingNobody
<1> HIDE DEF Asked
<1>3. Awaited'
  BY <1>2 DEF StreamInv, Awaited
<1> QED
  BY <1>1, <1>3

\* A step of the connection, which changes nothing the list depends on.
LEMMA ConnectionStep ==
    ASSUME StreamInv, UNCHANGED <<deployment, events, writing>>, page' \in Page,
           page'.phase = page.phase, page'.shown = page.shown,
           page'.last = page.last, page'.retried = page.retried,
           loads' \subseteq loads \cup {Asked("nobody")}
    PROVE  StreamInv'
<1>1. Awaited' /\ loads' \subseteq Request
  BY AwaitedKeeps
<1>2. ShownWithoutGap'
  BY DEF StreamInv, ShownWithoutGap, Last
<1> QED
  BY <1>1, <1>2, PageStep

LEMMA OnErrorKeeps ==
    ASSUME StreamInv, UNCHANGED <<deployment, events, writing>>,
           NEW s \in {"connecting", "dead"}, OnError(s)
    PROVE  StreamInv'
<1>1. page \in Page
  BY DEF StreamInv, StreamTypeOK
<1>2. /\ page' \in Page /\ page'.phase = page.phase /\ page'.shown = page.shown
      /\ page'.last = page.last /\ page'.retried = page.retried
  BY <1>1 DEF OnError, Page
<1>3. loads' \subseteq loads \cup {Asked("nobody")}
  BY DEF OnError
<1> QED
  BY <1>2, <1>3, ConnectionStep

\* The number the stream brings is the one after the last it brought.
LEMMA StreamDeliversKeeps == ASSUME StreamInv, StreamDelivers PROVE StreamInv'
<1>1. PICK e \in events :
         /\ e.seq = NextNumber
         /\ LET p == [page EXCEPT !.shown = @ \cup {e.seq}, !.status = e.status,
                                  !.last = e.seq]
            IN  page' = IF e.status \in Ends THEN CloseConnections(p) ELSE p
  BY DEF StreamDelivers
<1> DEFINE p == [page EXCEPT !.shown = @ \cup {e.seq}, !.status = e.status, !.last = e.seq]
<1>2. /\ e.seq \in 1..MaxEvents /\ e.status \in JobStatus /\ e.seq \in 1..Last
      /\ page \in Page /\ e.seq = page.last + 1 /\ page.last \in Nat
  BY <1>1 DEF StreamInv, StreamTypeOK, Event, History, NextNumber, Page
<1>3. /\ p \in Page /\ p.phase = page.phase /\ p.retried = page.retried
      /\ p.last = e.seq /\ p.shown = page.shown \cup {e.seq}
  <2>1. e.seq \in 0..MaxEvents /\ page.shown \cup {e.seq} \in SUBSET (1..MaxEvents)
    BY <1>2 DEF Page
  <2> QED
    BY <1>2, <2>1 DEF Page
<1>4. page' = IF e.status \in Ends THEN CloseConnections(p) ELSE p
  BY <1>1
<1> HIDE DEF p
<1>5. /\ page' \in Page /\ page'.phase = page.phase /\ page'.retried = page.retried
      /\ page'.last \in {0, e.seq} /\ page'.shown = page.shown \cup {e.seq}
  BY <1>3, <1>4, CloseConnectionsKeeps
<1>6. loads' \subseteq loads \cup {Asked("nobody")}
  BY DEF StreamDelivers
<1>7. Awaited' /\ loads' \subseteq Request
  BY <1>5, <1>6, AwaitedKeeps DEF StreamDelivers
<1>8. ShownWithoutGap'
  <2>1. page.phase # "reloading" => 1..e.seq \subseteq page'.shown
    BY <1>2, <1>5 DEF StreamInv, ShownWithoutGap
  <2>2. page'.phase # "reloading" => 1..page'.last \subseteq page'.shown
    BY <2>1, <1>5
  <2>3. ~page'.retried => \A n \in page'.shown : 1..n \subseteq page'.shown
    BY <2>1, <1>5 DEF StreamInv, ShownWithoutGap, Awaited
  <2>4. page'.shown \subseteq 1..Last /\ Last' = Last
    BY <1>2, <1>5 DEF StreamInv, ShownWithoutGap, StreamDelivers, Last
  <2> QED
    BY <2>2, <2>3, <2>4 DEF ShownWithoutGap
<1> QED
  BY <1>5, <1>7, <1>8, PageStep DEF StreamDelivers

\* The page empties its list when its retry is accepted, and waits for the reload.
LEMMA RetryAcceptedKeeps == ASSUME StreamInv, RetryAccepted PROVE StreamInv'
<1>1. page \in Page
  BY DEF StreamInv, StreamTypeOK
<1>2. /\ page' \in Page /\ page'.phase = "reloading" /\ page'.shown = {}
      /\ page'.retried
  BY <1>1 DEF RetryAccepted, Page
<1>3. Asked("retry") \in Request /\ Asked("retry").for = "retry"
  BY StreamAssumption DEF Asked, Request
<1>4. loads' = loads \cup {Asked("retry")} /\ writing' = writing /\ page.phase = "granted"
  BY DEF RetryAccepted
<1> HIDE DEF Asked
<1>5. loads' \subseteq Request
  BY <1>3, <1>4 DEF StreamInv, StreamTypeOK
<1>6. Awaited'
  <2>1. \A r \in loads : r.for = "nobody"
    BY <1>4 DEF StreamInv, StreamTypeOK, Request, Awaited
  <2> QED
    BY <2>1, <1>2, <1>3, <1>4 DEF StreamInv, Awaited
<1>7. ShownWithoutGap'
  BY <1>2 DEF ShownWithoutGap
<1> QED
  BY <1>2, <1>5, <1>6, <1>7, PageStep DEF RetryAccepted

\* A step between the phases in which no request is awaited.
LEMMA PhaseStep ==
    ASSUME StreamInv, NEW f,
           f \in {"away", "loading", "watching", "asking", "granted"},
           page.phase \in {"watching", "asking", "granted"},
           page' = [page EXCEPT !.phase = f], f # "asking" => ~writing["page"].open,
           UNCHANGED <<deployment, events, writing, loads>>
    PROVE  StreamInv'
<1>1. page \in Page
  BY DEF StreamInv, StreamTypeOK
<1>2. /\ page' \in Page /\ page'.phase = f /\ page'.shown = page.shown
      /\ page'.last = page.last /\ page'.retried = page.retried
  BY <1>1 DEF Page
<1>3. Awaited' /\ loads' \subseteq Request
  BY <1>2 DEF StreamInv, StreamTypeOK, Awaited
<1>4. ShownWithoutGap'
  BY <1>2 DEF StreamInv, ShownWithoutGap, Last
<1> QED
  BY <1>2, <1>3, <1>4, PageStep

LEMMA OpenKeeps == ASSUME StreamInv, Open PROVE StreamInv'
<1>1. /\ page' \in Page /\ page'.phase = "loading" /\ page'.shown = {} /\ page'.last = 0
      /\ Asked("created") \in Request
  <2>1. 0 \in 0..MaxEvents
    BY StreamAssumption
  <2>2. NewPage \in Page
    BY <2>1 DEF NewPage, Page
  <2>3. page' = [NewPage EXCEPT !.phase = "loading"]
    BY DEF Open
  <2>4. page' \in Page /\ page'.phase = "loading"
    BY <2>2, <2>3 DEF Page
  <2>5. page'.shown = {} /\ page'.last = 0
    BY <2>3 DEF NewPage
  <2>6. Asked("created") \in Request
    BY <2>1 DEF Asked, Request
  <2> QED
    BY <2>4, <2>5, <2>6
<1>2. loads' = {Asked("created")} /\ loads' \subseteq Request
  BY <1>1 DEF Open
<1>3. Awaited'
  BY <1>1, <1>2 DEF Open, StreamInv, Awaited, Asked
<1>4. ShownWithoutGap'
  BY <1>1 DEF ShownWithoutGap
<1> QED
  BY <1>1, <1>2, <1>3, <1>4, PageStep DEF Open

-----------------------------------------------------------------------------
LEMMA StreamInductive == StreamInv /\ [StreamNext]_streamVars => StreamInv'
<1> SUFFICES ASSUME StreamInv, [StreamNext]_streamVars PROVE StreamInv'
  OBVIOUS
<1> page \in Page
  BY DEF StreamInv, StreamTypeOK
<1>1. ASSUME NEW w \in Writers, Write(w) PROVE StreamInv'
  BY <1>1, LockRowKeeps, AddEventKeeps, CommitKeeps, RollBackKeeps DEF Write
<1>2. ASSUME NEW l \in loads, GetJob(l) \/ LoadArrives(l) \/ LoadFails(l) PROVE StreamInv'
  BY <1>2, GetJobKeeps, LoadArrivesKeeps, LoadFailsKeeps
<1>3. CASE StreamOpens
  <2>1. /\ page' \in Page /\ page'.phase = page.phase /\ page'.shown = page.shown
        /\ page'.last = page.last /\ page'.retried = page.retried
    BY <1>3 DEF StreamOpens, Page
  <2> QED
    BY <1>3, <2>1, ConnectionStep DEF StreamOpens
<1>4. CASE StreamDelivers
  BY <1>4, StreamDeliversKeeps
<1>5. CASE StreamDrops \/ StreamRefused
  BY <1>5, OnErrorKeeps DEF StreamDrops, StreamRefused
<1>6. CASE Poll
  BY <1>6, ConnectionStep DEF Poll
<1>7. CASE AskRetry
  BY <1>7, PhaseStep DEF AskRetry
<1>8. CASE RetryAccepted
  BY <1>8, RetryAcceptedKeeps
<1>9. CASE RetryRefused
  BY <1>9, PhaseStep DEF RetryRefused
<1>10. CASE Open
  BY <1>10, OpenKeeps
<1>11. CASE UNCHANGED streamVars
  BY <1>11, ConnectionStep DEF streamVars
<1> QED
  BY <1>1, <1>2, <1>3, <1>4, <1>5, <1>6, <1>7, <1>8, <1>9, <1>10, <1>11 DEF StreamNext

THEOREM StreamInvariance == StreamSpec => []StreamInv
BY StreamInitial, StreamInductive, PTL DEF StreamSpec

\* However agents, pages and administrators interleave on one job, the number an
\* event takes is nobody else's: no transaction fails on it (addEvent).
THEOREM EventNumbersAreFree == StreamSpec => []NumberIsFree
<1>1. StreamInv => NumberIsFree
  <2> SUFFICES ASSUME StreamInv, NEW w \in Writers, writing[w].seq # 0
               PROVE  /\ \A e \in events : e.seq # writing[w].seq
                      /\ \A v \in Writers \ {w} : writing[v].seq # writing[w].seq
    BY DEF NumberIsFree
  <2>1. Last \in Nat /\ writing[w].seq = Last + 1
    BY LastIsNatural DEF StreamInv, Turns
  <2>2. \A e \in events : e.seq \in 1..Last
    BY DEF StreamInv, History
  <2>3. \A v \in Writers \ {w} : writing[v].seq = 0
    BY DEF StreamInv, Turns
  <2> QED
    BY <2>1, <2>2, <2>3
<1> QED
  BY <1>1, StreamInvariance, PTL

\* The list of a page is a beginning of the history until a retry, and what its
\* stream has passed is in it, however loads, stream and retries interleave.
THEOREM ListHasNoGap == StreamSpec => []ShownWithoutGap
<1>1. StreamInv => ShownWithoutGap
  BY DEF StreamInv
<1> QED
  BY <1>1, StreamInvariance, PTL
-----------------------------------------------------------------------------
(* A job that is not retried.  UnfinishedIsFollowed is not an invariant of *)
(* the code: a page may hear of an end, stop listening, and then show the  *)
(* job as unfinished again after a retry (its counterexample).  Here is    *)
(* the other half: without a retry after an end it cannot happen.          *)

Ended == deployment.status \in Ends

\* Nobody puts the job back into the queue once it has ended: no RetryPublicJob and
\* no RetryJob gets through.
NotRetried == Ended => UNCHANGED deployment

\* What a page hears is not ahead of the job, and while the job runs a page that
\* watches it has a stream or its timer.
Followed ==
    /\ \A e \in events : e.status \in Ends => Ended
    /\ \A l \in loads : l.status \in Ends => Ended
    /\ page.status \in Ends \/ page.phase \in {"asking", "granted", "reloading"} => Ended
    /\ page.phase = "watching" /\ ~Ended =>
          page.stream \in {"connecting", "open"} \/ page.polling

\* A page that goes on after a load connects, unless it knows of an end.
LEMMA ResumeFollows ==
    ASSUME NEW p \in Page, NEW f \in {"created", "retry", "nobody"},
           p.status \notin Ends,
           p.phase = "watching" => p.stream \in {"connecting", "open"} \/ p.polling
    PROVE  /\ Resume(f, p).status = p.status
           /\ Resume(f, p).phase = "watching" =>
                Resume(f, p).stream \in {"connecting", "open"} \/ Resume(f, p).polling
<1> DEFINE q == [p EXCEPT !.phase = "watching"]
<1>1. q \in Page /\ q.status = p.status
  BY DEF Page
<1>2. Connect(q).status = q.status /\ Connect(q).stream = "connecting"
  BY <1>1 DEF Connect, Page
<1>3. CASE f = "nobody"
  BY <1>3 DEF Resume
<1>4. CASE f \in {"created", "retry"}
  <2>1. Resume(f, p) = Connect(q)
    BY <1>4 DEF Resume
  <2> QED
    BY <2>1, <1>1, <1>2
<1> QED
  BY <1>3, <1>4

\* A step of the page while the job runs.
LEMMA FollowsOn ==
    ASSUME ~Ended, Followed, UNCHANGED <<deployment, events>>,
           page'.status \notin Ends, page'.phase \notin {"asking", "granted", "reloading"},
           page'.phase = "watching" =>
               page'.stream \in {"connecting", "open"} \/ page'.polling,
           \A l \in loads' : l.status \notin Ends
    PROVE  Followed'
BY DEF Followed, Ended

LEMMA CommitFollows ==
    ASSUME StreamInv, Followed, NotRetried, NEW w \in Writers, Commit(w)
    PROVE  Followed'
<1>1. Ended => Ended'
  BY DEF NotRetried, Ended
<1>2. \A e \in events' : e.status \in Ends => Ended'
  BY <1>1 DEF Commit, Followed, Ended
<1>3. \A l \in loads' : l.status \in Ends => Ended'
  BY <1>1 DEF Commit, Followed
<1>4. CASE w = "page"
  <2>1. page.phase = "asking"
    BY <1>4 DEF Commit, StreamInv, Awaited
  <2> QED
    BY <1>1, <1>2, <1>3, <2>1 DEF Followed
<1>5. CASE w # "page"
  <2>1. page' = page
    BY <1>5 DEF Commit
  <2> QED
    BY <1>1, <1>2, <1>3, <2>1 DEF Followed
<1> QED
  BY <1>4, <1>5

LEMMA FollowedInductive ==
    StreamInv /\ Followed /\ [StreamNext]_streamVars /\ NotRetried => Followed'
<1> SUFFICES ASSUME StreamInv, Followed, [StreamNext]_streamVars, NotRetried
             PROVE  Followed'
  OBVIOUS
<1>1. CASE Ended
  BY <1>1 DEF NotRetried, Followed, Ended
<1>2. CASE ~Ended
  <2> page \in Page /\ page.status \notin Ends
      /\ page.phase \notin {"asking", "granted", "reloading"}
    BY <1>2 DEF Followed, StreamInv, StreamTypeOK
  <2>1. \A l \in loads : l \in Request /\ l.status \notin Ends
    BY <1>2 DEF Followed, StreamInv, StreamTypeOK
  <2>2. \A e \in events : e.status \notin Ends
    BY <1>2 DEF Followed
  <2>3. page.phase = "watching" => page.stream \in {"connecting", "open"} \/ page.polling
    BY <1>2 DEF Followed
  <2>4. Asked("nobody").status \notin Ends /\ Asked("created").status \notin Ends
    BY DEF Asked, Ends
  <2> HIDE DEF Asked
  <2>5. ASSUME NEW w \in Writers, Write(w) PROVE Followed'
    <3>1. CASE Commit(w)
      BY <3>1, CommitFollows
    <3>2. CASE LockRow(w) \/ AddEvent(w) \/ RollBack(w)
      BY <3>2 DEF LockRow, AddEvent, RollBack, Followed, Ended
    <3> QED
      BY <2>5, <3>1, <3>2 DEF Write
  <2>6. ASSUME NEW l \in loads, GetJob(l) PROVE Followed'
    <3>1. \A m \in loads' : m.status \notin Ends
      BY <2>1, <2>6, <1>2 DEF GetJob, Request, Ended
    <3> QED
      BY <2>3, <2>6, <3>1, <1>2, FollowsOn DEF GetJob
  <2>7. ASSUME NEW l \in loads, LoadArrives(l) PROVE Followed'
    <3>1. PICK n \in l.upto..Last :
            LET p == [page EXCEPT !.status = l.status, !.shown = @ \cup 1..n]
            IN  page' = Resume(l.for, IF l.status \in Ends THEN CloseConnections(p) ELSE p)
      BY <2>7 DEF LoadArrives
    <3> DEFINE p == [page EXCEPT !.status = l.status, !.shown = @ \cup 1..n]
    <3>2. page' = Resume(l.for, p)
      BY <2>1, <3>1
    <3>3. 1..n \subseteq 1..MaxEvents
      <4>1. n \in Int /\ 1..n \subseteq 1..Last
        BY <2>1, LastIsNatural DEF StreamInv, Request
      <4>2. 1..Last \subseteq 1..MaxEvents
        <5>1. {e.seq : e \in events} = 1..Last
          BY DEF StreamInv, History
        <5> QED
          BY <5>1 DEF StreamInv, StreamTypeOK, Event
      <4> QED
        BY <4>1, <4>2
    <3>4. /\ p \in Page /\ p.phase = page.phase /\ p.status = l.status
          /\ p.stream = page.stream /\ p.polling = page.polling
      BY <2>1, <3>3 DEF Page, Request
    <3> HIDE DEF p
    <3>5. l.for \in {"created", "retry", "nobody"}
      BY <2>1 DEF Request
    <3>6. /\ page'.status = l.status
          /\ page'.phase = "watching" =>
               page'.stream \in {"connecting", "open"} \/ page'.polling
      BY <2>1, <2>3, <3>2, <3>4, <3>5, ResumeFollows
    <3>7. page'.phase \in {page.phase, "watching"}
      BY <3>2, <3>4, <3>5, ResumeKeeps
    <3> QED
      BY <2>1, <2>7, <3>6, <3>7, <1>2, FollowsOn DEF LoadArrives
  <2>8. ASSUME NEW l \in loads, LoadFails(l) PROVE Followed'
    <3>1. l.for \in {"created", "retry", "nobody"} /\ page' = Resume(l.for, page)
      BY <2>1, <2>8 DEF LoadFails, Request
    <3>2. /\ page'.status = page.status
          /\ page'.phase = "watching" =>
               page'.stream \in {"connecting", "open"} \/ page'.polling
      BY <2>3, <3>1, ResumeFollows
    <3>3. page'.phase \in {page.phase, "watching"}
      BY <3>1, ResumeKeeps
    <3> QED
      BY <2>1, <2>8, <3>2, <3>3, <1>2, FollowsOn DEF LoadFails
  <2>9. CASE StreamOpens
    <3>1. page'.status = page.status /\ page'.phase = page.phase /\ page'.stream = "open"
      BY <2>9 DEF StreamOpens, Page
    <3> QED
      BY <2>1, <2>9, <3>1, <1>2, FollowsOn DEF StreamOpens
  <2>10. CASE StreamDelivers
    <3>1. PICK e \in events :
            /\ page' = [page EXCEPT !.shown = @ \cup {e.seq}, !.status = e.status,
                                    !.last = e.seq]
            /\ loads' = loads
      BY <2>2, <2>10 DEF StreamDelivers
    <3>2. page'.status = e.status /\ page'.phase = page.phase /\ page'.stream = "open"
      BY <2>10, <3>1 DEF StreamDelivers, Page
    <3> QED
      BY <2>1, <2>2, <2>10, <3>1, <3>2, <1>2, FollowsOn DEF StreamDelivers
  <2>11. ASSUME NEW s \in {"connecting", "dead"}, OnError(s), UNCHANGED <<deployment, events>>
         PROVE  Followed'
    <3>1. page'.status = page.status /\ page'.phase = page.phase /\ page'.polling
      BY <2>11 DEF OnError, Page
    <3>2. \A l \in loads' : l.status \notin Ends
      BY <2>1, <2>4, <2>11 DEF OnError
    <3> QED
      BY <2>11, <3>1, <3>2, <1>2, FollowsOn
  <2>12. CASE StreamDrops \/ StreamRefused
    BY <2>11, <2>12 DEF StreamDrops, StreamRefused
  <2>13. CASE Poll
    <3>1. \A l \in loads' : l.status \notin Ends
      BY <2>1, <2>4, <2>13 DEF Poll
    <3> QED
      BY <2>3, <2>13, <3>1, <1>2, FollowsOn DEF Poll
  <2>14. CASE AskRetry \/ RetryAccepted \/ RetryRefused
    BY <2>14 DEF AskRetry, RetryAccepted, RetryRefused, Ends
  <2>15. CASE Open
    <3>1. page'.status = "none" /\ page'.phase = "loading"
      BY <2>15 DEF Open, NewPage
    <3>2. \A l \in loads' : l.status \notin Ends
      BY <2>4, <2>15 DEF Open
    <3> QED
      BY <2>15, <3>1, <3>2, <1>2, FollowsOn DEF Open, Ends
  <2>16. CASE UNCHANGED streamVars
    BY <2>1, <2>3, <2>16, <1>2, FollowsOn DEF streamVars
  <2> QED
    BY <2>5, <2>6, <2>7, <2>8, <2>9, <2>10, <2>12, <2>13, <2>14, <2>15, <2>16 DEF StreamNext
<1> QED
  BY <1>1, <1>2

\* A page that shows an unfinished job has not given up, whatever is lost and however
\* often it is reopened, as long as nobody retries the job after an end: a retry is the
\* only way to strand a page (Progress.vue: connect, onerror, load; RetryPublicJob).
THEOREM OnlyARetryStrandsAPage ==
    StreamSpec /\ [][NotRetried]_streamVars => []UnfinishedIsFollowed
<1>1. StreamInit => Followed
  BY DEF StreamInit, Followed, NewPage, Ends
<1>2. StreamInv /\ Followed /\ [StreamNext]_streamVars /\ [NotRetried]_streamVars => Followed'
  <2>1. UNCHANGED streamVars => NotRetried
    BY DEF streamVars, NotRetried
  <2> QED
    BY <2>1, FollowedInductive
<1>3. StreamInv /\ Followed => UnfinishedIsFollowed
  <2>1. deployment.status \in {"pending", "running"} => ~Ended
    BY DEF Ended, Ends
  <2> QED
    BY <2>1 DEF Followed, UnfinishedIsFollowed
<1> QED
  BY <1>1, <1>2, <1>3, StreamInvariance, PTL DEF StreamSpec
=============================================================================
