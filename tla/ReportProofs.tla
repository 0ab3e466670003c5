---------------------------- MODULE ReportProofs -----------------------------
(***************************************************************************)
(* What sites report: no report is counted twice, whatever the intervals,  *)
(* the number of requests and of handlers (CountedOnce of ReportNonce);    *)
(* and the total of the day that goes on is never more than the calls made *)
(* (TodayIsNotOvercounted of MetricReports), whatever comes late.          *)
(*                                                                         *)
(* The argument for nonces: a request can get past its timestamp until     *)
(* Tolerance after it, and then has HandlerDelay to reach the nonces. The  *)
(* nonce of a request that was counted expires later than that, because    *)
(* the clock of its sender was not further ahead than the assumption       *)
(* allows; so when it is forgotten no delivery of the request is at work,  *)
(* and none can be any more.                                               *)
(*                                                                         *)
(* The argument for totals: a report that bears today's date was begun and *)
(* counted today, when the calls were at most what they are now; no report *)
(* bears a later date, so that a day begins without a row.                 *)
(***************************************************************************)
EXTENDS ReportNonce, MetricReports, TLAPS

\* The last moment at which a delivery of m can reach the nonces.
TooLate(m) == message[m].timestamp + Tolerance + HandlerDelay

\* A request that was not sent has left no trace; one that was sent is not
\* stamped further ahead than the clocks allow.
Stamps ==
    \A m \in Messages :
        /\ ~message[m].sent => counted[m] = 0
        /\ message[m].sent => message[m].timestamp <= time + Ahead

\* A handler at work has a request in hand whose timestamp it has accepted, and
\* not too long ago.
Handling ==
    \A d \in Deliveries : delivery[d].busy =>
        /\ message[delivery[d].of].sent
        /\ time <= delivery[d].checked + HandlerDelay
        /\ delivery[d].checked - message[delivery[d].of].timestamp <= Tolerance

\* What was counted is remembered until it is too late.
Remembered ==
    \A m \in Messages :
        /\ counted[m] <= 1
        /\ counted[m] = 1 => \/ nonces[m] # Unknown /\ nonces[m] > TooLate(m)
                             \/ nonces[m] = Unknown /\ time > TooLate(m)

NonceInv == NonceTypeOK /\ Stamps /\ Handling /\ Remembered

-----------------------------------------------------------------------------
LEMMA NonceInitial == NonceInit => NonceInv
<1> SUFFICES ASSUME NonceInit PROVE NonceInv
  OBVIOUS
<1> USE NonceAssumption
<1>1. \E m \in Messages :
          delivery = [d \in Deliveries |-> [busy |-> FALSE, of |-> m, checked |-> 0]]
  <2>1. (CHOOSE m \in Messages : TRUE) \in Messages
    OBVIOUS
  <2> QED
    BY <2>1 DEF NonceInit
<1>2. NonceTypeOK
  <2>1. 0 \in (-Ahead)..(EndOfTime + Ahead) /\ 0 \in 0..EndOfTime /\ 0 \in 0..(EndOfTime + Keep)
    OBVIOUS
  <2>2. message \in [Messages -> [sent : BOOLEAN, timestamp : (-Ahead)..(EndOfTime + Ahead)]]
    BY <2>1 DEF NonceInit
  <2>3. delivery \in [Deliveries -> [busy : BOOLEAN, of : Messages, checked : 0..EndOfTime]]
    BY <1>1, <2>1
  <2> QED
    BY <2>1, <2>2, <2>3 DEF NonceInit, NonceTypeOK, Unknown
<1>3. Stamps /\ Remembered
  <2>1. \A m \in Messages : ~message[m].sent /\ counted[m] = 0
    BY DEF NonceInit
  <2> QED
    BY <2>1 DEF Stamps, Remembered
<1>4. Handling
  <2>1. \A d \in Deliveries : ~delivery[d].busy
    BY <1>1
  <2> QED
    BY <2>1 DEF Handling
<1> QED
  BY <1>2, <1>3, <1>4 DEF NonceInv

-----------------------------------------------------------------------------
(* One lemma for every action that disturbs the invariant.                 *)

LEMMA SendKeeps == ASSUME NEW m \in Messages, NonceInv, Send(m) PROVE NonceInv'
<1> USE NonceAssumption
<1>1. PICK t \in (time - Ahead)..(time + Ahead) :
          message' = [message EXCEPT ![m] = [sent |-> TRUE, timestamp |-> t]]
  BY DEF Send
<1>2. time \in Nat /\ ~message[m].sent /\ UNCHANGED <<time, delivery, nonces, counted>>
  BY DEF NonceInv, NonceTypeOK, Send
<1>3. NonceTypeOK'
  <2>1. t \in (-Ahead)..(EndOfTime + Ahead)
    BY DEF NonceInv, NonceTypeOK
  <2> QED
    BY <1>1, <1>2, <2>1 DEF NonceInv, NonceTypeOK
<1>4. \A n \in Messages : n # m => message'[n] = message[n]
  BY <1>1 DEF NonceInv, NonceTypeOK
<1>5. message'[m] = [sent |-> TRUE, timestamp |-> t] /\ t <= time + Ahead
  BY <1>1 DEF NonceInv, NonceTypeOK
<1>6. Stamps'
  BY <1>2, <1>4, <1>5 DEF NonceInv, Stamps
<1>7. Handling'
  BY <1>2, <1>4 DEF NonceInv, NonceTypeOK, Handling
<1>8. Remembered'
  BY <1>2, <1>4 DEF NonceInv, Stamps, Remembered, TooLate
<1> QED
  BY <1>3, <1>6, <1>7, <1>8 DEF NonceInv

LEMMA CheckKeeps ==
    ASSUME NEW d \in Deliveries, NEW m \in Messages, NonceInv, CheckTimestamp(d, m)
    PROVE NonceInv'
<1> USE NonceAssumption
<1>1. /\ message[m].sent
      /\ time - message[m].timestamp \in (-Tolerance)..Tolerance
      /\ delivery' = [delivery EXCEPT ![d] = [busy |-> TRUE, of |-> m, checked |-> time]]
      /\ UNCHANGED <<time, message, nonces, counted>>
  BY DEF CheckTimestamp
<1>2. NonceTypeOK'
  BY <1>1 DEF NonceInv, NonceTypeOK
<1>3. Stamps' /\ Remembered'
  BY <1>1 DEF NonceInv, Stamps, Remembered, TooLate
<1>4. Handling'
  <2>1. /\ delivery'[d] = [busy |-> TRUE, of |-> m, checked |-> time]
        /\ \A e \in Deliveries : e # d => delivery'[e] = delivery[e]
    BY <1>1 DEF NonceInv, NonceTypeOK
  <2> QED
    BY <1>1, <2>1 DEF NonceInv, NonceTypeOK, Handling
<1> QED
  BY <1>2, <1>3, <1>4 DEF NonceInv

LEMMA ConsumeKeeps ==
    ASSUME NEW d \in Deliveries, NonceInv, ConsumeNonce(d) PROVE NonceInv'
<1> USE NonceAssumption
<1> DEFINE m == delivery[d].of
<1>1. /\ delivery[d].busy
      /\ delivery' = [delivery EXCEPT ![d].busy = FALSE]
      /\ UNCHANGED <<time, message>>
  BY DEF ConsumeNonce
<1>2. m \in Messages /\ time \in Nat /\ nonces[m] \in Int /\ message[m].timestamp \in Int
      /\ counted[m] \in Nat /\ delivery[d].checked \in Nat
  BY DEF NonceInv, NonceTypeOK
<1>3. \A e \in Deliveries : delivery'[e].busy => delivery'[e] = delivery[e]
  BY <1>1 DEF NonceInv, NonceTypeOK
<1>4. Handling'
  BY <1>1, <1>3 DEF NonceInv, Handling
<1>5. delivery' \in [Deliveries -> [busy : BOOLEAN, of : Messages, checked : 0..EndOfTime]]
  BY <1>1 DEF NonceInv, NonceTypeOK
<1>6. CASE nonces[m] # Unknown
  <2>1. UNCHANGED <<nonces, counted>>
    BY <1>6 DEF ConsumeNonce
  <2> QED
    BY <1>1, <1>4, <1>5, <2>1 DEF NonceInv, NonceTypeOK, Stamps, Remembered, TooLate
<1>7. CASE nonces[m] = Unknown
  <2>1. /\ nonces' = [nonces EXCEPT ![m] = time + Keep]
        /\ counted' = [counted EXCEPT ![m] = @ + 1]
    BY <1>7 DEF ConsumeNonce, ExpiresAt
  <2>2. message[m].sent /\ time <= TooLate(m)
    BY <1>1, <1>2 DEF NonceInv, Handling, TooLate
  <2>3. counted[m] = 0
    BY <1>2, <1>7, <2>2 DEF NonceInv, Remembered, TooLate
  <2>4. time + Keep > TooLate(m) /\ time + Keep # Unknown
    BY <1>2, <2>2 DEF NonceInv, Stamps, TooLate, Unknown
  <2>5. /\ nonces'[m] = time + Keep /\ counted'[m] = 1
        /\ \A n \in Messages : n # m => nonces'[n] = nonces[n] /\ counted'[n] = counted[n]
    BY <1>2, <2>1, <2>3 DEF NonceInv, NonceTypeOK
  <2>6. NonceTypeOK'
    BY <1>1, <1>2, <1>5, <2>1 DEF NonceInv, NonceTypeOK
  <2>7. Stamps'
    BY <1>1, <2>2, <2>5 DEF NonceInv, Stamps
  <2>8. Remembered'
    BY <1>1, <2>4, <2>5 DEF NonceInv, Remembered, TooLate
  <2> QED
    BY <1>4, <2>6, <2>7, <2>8 DEF NonceInv
<1> QED
  BY <1>6, <1>7

LEMMA RefusedKeeps ==
    ASSUME NEW d \in Deliveries, NonceInv, DeliveryRefused(d) PROVE NonceInv'
<1>1. /\ delivery' = [delivery EXCEPT ![d].busy = FALSE]
      /\ UNCHANGED <<time, message, nonces, counted>>
  BY DEF DeliveryRefused
<1>2. \A e \in Deliveries : delivery'[e].busy => delivery'[e] = delivery[e]
  BY <1>1 DEF NonceInv, NonceTypeOK
<1>3. NonceTypeOK'
  BY <1>1 DEF NonceInv, NonceTypeOK
<1> QED
  BY <1>1, <1>2, <1>3 DEF NonceInv, Stamps, Handling, Remembered, TooLate

\* A nonce that is forgotten has expired, so that it is too late for its request.
LEMMA ForgetKeeps == ASSUME NonceInv, ForgetNonces PROVE NonceInv'
<1> USE NonceAssumption
<1>1. /\ nonces' = [m \in Messages |-> IF nonces[m] <= time THEN Unknown ELSE nonces[m]]
      /\ UNCHANGED <<time, message, delivery, counted>>
  BY DEF ForgetNonces
<1>2. NonceTypeOK'
  BY <1>1 DEF NonceInv, NonceTypeOK, Unknown
<1>3. Stamps' /\ Handling'
  BY <1>1 DEF NonceInv, Stamps, Handling
<1>4. Remembered'
  <2> SUFFICES ASSUME NEW m \in Messages, counted[m] = 1
               PROVE  \/ nonces'[m] # Unknown /\ nonces'[m] > TooLate(m)
                      \/ nonces'[m] = Unknown /\ time > TooLate(m)
    BY <1>1 DEF NonceInv, Remembered, TooLate
  <2>1. /\ nonces[m] \in Int /\ time \in Int
        /\ message[m].timestamp \in Int
    BY DEF NonceInv, NonceTypeOK
  <2>2. nonces'[m] = IF nonces[m] <= time THEN Unknown ELSE nonces[m]
    BY <1>1
  <2>3. \/ nonces[m] # Unknown /\ nonces[m] > TooLate(m)
        \/ nonces[m] = Unknown /\ time > TooLate(m)
    BY DEF NonceInv, Remembered
  <2> QED
    BY <2>1, <2>2, <2>3 DEF TooLate, Unknown
<1> QED
  BY <1>2, <1>3, <1>4 DEF NonceInv

LEMMA TickKeeps == ASSUME NonceInv, NonceTick PROVE NonceInv'
<1> USE NonceAssumption
<1>1. /\ time < EndOfTime /\ time' = time + 1
      /\ \A d \in Deliveries : delivery[d].busy => time < delivery[d].checked + HandlerDelay
      /\ UNCHANGED <<message, delivery, nonces, counted>>
  BY DEF NonceTick
<1>2. NonceTypeOK'
  BY <1>1 DEF NonceInv, NonceTypeOK
<1>3. Stamps'
  BY <1>1 DEF NonceInv, NonceTypeOK, Stamps
<1>4. Handling'
  BY <1>1 DEF NonceInv, NonceTypeOK, Handling
<1>5. Remembered'
  BY <1>1 DEF NonceInv, NonceTypeOK, Remembered, TooLate
<1> QED
  BY <1>2, <1>3, <1>4, <1>5 DEF NonceInv

-----------------------------------------------------------------------------
LEMMA NonceInductive == NonceInv /\ [NonceNext]_nonceVars => NonceInv'
<1> SUFFICES ASSUME NonceInv, [NonceNext]_nonceVars PROVE NonceInv'
  OBVIOUS
<1>1. ASSUME NEW m \in Messages, Send(m) PROVE NonceInv'
  BY <1>1, SendKeeps
<1>2. ASSUME NEW d \in Deliveries, NEW m \in Messages, CheckTimestamp(d, m) PROVE NonceInv'
  BY <1>2, CheckKeeps
<1>3. ASSUME NEW d \in Deliveries, ConsumeNonce(d) PROVE NonceInv'
  BY <1>3, ConsumeKeeps
<1>4. ASSUME NEW d \in Deliveries, DeliveryRefused(d) PROVE NonceInv'
  BY <1>4, RefusedKeeps
<1>5. CASE ForgetNonces
  BY <1>5, ForgetKeeps
<1>6. CASE NonceTick
  BY <1>6, TickKeeps
<1>7. CASE UNCHANGED nonceVars
  BY <1>7 DEF nonceVars, NonceInv, NonceTypeOK, Stamps, Handling, Remembered, TooLate
<1> QED
  BY <1>1, <1>2, <1>3, <1>4, <1>5, <1>6, <1>7 DEF NonceNext

LEMMA NonceInvariant == NonceSpec => []NonceInv
<1> QED
  BY NonceInitial, NonceInductive, PTL DEF NonceSpec

\* A report is counted once, however often it is delivered: for every number of
\* requests, deliveries and handlers, and for every intervals for which the
\* difference between the life of a nonce and the tolerance is more than the
\* clocks are off and a handler needs (VerifySiteSignature).
THEOREM CountedOnlyOnce == NonceSpec => []CountedOnce
<1>1. NonceInv => CountedOnce
  BY DEF NonceInv, Remembered, CountedOnce
<1> QED
  BY <1>1, NonceInvariant, PTL

-----------------------------------------------------------------------------
(* Totals.                                                                 *)

\* No cycle or report is of a day to come, and one of today has counted today.
DatesOK ==
    /\ reporter.today <= app.day
    /\ \A r \in sent : /\ r.date <= app.day
                       /\ r.date = app.day => r.calls <= app.calls

\* A day to come has no row.
NoRowsAhead == \A d \in Days : d > app.day => daily[d] = NoCalls

ReportInv == ReportTypeOK /\ DatesOK /\ NoRowsAhead /\ TodayIsNotOvercounted

LEMMA ReportInitial == ReportInit => ReportInv
<1> SUFFICES ASSUME ReportInit PROVE ReportInv
  OBVIOUS
<1> USE ReportAssumption DEF Days, Counts, NoCalls
<1>1. PICK first \in Revisions : app = [day |-> 0, calls |-> 0, revision |-> first]
  BY DEF ReportInit
<1>2. app \in Application /\ app.day = 0 /\ app.calls = 0
  BY <1>1 DEF Application
<1>3. /\ shown \in [calls : Counts, revision : Revisions \cup {NoRevision}]
      /\ reporter \in Cycle /\ reporter.today = 0
      /\ sent = {} /\ failed = 0
      /\ daily \in [Days -> Counts] /\ \A d \in Days : daily[d] = NoCalls
  BY DEF ReportInit, Cycle
<1> QED
  BY <1>2, <1>3
     DEF ReportInv, ReportTypeOK, DatesOK, NoRowsAhead, TodayIsNotOvercounted

\* The application: calls are only added, and at midnight there is no row yet.
LEMMA ApplicationKeeps ==
    ASSUME ReportInv, CallMade \/ Midnight \/ EditChannels PROVE ReportInv'
<1> USE ReportAssumption DEF Days, Counts, NoCalls
<1>1. app \in Application /\ UNCHANGED <<reporter, sent, daily, failed, shown>>
  BY DEF ReportInv, ReportTypeOK, CallMade, Midnight, EditChannels
<1>2. /\ app' \in Application
      /\ \/ app'.day = app.day /\ app'.calls >= app.calls
         \/ app'.day = app.day + 1 /\ app'.day \in Days
  <2>1. CASE CallMade
    BY <1>1, <2>1 DEF CallMade, Application
  <2>2. CASE Midnight
    <3>1. app.day \in 0..LastDay /\ app.day < LastDay /\ app.revision \in Revisions
      BY <1>1, <2>2 DEF Midnight, Application
    <3>2. app.day + 1 \in 0..LastDay /\ 0 \in 0..MaxCalls
      BY <3>1
    <3>3. app' = [day |-> app.day + 1, calls |-> 0, revision |-> app.revision]
      BY <1>1, <2>2 DEF Midnight, Application
    <3> QED
      BY <3>1, <3>2, <3>3 DEF Application
  <2>3. CASE EditChannels
    BY <1>1, <2>3 DEF EditChannels, Application
  <2> QED
    BY <2>1, <2>2, <2>3
<1>3. ReportTypeOK'
  BY <1>1, <1>2 DEF ReportInv, ReportTypeOK
<1>4. app.day \in Nat /\ app.calls \in Nat /\ app'.day \in Nat /\ app'.calls \in Nat
  BY <1>1, <1>2 DEF Application
<1>5. reporter.today \in Nat /\ \A r \in sent : r.date \in Nat /\ r.calls \in Nat
  BY DEF ReportInv, ReportTypeOK, Cycle, Report
<1>6. DatesOK'
  BY <1>1, <1>2, <1>4, <1>5 DEF ReportInv, DatesOK
<1>7. NoRowsAhead'
  BY <1>1, <1>2, <1>4 DEF ReportInv, NoRowsAhead
<1>8. TodayIsNotOvercounted'
  <2>1. CASE app'.day = app.day /\ app'.calls >= app.calls
    <3>1. daily[app.day] \in Int
      BY <1>1 DEF ReportInv, ReportTypeOK, Application
    <3> QED
      BY <1>1, <1>4, <2>1, <3>1 DEF ReportInv, TodayIsNotOvercounted
  <2>2. CASE app'.day = app.day + 1 /\ app'.day \in Days
    <3>1. daily[app'.day] = NoCalls
      BY <1>4, <2>2 DEF ReportInv, NoRowsAhead
    <3> QED
      BY <1>1, <1>4, <3>1 DEF TodayIsNotOvercounted
  <2> QED
    BY <1>2, <2>1, <2>2
<1> QED
  BY <1>3, <1>6, <1>7, <1>8 DEF ReportInv

\* The reporter: what it sends is dated when its cycle began.
LEMMA ReporterKeeps ==
    ASSUME ReportInv, UNCHANGED <<app, daily, shown>>,
           failed' \in 0..MaxFailures, reporter' \in Cycle,
           reporter'.today \in {reporter.today, app.day},
           \A r \in sent' :
               /\ r \in Report
               /\ \/ r.date = reporter.today /\ r.calls = app.calls
                  \/ \E s \in sent : r.date = s.date /\ r.calls = s.calls
    PROVE  ReportInv'
<1>1. app.day \in Nat /\ app.calls \in Nat /\ reporter.today \in Nat
  BY ReportAssumption DEF ReportInv, ReportTypeOK, Application, Cycle, Days
<1>2. ReportTypeOK'
  BY DEF ReportInv, ReportTypeOK
<1>3. DatesOK'
  BY <1>1 DEF ReportInv, DatesOK
<1> QED
  BY <1>2, <1>3 DEF ReportInv, NoRowsAhead, TodayIsNotOvercounted

LEMMA ReporterSteps ==
    ASSUME ReportInv,
           \/ StartReporter \/ StopReporter \/ BeginCycle \/ HeartbeatSent \/ CycleFails
           \/ \E kind \in {"metrics", "channels"} : SendReport(kind)
           \/ \E r \in sent : LateLost(r)
    PROVE  ReportInv'
<1> USE ReportAssumption
<1>1. /\ app \in Application /\ reporter \in Cycle
      /\ sent \subseteq Report /\ failed \in 0..MaxFailures
  BY DEF ReportInv, ReportTypeOK
<1>2. CASE StartReporter \/ StopReporter \/ BeginCycle \/ HeartbeatSent
  <2>1. /\ UNCHANGED <<app, sent, daily, failed, shown>>
        /\ reporter' \in Cycle /\ reporter'.today \in {reporter.today, app.day}
    BY <1>1, <1>2
       DEF StartReporter, StopReporter, BeginCycle, HeartbeatSent, Cycle, Application
  <2> QED
    BY <1>1, <2>1, ReporterKeeps
<1>3. CASE CycleFails
  <2>1. PICK late \in SUBSET sent : sent' = {[r EXCEPT !.awaited = FALSE] : r \in late}
    BY <1>3 DEF CycleFails
  <2>2. /\ UNCHANGED <<app, daily, shown>> /\ failed' \in 0..MaxFailures
        /\ reporter' \in Cycle /\ reporter'.today = reporter.today
    BY <1>1, <1>3 DEF CycleFails, Cycle
  <2>3. \A r \in sent' : r \in Report /\ \E s \in sent : r.date = s.date /\ r.calls = s.calls
    <3> SUFFICES ASSUME NEW r \in sent'
                 PROVE  r \in Report /\ \E s \in sent : r.date = s.date /\ r.calls = s.calls
      OBVIOUS
    <3>1. PICK s \in late : r = [s EXCEPT !.awaited = FALSE]
      BY <2>1
    <3>2. s \in sent /\ s \in Report
      BY <1>1
    <3>3. r \in Report /\ r.date = s.date /\ r.calls = s.calls
      BY <3>1, <3>2 DEF Report
    <3> QED
      BY <3>2, <3>3
  <2> QED
    BY <2>2, <2>3, ReporterKeeps
<1>4. ASSUME NEW kind \in {"metrics", "channels"}, SendReport(kind) PROVE ReportInv'
  <2> DEFINE new == [kind |-> kind, awaited |-> TRUE, date |-> reporter.today,
                     calls |-> app.calls, revision |-> app.revision]
  <2>1. sent' = sent \cup {new} /\ UNCHANGED <<app, reporter, daily, failed, shown>>
    BY <1>4 DEF SendReport
  <2>2. new \in Report
    BY <1>1 DEF Report, Application, Cycle
  <2>3. new.date = reporter.today /\ new.calls = app.calls
    OBVIOUS
  <2> HIDE DEF new
  <2> QED
    BY <1>1, <2>1, <2>2, <2>3, ReporterKeeps
<1>5. ASSUME NEW r \in sent, LateLost(r) PROVE ReportInv'
  <2>1. sent' = sent \ {r} /\ UNCHANGED <<app, reporter, daily, failed, shown>>
    BY <1>5 DEF LateLost
  <2> QED
    BY <1>1, <2>1, ReporterKeeps
<1> QED
  BY <1>2, <1>3, <1>4, <1>5

\* A row is written: it is today's only if the report is.
LEMMA AcceptKeeps == ASSUME ReportInv, NEW r \in sent, Accept(r) PROVE ReportInv'
<1> USE ReportAssumption
<1>1. /\ r \in Report /\ sent \subseteq Report /\ app \in Application /\ reporter \in Cycle
      /\ shown \in [calls : Counts, revision : Revisions \cup {NoRevision}]
      /\ daily \in [Days -> Counts]
  BY DEF ReportInv, ReportTypeOK
<1>2. sent' = sent \ {r} /\ UNCHANGED <<app, failed>>
  BY DEF Accept
<1>3. reporter' \in Cycle /\ reporter'.today = reporter.today
  BY <1>1 DEF Accept, Cycle, NextStep
<1>4. r.calls \in Counts /\ r.date \in Days /\ r.revision \in Revisions
  BY <1>1 DEF Report, Counts, NoCalls
<1>5. shown' \in [calls : Counts, revision : Revisions \cup {NoRevision}]
  <2>1. shown' \in {[shown EXCEPT !.calls = r.calls], [shown EXCEPT !.revision = r.revision]}
    BY DEF Accept, Record
  <2> QED
    BY <1>1, <1>4, <2>1
<1>6. daily' = daily \/ daily' = [daily EXCEPT ![r.date] = r.calls]
  BY DEF Accept, Record, MetricDate
<1>7. ReportTypeOK'
  BY <1>1, <1>2, <1>3, <1>4, <1>5, <1>6 DEF ReportInv, ReportTypeOK
<1>8. DatesOK'
  BY <1>2, <1>3 DEF ReportInv, DatesOK
<1>9. r.date <= app.day /\ (r.date = app.day => r.calls <= app.calls)
  BY DEF ReportInv, DatesOK
<1>10. app.day \in Days /\ app.day \in Int /\ r.date \in Int
  BY <1>1, <1>4 DEF Application, Days
<1>11. NoRowsAhead'
  BY <1>1, <1>2, <1>6, <1>9, <1>10 DEF ReportInv, NoRowsAhead, Days
<1>12. TodayIsNotOvercounted'
  BY <1>1, <1>2, <1>6, <1>9, <1>10 DEF ReportInv, TodayIsNotOvercounted
<1> QED
  BY <1>7, <1>8, <1>11, <1>12 DEF ReportInv

LEMMA ReportInductive == ReportInv /\ [ReportNext]_reportVars => ReportInv'
<1> SUFFICES ASSUME ReportInv, [ReportNext]_reportVars PROVE ReportInv'
  OBVIOUS
<1>1. CASE UNCHANGED reportVars
  BY <1>1 DEF reportVars, ReportInv, ReportTypeOK, DatesOK, NoRowsAhead, TodayIsNotOvercounted
<1> QED
  BY <1>1, ApplicationKeeps, ReporterSteps, AcceptKeeps DEF ReportNext

\* What the site reports keeps its shape.
THEOREM ReportsKeepTheirShape == ReportSpec => []ReportTypeOK
<1>1. ReportInv => ReportTypeOK
  BY DEF ReportInv
<1> QED
  BY <1>1, ReportInitial, ReportInductive, PTL DEF ReportSpec

\* The total that the dashboard shows for the day that goes on is never more than
\* the calls made, for every number of days, calls, failed cycles and requests
\* that come late, out of order or over midnight (report, Metrics).
THEOREM TodayIsRight == ReportSpec => []TodayIsNotOvercounted
<1>1. ReportInv => TodayIsNotOvercounted
  BY DEF ReportInv
<1> QED
  BY <1>1, ReportInitial, ReportInductive, PTL DEF ReportSpec

-----------------------------------------------------------------------------
(* The total of a day gets smaller in two cases only.                      *)

\* The calls of a report are counted on the day that it is dated.
CountsOfItsDay == SendReport("metrics") => reporter.today = app.day

\* A report is sent only when that before it has arrived, or is lost.
InTurn == \A r, s \in sent : r.kind = "metrics" /\ s.kind = "metrics" => r = s

\* What is under way has counted no less than what its row says.
NotBehind == \A r \in sent : r.kind = "metrics" => daily[r.date] <= r.calls

LEMMA NotBehindStep ==
    ASSUME ReportInv, NotBehind, InTurn, CountsOfItsDay, [ReportNext]_reportVars
    PROVE  NotBehind'
<1>1. /\ app \in Application /\ reporter \in Cycle /\ sent \subseteq Report
      /\ daily \in [Days -> Counts]
  BY DEF ReportInv, ReportTypeOK
<1>2. CASE UNCHANGED <<sent, daily>>
  BY <1>2 DEF NotBehind
<1>3. ASSUME NEW kind \in {"metrics", "channels"}, SendReport(kind) PROVE NotBehind'
  <2> DEFINE new == [kind |-> kind, awaited |-> TRUE, date |-> reporter.today,
                     calls |-> app.calls, revision |-> app.revision]
  <2>1. sent' = sent \cup {new} /\ daily' = daily
    BY <1>3 DEF SendReport
  <2>2. kind = "metrics" => daily[new.date] <= new.calls
    BY <1>3 DEF CountsOfItsDay, ReportInv, TodayIsNotOvercounted
  <2>3. new.kind = kind
    OBVIOUS
  <2> HIDE DEF new
  <2> QED
    BY <2>1, <2>2, <2>3 DEF NotBehind
<1>4. CASE CycleFails
  <2>1. PICK late \in SUBSET sent : sent' = {[r EXCEPT !.awaited = FALSE] : r \in late}
    BY <1>4 DEF CycleFails
  <2>2. ASSUME NEW r \in sent'
        PROVE  \E s \in sent : r.kind = s.kind /\ r.date = s.date /\ r.calls = s.calls
    <3>1. PICK s \in late : r = [s EXCEPT !.awaited = FALSE]
      BY <2>1, <2>2
    <3>2. s \in sent /\ s \in Report
      BY <1>1
    <3> QED
      BY <3>1, <3>2 DEF Report
  <2>3. daily' = daily
    BY <1>4 DEF CycleFails
  <2> QED
    BY <2>2, <2>3 DEF NotBehind
<1>5. ASSUME NEW r \in sent, Accept(r) PROVE NotBehind'
  <2>1. sent' = sent \ {r}
    BY <1>5 DEF Accept
  <2>2. CASE r.kind = "metrics"
    BY <2>1, <2>2 DEF InTurn, NotBehind
  <2>3. CASE r.kind # "metrics"
    BY <1>5, <2>1, <2>3 DEF Accept, Record, NotBehind
  <2> QED
    BY <2>2, <2>3
<1>6. ASSUME NEW r \in sent, LateLost(r) PROVE NotBehind'
  BY <1>6 DEF LateLost, NotBehind
<1>7. CallMade \/ Midnight \/ EditChannels \/ StartReporter \/ StopReporter \/ BeginCycle
        \/ HeartbeatSent \/ UNCHANGED reportVars => UNCHANGED <<sent, daily>>
  BY DEF CallMade, Midnight, EditChannels, StartReporter, StopReporter, BeginCycle,
         HeartbeatSent, reportVars
<1> QED
  BY <1>2, <1>3, <1>4, <1>5, <1>6, <1>7 DEF ReportNext

LEMMA TotalStep ==
    ASSUME ReportInv, NotBehind, [ReportNext]_reportVars
    PROVE  \A d \in Days : daily'[d] >= daily[d]
<1>1. daily \in [Days -> Counts] /\ \A d \in Days : daily[d] \in Int
  BY ReportAssumption DEF ReportInv, ReportTypeOK, Counts, NoCalls
<1>2. CASE UNCHANGED daily
  BY <1>1, <1>2
<1>3. ASSUME NEW r \in sent, Accept(r), ~ UNCHANGED daily
      PROVE  \A d \in Days : daily'[d] >= daily[d]
  <2>1. r.kind = "metrics" /\ daily' = [daily EXCEPT ![r.date] = r.calls]
    BY <1>3 DEF Accept, Record, MetricDate
  <2>2. daily[r.date] <= r.calls /\ r.calls \in Int
    BY <2>1 DEF NotBehind, ReportInv, ReportTypeOK, Report
  <2> QED
    BY <1>1, <2>1, <2>2
<1> QED
  BY <1>2, <1>3 DEF ReportNext, CallMade, Midnight, EditChannels, StartReporter, StopReporter,
     BeginCycle, HeartbeatSent, CycleFails, SendReport, LateLost, reportVars

\* Of reports that count on the day they are dated and arrive in turn no total ever
\* gets smaller: what MetricReportsDaily refutes takes a cycle that runs over
\* midnight, or a request that is overtaken by that of a later cycle.
THEOREM TotalsStandInTurn ==
    ReportSpec /\ []InTurn /\ [][CountsOfItsDay]_reportVars => DailyTotalStands
<1>1. ReportInit => NotBehind
  BY DEF ReportInit, NotBehind
<1>2. ReportInv /\ NotBehind /\ InTurn /\ [ReportNext]_reportVars
      /\ [CountsOfItsDay]_reportVars => NotBehind'
  <2> SUFFICES ASSUME ReportInv, NotBehind, InTurn, [ReportNext]_reportVars,
                      [CountsOfItsDay]_reportVars
               PROVE  NotBehind'
    OBVIOUS
  <2>1. CASE UNCHANGED reportVars
    BY <2>1 DEF reportVars, NotBehind
  <2> QED
    BY <2>1, NotBehindStep
<1>3. ReportInv /\ NotBehind /\ [ReportNext]_reportVars =>
          [\A d \in Days : daily'[d] >= daily[d]]_reportVars
  BY TotalStep
<1> QED
  BY <1>1, <1>2, <1>3, ReportInitial, ReportInductive, PTL DEF ReportSpec, DailyTotalStands
=============================================================================
