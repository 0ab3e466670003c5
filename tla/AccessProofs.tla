---------------------------- MODULE AccessProofs -----------------------------
(***************************************************************************)
(* Passwords, guesses and requests: the proofs of OnePassword and          *)
(* AdminCanLogIn of SiteSecrets, of GuessesBounded of AdminLogin, and of   *)
(* TwoWindowsAtMost and RefusedForReason of RateLimit, for all numbers of  *)
(* attempts, logins, addresses and goroutines, all limits and windows.     *)
(*                                                                         *)
(* The argument for passwords: ON CONFLICT DO NOTHING makes the first      *)
(* database password final, and an attempt only ever goes on with what it  *)
(* has read back, so whatever it places is the one in the table. The       *)
(* chosen password leaves the table with the closing transaction alone; an *)
(* attempt that draws another one after that does not get past its next    *)
(* advance.                                                                *)
(*                                                                         *)
(* The argument for guesses: a request gets past the count only below the  *)
(* limit, when the sum of what is recorded and what is under way is at     *)
(* most FailureLimit - 1 and the requests that may be under way; recording *)
(* moves one unit from the second to the first.                            *)
(*                                                                         *)
(* The argument for requests: the answers to an address fall into buckets, *)
(* one after the other. A bucket lets at most Limit of them through        *)
(* (FewPassed). A bucket is replaced, or purged, only when a clock has     *)
(* passed its resetAt, so what the bucket before it had answered is by     *)
(* then further back than a window less the delay of a goroutine (Past,    *)
(* Apart): no span of that length meets three buckets.                     *)
(***************************************************************************)
EXTENDS SiteSecrets, AdminLogin, RateLimit, FiniteSetTheorems, TLAPS

-----------------------------------------------------------------------------
(* Passwords.                                                              *)

\* An attempt with a database password has the one that is stored.
ReadBack ==
    \A a \in Attempts : attempt[a].has["database"] \in {NoPassword, secret["database"]}

\* Until the job is completed the password of the visitor is stored, and no
\* attempt has another one.
ChosenIsKept ==
    ~completed => /\ secret["bootstrap"] = Chosen
                  /\ \A a \in Attempts : attempt[a].has["bootstrap"] \in {NoPassword, Chosen}

\* Steps behind the first advance after ensureCredentials.
Behind == {"renderSite", "up", "status", "register", "login", "complete"}

\* An attempt that hands passwords on has them all, and past the first advance
\* the password of the administrator is the chosen one.
HasChosen ==
    \A a \in Attempts :
        /\ attempt[a].at = "ensureDatabase" => attempt[a].has["bootstrap"] # NoPassword
        /\ attempt[a].at \in Behind => attempt[a].has["bootstrap"] = Chosen

AdminIsChosen == placed["admin"] \in {NoPassword, Chosen}

SecretsInv ==
    SecretsTypeOK /\ OnePassword /\ ReadBack /\ ChosenIsKept /\ HasChosen /\ AdminIsChosen

-----------------------------------------------------------------------------
LEMMA SecretsInitial == SecretsInit => SecretsInv
<1> USE SecretsAssumption
<1> SUFFICES ASSUME SecretsInit PROVE SecretsInv
  OBVIOUS
<1>1. SecretsTypeOK
  <2>1. NoPassword \in Passwords /\ Chosen \in Passwords
    BY DEF Passwords
  <2>2. secret \in [Kinds -> Passwords]
    BY <2>1, Zenon DEF SecretsInit
  <2>3. placed \in [Places -> Passwords]
    BY <2>1 DEF SecretsInit
  <2>4. [at |-> "idle", has |-> [k \in Kinds |-> NoPassword]] \in Execution
    BY <2>1 DEF Execution
  <2>5. attempt \in [Attempts -> Execution]
    BY <2>4 DEF SecretsInit
  <2>6. holder \in 0..MaxAttemptNo
    BY DEF SecretsInit
  <2>7. completed \in BOOLEAN
    BY Zenon DEF SecretsInit
  <2> QED
    BY <2>2, <2>3, <2>5, <2>6, <2>7 DEF SecretsTypeOK
<1>2. OnePassword /\ AdminIsChosen
  BY DEF SecretsInit, OnePassword, AdminIsChosen, Places
<1>3. ReadBack /\ ChosenIsKept /\ HasChosen
  BY DEF SecretsInit, ReadBack, ChosenIsKept, HasChosen, Kinds, Behind
<1> QED
  BY <1>1, <1>2, <1>3 DEF SecretsInv

\* A step that changes no password and moves one attempt, not past an advance.
MovesOn(a) ==
    /\ UNCHANGED <<secret, placed, completed>>
    /\ holder' \in 0..MaxAttemptNo
    /\ attempt' \in [Attempts -> Execution]
    /\ \A b \in Attempts : b # a => attempt'[b] = attempt[b]
    /\ attempt'[a].has = attempt[a].has
    /\ attempt'[a].at \in Behind => attempt[a].at \in Behind
    /\ attempt'[a].at # "ensureDatabase"

LEMMA MoveKeeps == ASSUME SecretsInv, NEW a \in Attempts, MovesOn(a) PROVE SecretsInv'
<1> USE DEF SecretsInv, MovesOn
<1>1. SecretsTypeOK' /\ OnePassword' /\ AdminIsChosen'
  BY DEF SecretsTypeOK, OnePassword, AdminIsChosen
<1>2. ReadBack'
  BY DEF ReadBack
<1>3. ChosenIsKept'
  BY DEF ChosenIsKept
<1>4. HasChosen'
  BY DEF HasChosen
<1> QED
  BY <1>1, <1>2, <1>3, <1>4

\* What Got makes of an attempt that has read the password of its kind.
LEMMA GotKeeps ==
    ASSUME SecretsInv, NEW a \in Attempts,
           attempt[a].at \in {"read", "reread"},
           attempt' = [attempt EXCEPT ![a] = Got(a, secret[Kind(a)])],
           UNCHANGED <<secret, placed, holder, completed>>
    PROVE  SecretsInv'
<1> USE SecretsAssumption DEF SecretsInv
<1>1. /\ attempt[a] \in Execution /\ secret \in [Kinds -> Passwords]
      /\ Kind(a) \in Kinds
  BY DEF SecretsTypeOK, Kind, Kinds
<1>2. Got(a, secret[Kind(a)]) \in Execution
  BY <1>1 DEF Got, Execution, Kinds, Passwords
<1>3. /\ attempt'[a] = Got(a, secret[Kind(a)])
      /\ \A b \in Attempts : b # a => attempt'[b] = attempt[b]
  BY DEF SecretsTypeOK
<1>4. SecretsTypeOK' /\ OnePassword' /\ AdminIsChosen'
  BY <1>2 DEF SecretsTypeOK, OnePassword, AdminIsChosen
<1>5. CASE Kind(a) = "database"
  <2>1. /\ attempt'[a].has["database"] = secret["database"]
        /\ attempt'[a].has["bootstrap"] = attempt[a].has["bootstrap"]
        /\ attempt'[a].at \in {"over", "read"}
    BY <1>1, <1>3, <1>5 DEF Got, Execution, Kinds
  <2>2. ReadBack'
    BY <2>1, <1>3 DEF ReadBack
  <2>3. ChosenIsKept' /\ HasChosen'
    BY <2>1, <1>3 DEF ChosenIsKept, HasChosen, Behind
  <2> QED
    BY <1>4, <2>2, <2>3
<1>6. CASE Kind(a) = "bootstrap"
  <2>1. /\ attempt'[a].has["database"] = attempt[a].has["database"]
        /\ attempt'[a].has["bootstrap"] = secret["bootstrap"]
        /\ \/ attempt'[a].at = "over"
           \/ attempt'[a].at = "ensureDatabase" /\ secret["bootstrap"] # NoPassword
    BY <1>1, <1>3, <1>6 DEF Got, Execution, Kinds
  <2>2. ReadBack'
    BY <2>1, <1>3 DEF ReadBack
  <2>3. ChosenIsKept'
    BY <2>1, <1>3 DEF ChosenIsKept
  <2>4. HasChosen'
    BY <2>1, <1>3 DEF HasChosen, Behind
  <2> QED
    BY <1>4, <2>2, <2>3, <2>4
<1> QED
  BY <1>5, <1>6 DEF Kind

\* The first password is final: what is stored is never replaced, except that
\* of the administrator once the job is completed.
LEMMA InsertKeeps == ASSUME SecretsInv, NEW a \in Attempts, InsertSecret(a) PROVE SecretsInv'
<1> USE SecretsAssumption DEF SecretsInv
<1> DEFINE k == Kind(a)
<1>1. /\ k \in Kinds
      /\ secret' = [secret EXCEPT ![k] = IF secret[k] = NoPassword THEN a ELSE secret[k]]
      /\ attempt' = [attempt EXCEPT ![a].at = "reread"]
      /\ UNCHANGED <<placed, holder, completed>>
  BY DEF InsertSecret, Kind, Kinds
<1>2. SecretsTypeOK'
  BY <1>1 DEF SecretsTypeOK, Passwords, Execution
<1>3. /\ \A b \in Attempts : attempt'[b].has = attempt[b].has
      /\ \A b \in Attempts : attempt'[b].at \in {attempt[b].at, "reread"}
  BY <1>1 DEF SecretsTypeOK, Execution
<1>4. secret["database"] # NoPassword => secret'["database"] = secret["database"]
  BY <1>1 DEF SecretsTypeOK, Kinds
<1>5. secret["bootstrap"] # NoPassword => secret'["bootstrap"] = secret["bootstrap"]
  BY <1>1 DEF SecretsTypeOK, Kinds
<1>6. OnePassword' /\ AdminIsChosen'
  BY <1>1, <1>4 DEF OnePassword, AdminIsChosen
<1>7. ReadBack'
  BY <1>3, <1>4 DEF ReadBack
<1>8. ChosenIsKept'
  BY <1>1, <1>3, <1>5 DEF ChosenIsKept
<1>9. HasChosen'
  BY <1>3 DEF HasChosen, Behind
<1> QED
  BY <1>2, <1>6, <1>7, <1>8, <1>9

\* A step of runProvision that places the password of attempt a, or nothing,
\* and goes on through advance.
HandsOn(a, p, password, next) ==
    /\ p \in Places /\ password \in Passwords
    /\ p \in {"role", "env", "stack"} => password \in {NoPassword, secret["database"]}
    /\ p = "admin" => password = Chosen
    /\ placed' = [placed EXCEPT ![p] = password]
    /\ attempt[a].at \in Behind \cup {"ensureDatabase"}
    /\ next \in Behind
    /\ Proceed(a, next)
    /\ UNCHANGED <<secret, holder, completed>>

LEMMA PlaceKeeps ==
    ASSUME SecretsInv, NEW a \in Attempts, NEW p, NEW password, NEW next,
           HandsOn(a, p, password, next)
    PROVE  SecretsInv'
<1> USE SecretsAssumption DEF SecretsInv, HandsOn
<1>1. /\ \A b \in Attempts : b # a => attempt'[b] = attempt[b]
      /\ attempt'[a].has = attempt[a].has
      /\ \/ attempt'[a].at = "over"
         \/ attempt'[a].at \in Behind /\ ~completed
  BY DEF Proceed, SecretsTypeOK, Execution
<1>2. SecretsTypeOK'
  <2>1. attempt' \in [Attempts -> Execution]
    BY DEF Proceed, SecretsTypeOK, Execution, Behind
  <2> QED
    BY <2>1 DEF SecretsTypeOK
<1>3. OnePassword' /\ AdminIsChosen'
  BY DEF OnePassword, AdminIsChosen, SecretsTypeOK, Places
<1>4. ReadBack' /\ ChosenIsKept'
  BY <1>1 DEF ReadBack, ChosenIsKept
<1>5. HasChosen'
  <2>1. attempt[a].has["bootstrap"] # NoPassword
    BY DEF HasChosen
  <2>2. ~completed => attempt[a].has["bootstrap"] = Chosen
    BY <2>1 DEF ChosenIsKept
  <2> QED
    BY <1>1, <2>2 DEF HasChosen, Behind
<1> QED
  BY <1>2, <1>3, <1>4, <1>5

LEMMA CompleteKeeps ==
    ASSUME SecretsInv, NEW a \in Attempts, CompleteProvision(a) PROVE SecretsInv'
<1> USE SecretsAssumption DEF SecretsInv
<1>1. /\ completed' = TRUE
      /\ secret' = [secret EXCEPT !["bootstrap"] = NoPassword]
      /\ attempt' = [attempt EXCEPT ![a].at = "over"]
      /\ UNCHANGED <<placed, holder>>
  BY DEF CompleteProvision
<1>2. SecretsTypeOK'
  BY <1>1 DEF SecretsTypeOK, Kinds, Passwords, Execution
<1>3. secret'["database"] = secret["database"]
  BY <1>1 DEF SecretsTypeOK, Kinds
<1>4. \A b \in Attempts : /\ attempt'[b].has = attempt[b].has
                          /\ attempt'[b].at \in {attempt[b].at, "over"}
  BY <1>1 DEF SecretsTypeOK, Execution
<1>5. OnePassword' /\ AdminIsChosen' /\ ReadBack' /\ ChosenIsKept'
  BY <1>1, <1>3, <1>4 DEF OnePassword, AdminIsChosen, ReadBack, ChosenIsKept
<1>6. HasChosen'
  BY <1>4 DEF HasChosen, Behind
<1> QED
  BY <1>2, <1>5, <1>6

-----------------------------------------------------------------------------
LEMMA SecretsInductive == SecretsInv /\ [SecretsNext]_secretVars => SecretsInv'
<1> SUFFICES ASSUME SecretsInv, [SecretsNext]_secretVars PROVE SecretsInv'
  OBVIOUS
<1> USE SecretsAssumption
<1>1. ASSUME NEW a \in Attempts,
             ClaimProvision(a) \/ AttemptEnds(a) \/ InstallStatus(a)
      PROVE  SecretsInv'
  <2>1. MovesOn(a)
    BY <1>1 DEF ClaimProvision, AttemptEnds, InstallStatus, MovesOn, SecretsInv,
                SecretsTypeOK, Execution, Behind, Attempts
  <2> QED
    BY <2>1, MoveKeeps
<1>2. ASSUME NEW a \in Attempts, ReadSecret(a) PROVE SecretsInv'
  <2>1. CASE secret[Kind(a)] = NoPassword
    <3>1. MovesOn(a)
      BY <1>2, <2>1 DEF ReadSecret, MovesOn, SecretsInv, SecretsTypeOK, Execution, Behind
    <3> QED
      BY <3>1, MoveKeeps
  <2>2. CASE secret[Kind(a)] # NoPassword
    BY <1>2, <2>2, GotKeeps DEF ReadSecret
  <2> QED
    BY <2>1, <2>2
<1>3. ASSUME NEW a \in Attempts, InsertSecret(a) PROVE SecretsInv'
  BY <1>3, InsertKeeps
<1>4. ASSUME NEW a \in Attempts, RereadSecret(a) PROVE SecretsInv'
  BY <1>4, GotKeeps DEF RereadSecret
<1>5. ASSUME NEW a \in Attempts, \/ EnsureDatabase(a) \/ RenderSite(a) \/ ComposeUp(a)
                                 \/ Register(a) \/ Login(a)
      PROVE  SecretsInv'
  <2>1. /\ attempt[a].has["database"] \in Passwords
        /\ attempt[a].has["database"] \in {NoPassword, secret["database"]}
        /\ placed["env"] \in Passwords
        /\ placed["env"] \in {NoPassword, secret["database"]}
    BY DEF SecretsInv, SecretsTypeOK, ReadBack, OnePassword, Execution, Kinds, Places
  <2>2. CASE EnsureDatabase(a)
    <3>1. HandsOn(a, "role", attempt[a].has["database"], "renderSite")
      BY <2>1, <2>2 DEF EnsureDatabase, HandsOn, Places, Behind
    <3> QED
      BY <3>1, PlaceKeeps
  <2>3. CASE RenderSite(a)
    <3>1. HandsOn(a, "env", attempt[a].has["database"], "up")
      BY <2>1, <2>3 DEF RenderSite, HandsOn, Places, Behind
    <3> QED
      BY <3>1, PlaceKeeps
  <2>4. CASE ComposeUp(a)
    <3>1. HandsOn(a, "stack", placed["env"], "status")
      BY <2>1, <2>4 DEF ComposeUp, HandsOn, Places, Behind
    <3> QED
      BY <3>1, PlaceKeeps
  <2>5. CASE Register(a)
    <3>1. attempt[a].has["bootstrap"] = Chosen
      BY <2>5 DEF Register, SecretsInv, HasChosen, Behind
    <3>2. HandsOn(a, "admin", Chosen, "complete")
      BY <3>1, <2>5 DEF Register, HandsOn, Places, Passwords, Behind
    <3> QED
      BY <3>2, PlaceKeeps
  <2>6. CASE Login(a)
    <3>1. attempt[a].has["bootstrap"] = Chosen
      BY <2>6 DEF Login, SecretsInv, HasChosen, Behind
    <3>2. placed' = [placed EXCEPT !["admin"] = Chosen]
      BY <3>1, <2>6 DEF Login, SecretsInv, SecretsTypeOK
    <3>3. HandsOn(a, "admin", Chosen, "complete")
      BY <3>2, <2>6 DEF Login, HandsOn, Places, Passwords, Behind
    <3> QED
      BY <3>3, PlaceKeeps
  <2> QED
    BY <1>5, <2>2, <2>3, <2>4, <2>5, <2>6
<1>6. ASSUME NEW a \in Attempts, CompleteProvision(a) PROVE SecretsInv'
  BY <1>6, CompleteKeeps
<1>7. CASE UNCHANGED secretVars
  BY <1>7 DEF secretVars, SecretsInv, SecretsTypeOK, OnePassword, ReadBack, ChosenIsKept,
              HasChosen, AdminIsChosen
<1> QED
  BY <1>1, <1>2, <1>3, <1>4, <1>5, <1>6, <1>7 DEF SecretsNext

LEMMA SecretsInvariant == SecretsSpec => []SecretsInv
<1> QED
  BY SecretsInitial, SecretsInductive, PTL DEF SecretsSpec

\* Role, file and containers never disagree about the password of the database,
\* for any number of attempts that overlap, crash and follow each other.
THEOREM OnePasswordForever == SecretsSpec => []OnePassword
<1>1. SecretsInv => OnePassword
  BY DEF SecretsInv
<1> QED
  BY <1>1, SecretsInvariant, PTL

\* The application's administrator has the chosen password, and as long as the
\* job is not completed the next attempt finds it to log in with.
THEOREM AdminCanAlwaysLogIn == SecretsSpec => []AdminCanLogIn
<1>1. SecretsInv => AdminCanLogIn
  BY DEF SecretsInv, AdminIsChosen, ChosenIsKept, AdminCanLogIn
<1> QED
  BY <1>1, SecretsInvariant, PTL

-----------------------------------------------------------------------------
(* Guesses.                                                                *)

\* The requests that have passed the count and may still record a failure.
Guessing == {l \in Logins : login[l] \in {"verify", "record"}}

LoginShape ==
    /\ failures \in Nat
    /\ login \in [Logins -> {"count", "verify", "record", "grant"}]

LoginInv == LoginShape /\ GuessesBounded

-----------------------------------------------------------------------------
LEMMA GuessingFinite ==
    /\ Cardinality(Logins) \in Nat
    /\ IsFiniteSet(Guessing) /\ Cardinality(Guessing) \in Nat
    /\ Cardinality(Guessing) <= Cardinality(Logins)
<1>1. Guessing \subseteq Logins /\ IsFiniteSet(Logins)
  BY LoginAssumption DEF Guessing
<1> QED
  BY <1>1, FS_Subset, FS_CardinalityType

LEMMA LoginInitial == LoginInit => LoginInv
<1> SUFFICES ASSUME LoginInit PROVE LoginInv
  OBVIOUS
<1>1. LoginShape
  BY DEF LoginInit, LoginShape
<1>2. Cardinality(Guessing) <= Cardinality(Logins) /\ FailureLimit >= 1
  BY GuessingFinite, LoginAssumption
<1>3. GuessesBounded
  BY <1>2, GuessingFinite, LoginAssumption DEF LoginInit, GuessesBounded, Guessing
<1> QED
  BY <1>1, <1>3 DEF LoginInv

-----------------------------------------------------------------------------
\* A request that goes on to the comparison: below the limit there is room for
\* every request that can be under way.
LEMMA CountKeeps == ASSUME LoginInv, NEW l \in Logins, CountFailures(l) PROVE LoginInv'
<1>1. LoginShape' /\ failures' = failures /\ failures \in Nat
  BY DEF LoginInv, LoginShape, CountFailures
<1>2. failures < FailureLimit
  BY <1>1, LoginAssumption DEF CountFailures, Locked
<1>3. Guessing' \subseteq Logins /\ IsFiniteSet(Logins)
  BY LoginAssumption DEF Guessing
<1>4. Cardinality(Guessing') \in Nat /\ Cardinality(Guessing') <= Cardinality(Logins)
  BY <1>3, FS_Subset, FS_CardinalityType
<1>5. GuessesBounded'
  BY <1>1, <1>2, <1>4, GuessingFinite, LoginAssumption DEF GuessesBounded, Guessing
<1> QED
  BY <1>1, <1>5 DEF LoginInv

\* What does not raise the recorded failures and adds no guess.
LEMMA FewerKeeps ==
    ASSUME LoginInv, LoginShape', failures' <= failures, Guessing' \subseteq Guessing
    PROVE  LoginInv'
<1>1. Cardinality(Guessing') <= Cardinality(Guessing) /\ Cardinality(Guessing') \in Nat
  BY GuessingFinite, FS_Subset, FS_CardinalityType
<1>2. GuessesBounded'
  BY <1>1, GuessingFinite, LoginAssumption
     DEF LoginInv, LoginShape, GuessesBounded, Guessing
<1> QED
  BY <1>2 DEF LoginInv

\* Recording a failure ends the guess it belongs to.
LEMMA RecordKeeps == ASSUME LoginInv, NEW l \in Logins, RecordLoginAttempt(l) PROVE LoginInv'
<1>1. /\ LoginShape' /\ failures \in Nat
      /\ failures' <= failures + 1
      /\ l \in Guessing
      /\ Guessing' = Guessing \ {l}
  BY DEF LoginInv, LoginShape, RecordLoginAttempt, Guessing
<1>2. Cardinality(Guessing') = Cardinality(Guessing) - 1
  BY <1>1, GuessingFinite, FS_RemoveElement
<1>3. GuessesBounded'
  BY <1>1, <1>2, GuessingFinite, LoginAssumption
     DEF LoginInv, LoginShape, GuessesBounded, Guessing
<1> QED
  BY <1>1, <1>3 DEF LoginInv

LEMMA LoginInductive == LoginInv /\ [LoginNext]_loginVars => LoginInv'
<1> SUFFICES ASSUME LoginInv, [LoginNext]_loginVars PROVE LoginInv'
  OBVIOUS
<1>1. ASSUME NEW l \in Logins, CountFailures(l) PROVE LoginInv'
  BY <1>1, CountKeeps
<1>2. ASSUME NEW l \in Logins, VerifyPassword(l) PROVE LoginInv'
  <2>1. LoginShape' /\ failures' <= failures /\ Guessing' \subseteq Guessing
    BY <1>2 DEF LoginInv, LoginShape, VerifyPassword, Guessing
  <2> QED
    BY <2>1, FewerKeeps
<1>3. ASSUME NEW l \in Logins, RecordLoginAttempt(l) PROVE LoginInv'
  BY <1>3, RecordKeeps
<1>4. ASSUME NEW l \in Logins, Grant(l) PROVE LoginInv'
  <2>1. LoginShape' /\ failures' <= failures /\ Guessing' \subseteq Guessing
    BY <1>4 DEF LoginInv, LoginShape, Grant, Guessing
  <2> QED
    BY <2>1, FewerKeeps
<1>5. CASE FailureAges
  <2>1. LoginShape' /\ failures' <= failures /\ Guessing' \subseteq Guessing
    BY <1>5 DEF LoginInv, LoginShape, FailureAges, Guessing
  <2> QED
    BY <2>1, FewerKeeps
<1>6. CASE UNCHANGED loginVars
  BY <1>6 DEF loginVars, LoginInv, LoginShape, GuessesBounded
<1> QED
  BY <1>1, <1>2, <1>3, <1>4, <1>5, <1>6 DEF LoginNext, Refuse

\* However the statements of simultaneous logins interleave, no more guesses than
\* the limit and one for each request served at a time get to be compared and
\* recorded (Login, recordLoginAttempt).
THEOREM GuessesAreBounded == LoginSpec => []GuessesBounded
<1>1. LoginInv => GuessesBounded
  BY DEF LoginInv
<1> QED
  BY <1>1, LoginInitial, LoginInductive, PTL DEF LoginSpec

\* The rows and requests of the login keep their shape: the failures of a name
\* never outgrow the limit by more than the requests served at a time.
THEOREM LoginKeepsItsShape == LoginSpec => []LoginTypeOK
<1>1. LoginInv => LoginTypeOK
  BY GuessingFinite, LoginAssumption DEF LoginInv, LoginShape, GuessesBounded, LoginTypeOK, Guessing
<1> QED
  BY <1>1, LoginInitial, LoginInductive, PTL DEF LoginSpec

-----------------------------------------------------------------------------
(* Requests.                                                               *)

\* The answers that one bucket of c has counted, and those it let through.
Of(c, g) == {i \in DOMAIN answers[c] : answers[c][i].bucket = g}
PassedOf(c, g) == {i \in Of(c, g) : answers[c][i].passed}

\* A goroutine waits for the mutex no longer than Stall.
Clocks ==
    \A h \in Handlers :
        waiting[h] # NoRequest => waiting[h].now <= clock /\ clock <= waiting[h].now + Stall

\* The answers are in the order of time and of the buckets.
Ordered(c) ==
    \A i, j \in DOMAIN answers[c] :
        /\ answers[c][i].at <= clock /\ answers[c][i].bucket <= Latest(c)
        /\ i <= j => /\ answers[c][i].at <= answers[c][j].at
                     /\ answers[c][i].bucket <= answers[c][j].bucket

\* The bucket in the map is the latest one, it has counted all its answers, and
\* it began no earlier than it says.
InMap(c) ==
    c \in DOMAIN buckets =>
        /\ answers[c] # <<>>
        /\ buckets[c].count = Cardinality(Of(c, Latest(c)))
        /\ \A i \in Of(c, Latest(c)) : answers[c][i].at + Window >= buckets[c].resetAt

\* What earlier buckets have answered is further back than Window - Stall when
\* the latest one ends, and when it has been purged.
Past(c) ==
    \A i \in DOMAIN answers[c] :
        answers[c][i].bucket < Latest(c) =>
            IF c \in DOMAIN buckets
            THEN answers[c][i].at + Window - Stall <= buckets[c].resetAt
            ELSE answers[c][i].at + Window - Stall < clock

Apart(c) ==
    \A i, j \in DOMAIN answers[c] :
        answers[c][i].bucket + 2 <= answers[c][j].bucket =>
            answers[c][i].at + Window - Stall < answers[c][j].at

FewPassed(c) ==
    \A i \in DOMAIN answers[c] : Cardinality(PassedOf(c, answers[c][i].bucket)) <= Limit

\* What RefusedForReason says of one address.
Reason(c) ==
    \A i \in DOMAIN answers[c] :
        ~answers[c][i].passed =>
            Cardinality(Answered(c, (answers[c][i].at - Window - Stall)..answers[c][i].at))
              > Limit

ClientOK(c) == Ordered(c) /\ InMap(c) /\ Past(c) /\ Apart(c) /\ FewPassed(c) /\ Reason(c)

RateInv == RateTypeOK /\ Clocks /\ \A c \in Clients : ClientOK(c)

-----------------------------------------------------------------------------
USE RateAssumption

LEMMA Numbers ==
    /\ Limit \in Nat /\ Limit >= 1 /\ Window \in Nat /\ Window >= 1
    /\ Stall \in Nat /\ Stall <= Window /\ LastTick \in Nat
OBVIOUS

\* What is further back than the span is so from a later moment.
LEMMA Earlier ==
    \A x, y, z \in Nat :
        /\ x + Window - Stall < y /\ y <= z => x + Window - Stall < z
        /\ x + Window - Stall <= y /\ y < z => x + Window - Stall < z
BY Numbers

\* The answers to one address, and the sets of their places, which are finite.
LEMMA Answers ==
    ASSUME RateTypeOK, NEW c \in Clients
    PROVE  /\ answers[c] \in Seq(Answer) /\ Len(answers[c]) \in Nat
           /\ DOMAIN answers[c] = 1..Len(answers[c])
           /\ \A i \in DOMAIN answers[c] : answers[c][i] \in Answer
           /\ Latest(c) \in Nat /\ clock \in Nat
<1>1. answers[c] \in Seq(Answer) /\ clock \in Nat
  BY DEF RateTypeOK
<1>2. /\ Len(answers[c]) \in Nat /\ DOMAIN answers[c] = 1..Len(answers[c])
      /\ \A i \in DOMAIN answers[c] : answers[c][i] \in Answer
  BY <1>1
<1>3. answers[c] # <<>> => Len(answers[c]) \in DOMAIN answers[c]
  BY <1>1
<1>4. Latest(c) \in Nat
  BY <1>2, <1>3 DEF Latest, Answer
<1> QED
  BY <1>1, <1>2, <1>4

LEMMA PlacesAreFinite ==
    ASSUME RateTypeOK, NEW c \in Clients, NEW S \in SUBSET DOMAIN answers[c]
    PROVE  IsFiniteSet(S) /\ Cardinality(S) \in Nat
<1>1. IsFiniteSet(1..Len(answers[c]))
  <2>1. 1 \in Int /\ Len(answers[c]) \in Int
    BY Answers
  <2> QED
    BY <2>1, FS_Interval
<1>2. IsFiniteSet(S)
  BY <1>1, Answers, FS_Subset
<1> QED
  BY <1>2, FS_CardinalityType

\* Whatever the bucket, even one that never was.
LEMMA FewInBucket ==
    ASSUME RateTypeOK, NEW c \in Clients, FewPassed(c), NEW g
    PROVE  Cardinality(PassedOf(c, g)) <= Limit
<1>1. CASE PassedOf(c, g) = {}
  <2>1. Cardinality(PassedOf(c, g)) = 0
    BY <1>1, FS_EmptySet
  <2> QED
    BY <2>1, Numbers
<1>2. CASE PassedOf(c, g) # {}
  <2>1. PICK i \in DOMAIN answers[c] : answers[c][i].bucket = g
    BY <1>2 DEF PassedOf, Of
  <2> QED
    BY <2>1 DEF FewPassed
<1> QED
  BY <1>1, <1>2

\* Purging removes what is over, and nothing else.
LEMMA PurgedIs ==
    ASSUME NEW map, NEW now
    PROVE  /\ DOMAIN Purged(map, now) \subseteq DOMAIN map
           /\ \A d \in DOMAIN Purged(map, now) : Purged(map, now)[d] = map[d]
           /\ \A d \in DOMAIN map \ DOMAIN Purged(map, now) : ~(map[d].resetAt >= now)
<1>1. CASE Cardinality(DOMAIN map) > MaxBuckets
  <2>1. Purged(map, now) = [d \in {d \in DOMAIN map : map[d].resetAt >= now} |-> map[d]]
    BY <1>1 DEF Purged, Restrict
  <2> QED
    BY <2>1
<1>2. CASE ~(Cardinality(DOMAIN map) > MaxBuckets)
  <2>1. Purged(map, now) = map
    BY <1>2 DEF Purged
  <2> QED
    BY <2>1
<1> QED
  BY <1>1, <1>2

-----------------------------------------------------------------------------
LEMMA RateInitial == RateInit => RateInv
<1> SUFFICES ASSUME RateInit PROVE RateInv
  OBVIOUS
<1>1. RateTypeOK
  <2>1. clock \in 0..LastTick
    BY DEF RateInit
  <2>2. DOMAIN buckets = {}
    BY DEF RateInit
  <2> QED
    BY <2>1, <2>2 DEF RateInit, RateTypeOK
<1>2. Clocks
  BY DEF RateInit, Clocks
<1>3. ASSUME NEW c \in Clients PROVE ClientOK(c)
  <2>1. DOMAIN answers[c] = {} /\ DOMAIN buckets = {}
    BY DEF RateInit
  <2> QED
    BY <2>1 DEF ClientOK, Ordered, InMap, Past, Apart, FewPassed, Reason
<1> QED
  BY <1>1, <1>2, <1>3 DEF RateInv

\* An address that nothing happens to, while time may go on and its bucket may
\* be purged when it is over.
LEMMA OtherClients ==
    ASSUME RateInv, NEW c \in Clients, answers'[c] = answers[c],
           clock' \in Nat, clock' >= clock,
           \/ c \in DOMAIN buckets <=> c \in DOMAIN buckets'
           \/ c \notin DOMAIN buckets' /\ buckets[c].resetAt < clock',
           c \in DOMAIN buckets' => c \in DOMAIN buckets /\ buckets'[c] = buckets[c]
    PROVE  ClientOK(c)'
<1>1. /\ ClientOK(c) /\ clock \in Nat /\ Latest(c) \in Nat
      /\ \A i \in DOMAIN answers[c] : answers[c][i].at \in Nat /\ answers[c][i].bucket \in Nat
      /\ c \in DOMAIN buckets => buckets[c].resetAt \in Nat
  <2>1. ClientOK(c) /\ clock \in Nat /\ Latest(c) \in Nat
    BY Answers DEF RateInv
  <2>2. \A i \in DOMAIN answers[c] : answers[c][i] \in Answer
    BY Answers DEF RateInv
  <2>3. c \in DOMAIN buckets => buckets[c] \in Bucket
    BY DEF RateInv, RateTypeOK
  <2> QED
    BY <2>1, <2>2, <2>3, Numbers DEF Answer, Bucket
<1>2. Latest(c)' = Latest(c)
  BY DEF Latest
<1>3. Ordered(c)' /\ Apart(c)'
  BY <1>1, <1>2 DEF ClientOK, Ordered, Apart
<1>4. ASSUME NEW g PROVE Of(c, g)' = Of(c, g) /\ PassedOf(c, g)' = PassedOf(c, g)
  BY DEF Of, PassedOf
<1>5. InMap(c)'
  BY <1>1, <1>2, <1>4 DEF ClientOK, InMap
<1>6. Past(c)'
  BY <1>1, <1>2, Numbers DEF ClientOK, Past
<1>7. FewPassed(c)'
  BY <1>1, <1>4 DEF ClientOK, FewPassed
<1>8. Reason(c)'
  BY <1>1 DEF ClientOK, Reason, Answered
<1> QED
  BY <1>3, <1>5, <1>6, <1>7, <1>8 DEF ClientOK

LEMMA TickStep == RateInv /\ RateTick => RateInv'
<1> SUFFICES ASSUME RateInv, RateTick PROVE RateInv'
  OBVIOUS
<1>1. /\ clock \in Nat /\ clock' = clock + 1 /\ clock' \in 0..LastTick
      /\ UNCHANGED <<buckets, waiting, answers>>
  BY DEF RateTick, RateInv, RateTypeOK
<1>2. RateTypeOK'
  BY <1>1 DEF RateInv, RateTypeOK
<1>3. Clocks'
  <2> SUFFICES ASSUME NEW h \in Handlers, waiting[h] # NoRequest
               PROVE  waiting[h].now <= clock + 1 /\ clock + 1 <= waiting[h].now + Stall
    BY <1>1 DEF Clocks
  <2>1. waiting[h].now <= clock /\ clock < waiting[h].now + Stall
    BY DEF RateInv, Clocks, RateTick
  <2>2. waiting[h].now \in Nat
    BY DEF RateInv, RateTypeOK, Stamped
  <2> QED
    BY <1>1, <2>1, <2>2, Numbers
<1>4. ASSUME NEW c \in Clients PROVE ClientOK(c)'
  BY <1>1, OtherClients
<1> QED
  BY <1>2, <1>3, <1>4 DEF RateInv

LEMMA ReadStep ==
    ASSUME RateInv, NEW h \in Handlers, NEW c \in Clients, ReadClock(h, c)
    PROVE  RateInv'
<1>1. /\ clock \in 0..LastTick /\ UNCHANGED <<clock, buckets, answers>>
      /\ waiting' = [waiting EXCEPT ![h] = [client |-> c, now |-> clock]]
  BY DEF ReadClock, RateInv, RateTypeOK
<1>2. RateTypeOK'
  BY <1>1 DEF RateInv, RateTypeOK, Stamped
<1>3. Clocks'
  BY <1>1, Numbers DEF RateInv, RateTypeOK, Clocks
<1>4. ASSUME NEW d \in Clients PROVE ClientOK(d)'
  BY <1>1, OtherClients
<1> QED
  BY <1>2, <1>3, <1>4 DEF RateInv

-----------------------------------------------------------------------------
(* Between Lock and Unlock.                                                *)

\* The request is counted in bucket b of its address, and answered with a.
Counting(c, now, a, b) ==
    /\ now <= clock /\ clock <= now + Stall
    /\ answers' = [answers EXCEPT ![c] = Append(@, a)]
    /\ a.at = clock
    /\ a.bucket = IF InForce(c, now) THEN Latest(c) ELSE Latest(c) + 1
    /\ a.passed <=> b.count <= Limit
    /\ b.count = IF InForce(c, now) THEN buckets[c].count + 1 ELSE 1
    /\ b.resetAt = IF InForce(c, now) THEN buckets[c].resetAt ELSE now + Window
    /\ b.resetAt >= now
    /\ c \in DOMAIN buckets' /\ buckets'[c] = b
    /\ \A d \in Clients \ {c} :
          /\ d \in DOMAIN buckets' => d \in DOMAIN buckets /\ buckets'[d] = buckets[d]
          /\ d \in DOMAIN buckets /\ d \notin DOMAIN buckets' => buckets[d].resetAt < now

LEMMA HandleCounts ==
    ASSUME RateInv, NEW h \in Handlers, Handle(h)
    PROVE  /\ \E c \in Clients, now \in 0..LastTick, a \in Answer, b \in Bucket :
                 Counting(c, now, a, b)
           /\ DOMAIN buckets' \subseteq Clients
           /\ waiting' = [waiting EXCEPT ![h] = NoRequest] /\ UNCHANGED clock
<1>1. PICK c \in Clients, now \in 0..LastTick : c = waiting[h].client /\ now = waiting[h].now
  BY DEF Handle, RateInv, RateTypeOK, Stamped
<1>2. now <= clock /\ clock <= now + Stall /\ clock \in 0..LastTick
  BY <1>1 DEF Handle, RateInv, Clocks, RateTypeOK
<1>3. PICK b : b = [Current(c, now) EXCEPT !.count = @ + 1]
  OBVIOUS
<1>4. /\ b \in Bucket
      /\ b.count = IF InForce(c, now) THEN buckets[c].count + 1 ELSE 1
      /\ b.resetAt = IF InForce(c, now) THEN buckets[c].resetAt ELSE now + Window
      /\ b.resetAt >= now
  <2>1. CASE InForce(c, now)
    <3>1. buckets[c] \in Bucket /\ buckets[c].resetAt >= now
      BY <2>1 DEF InForce, RateInv, RateTypeOK
    <3> QED
      BY <1>3, <2>1, <3>1 DEF Current, Bucket
  <2>2. CASE ~InForce(c, now)
    <3>1. now + Window \in 0..(LastTick + Window) /\ now + Window >= now
      BY Numbers
    <3>2. b = [count |-> 1, resetAt |-> now + Window]
      BY <1>3, <2>2 DEF Current
    <3> QED
      BY <2>2, <3>1, <3>2 DEF Bucket
  <2> QED
    BY <2>1, <2>2
<1>5. PICK p \in BOOLEAN : p <=> b.count <= Limit
  OBVIOUS
<1>6. PICK g \in Nat : g = IF InForce(c, now) THEN Latest(c) ELSE Latest(c) + 1
  <2>1. Latest(c) \in Nat
    BY Answers DEF RateInv
  <2> QED
    BY <2>1
<1>7. PICK a \in Answer : /\ a = [at |-> clock, passed |-> p, bucket |-> g]
                          /\ a.at = clock /\ a.passed = p /\ a.bucket = g
  <2> DEFINE r == [at |-> clock, passed |-> p, bucket |-> g]
  <2>1. r \in Answer
    BY <1>2 DEF Answer
  <2>2. r.at = clock /\ r.bucket = g
    OBVIOUS
  <2>3. r.passed = p
    BY Zenon
  <2> QED
    BY <2>1, <2>2, <2>3
<1>8. answers' = [answers EXCEPT ![c] = Append(@, a)]
  <2>1. p = (b.count <= Limit)
    BY <1>5
  <2> QED
    BY <1>1, <1>3, <1>6, <1>7, <2>1 DEF Handle
<1>9. PICK map : map = [d \in DOMAIN buckets \cup {c} |-> IF d = c THEN b ELSE buckets[d]]
  OBVIOUS
<1>10. buckets' = Purged(map, now)
  BY <1>1, <1>3, <1>9 DEF Handle
<1>11. /\ DOMAIN map = DOMAIN buckets \cup {c} /\ map[c] = b
       /\ \A d \in DOMAIN buckets : d # c => map[d] = buckets[d]
  BY <1>9
<1>12. /\ DOMAIN buckets' \subseteq DOMAIN map
       /\ \A d \in DOMAIN buckets' : buckets'[d] = map[d]
       /\ \A d \in DOMAIN map \ DOMAIN buckets' : ~(map[d].resetAt >= now)
  BY <1>10, PurgedIs
<1>13. c \in DOMAIN buckets' /\ buckets'[c] = b
  BY <1>4, <1>11, <1>12
<1>14. ASSUME NEW d \in Clients \ {c}
       PROVE  /\ d \in DOMAIN buckets' => d \in DOMAIN buckets /\ buckets'[d] = buckets[d]
              /\ d \in DOMAIN buckets /\ d \notin DOMAIN buckets' => buckets[d].resetAt < now
  <2>1. d \in DOMAIN buckets => buckets[d].resetAt \in Nat
    BY Numbers DEF RateInv, RateTypeOK, Bucket
  <2> QED
    BY <1>11, <1>12, <2>1
<1>15. DOMAIN buckets' \subseteq Clients
  BY <1>11, <1>12 DEF RateInv, RateTypeOK
<1>16. a.passed <=> b.count <= Limit
  BY <1>5, <1>7
<1>17. Counting(c, now, a, b)
  BY <1>2, <1>4, <1>6, <1>7, <1>8, <1>13, <1>14, <1>16 DEF Counting
<1> QED
  BY <1>4, <1>15, <1>17 DEF Handle

\* The address of the request: its new answer is the last one.
LEMMA Counted ==
    ASSUME RateInv, NEW c \in Clients, NEW now \in 0..LastTick, NEW a \in Answer,
           NEW b \in Bucket, Counting(c, now, a, b), UNCHANGED clock
    PROVE  ClientOK(c)'
<1>0. PICK n : n = Len(answers[c]) + 1
  OBVIOUS
<1>g. PICK G : G = a.bucket
  OBVIOUS
<1>1. /\ ClientOK(c) /\ clock \in Nat /\ Latest(c) \in Nat /\ RateTypeOK
      /\ n \in Nat /\ DOMAIN answers[c] = 1..(n - 1)
  BY <1>0, Answers DEF RateInv
<1>s. /\ answers[c] \in Seq(Answer)
      /\ \A i \in DOMAIN answers[c] : answers[c][i] \in Answer
  BY Answers DEF RateInv
<1>2. ASSUME NEW i \in DOMAIN answers[c]
      PROVE  /\ answers[c][i].at \in Nat /\ answers[c][i].bucket \in Nat
             /\ answers[c][i].at <= clock /\ answers[c][i].bucket <= Latest(c)
  <2>1. answers[c][i] \in Answer
    BY <1>s
  <2> QED
    BY <1>1, <2>1 DEF Answer, ClientOK, Ordered
<1>3. answers'[c] = Append(answers[c], a)
  BY <1>s DEF Counting, RateInv, RateTypeOK
<1>4. /\ DOMAIN answers'[c] = 1..n /\ Len(answers'[c]) = n /\ answers'[c][n] = a
      /\ \A i \in DOMAIN answers[c] : answers'[c][i] = answers[c][i]
      /\ answers'[c] # <<>>
  <2> DEFINE old == answers[c]
  <2>1. old \in Seq(Answer) /\ n = Len(old) + 1 /\ n \in Nat /\ answers'[c] = Append(old, a)
    BY <1>0, <1>1, <1>s, <1>3
  <2> HIDE DEF old
  <2>2. /\ DOMAIN Append(old, a) = 1..n /\ Len(Append(old, a)) = n
        /\ Append(old, a)[n] = a /\ Append(old, a) # <<>>
        /\ \A i \in DOMAIN old : Append(old, a)[i] = old[i]
    BY <2>1
  <2> QED
    BY <2>1, <2>2 DEF old
<1>5. Latest(c)' = G
  BY <1>4, <1>g DEF Latest
<1>6. /\ a.at = clock /\ G \in Nat /\ Latest(c) <= G
      /\ (G = Latest(c) \/ G = Latest(c) + 1)
      /\ (G = Latest(c) <=> InForce(c, now))
  BY <1>1, <1>g DEF Counting, Answer
<1>7. /\ c \in DOMAIN buckets' /\ buckets'[c] = b
      /\ b.count \in Nat /\ b.resetAt \in Nat /\ now \in Nat
      /\ now <= clock /\ clock <= now + Stall /\ b.resetAt >= now
  BY Numbers DEF Counting, Bucket
<1>8. ASSUME InForce(c, now)
      PROVE  /\ c \in DOMAIN buckets /\ buckets[c].count \in Nat
             /\ b.count = buckets[c].count + 1 /\ b.resetAt = buckets[c].resetAt
  BY <1>1, <1>8 DEF Counting, InForce, RateTypeOK, Bucket
<1>9. ASSUME ~InForce(c, now)
      PROVE  /\ b.count = 1 /\ b.resetAt = now + Window
             /\ c \in DOMAIN buckets =>
                   buckets[c].resetAt \in Nat /\ buckets[c].resetAt < clock
  <2>1. c \in DOMAIN buckets => buckets[c].resetAt \in Nat
    BY <1>1, Numbers DEF RateTypeOK, Bucket
  <2>2. b.count = 1 /\ b.resetAt = now + Window
    BY <1>9 DEF Counting
  <2>3. c \in DOMAIN buckets => ~(buckets[c].resetAt >= now)
    BY <1>9 DEF InForce
  <2> QED
    BY <1>1, <1>7, <2>1, <2>2, <2>3
<1>n. answers'[c][n].at = clock /\ answers'[c][n].bucket = G /\ n \in 1..n /\ clock' = clock
  BY <1>1, <1>4, <1>6, <1>g
<1>o. ASSUME NEW i \in 1..n, i # n
      PROVE  /\ i \in DOMAIN answers[c] /\ i < n /\ answers'[c][i] = answers[c][i]
             /\ answers'[c][i].at \in Nat /\ answers'[c][i].bucket \in Nat
             /\ answers'[c][i].at <= clock /\ answers'[c][i].bucket <= Latest(c)
  <2>1. i \in DOMAIN answers[c] /\ i < n
    BY <1>1, <1>o
  <2> QED
    BY <1>2, <1>4, <2>1
<1>10. Ordered(c)'
  <2> SUFFICES ASSUME NEW i \in 1..n, NEW j \in 1..n
               PROVE  /\ answers'[c][i].at <= clock' /\ answers'[c][i].bucket <= G
                      /\ i <= j => /\ answers'[c][i].at <= answers'[c][j].at
                                   /\ answers'[c][i].bucket <= answers'[c][j].bucket
    BY <1>4, <1>5 DEF Ordered
  <2>1. CASE i # n /\ j # n
    <3>1. Ordered(c)
      BY <1>1 DEF ClientOK
    <3>2. i <= j => /\ answers'[c][i].at <= answers'[c][j].at
                    /\ answers'[c][i].bucket <= answers'[c][j].bucket
      BY <1>o, <2>1, <3>1 DEF Ordered
    <3> QED
      BY <1>1, <1>n, <1>o, <1>6, <2>1, <3>2
  <2>2. CASE i # n /\ j = n
    <3>1. /\ answers'[c][i].at <= clock /\ answers'[c][i].bucket <= Latest(c)
          /\ answers'[c][i].at \in Nat /\ answers'[c][i].bucket \in Nat
      BY <1>o, <2>2
    <3>2. answers'[c][i].bucket <= G
      BY <1>1, <1>6, <3>1
    <3> QED
      BY <1>n, <2>2, <3>1, <3>2
  <2>3. CASE i = n /\ j # n
    <3>1. j < i
      BY <1>o, <2>3
    <3> QED
      BY <1>1, <1>n, <1>6, <2>3, <3>1
  <2>4. CASE i = n /\ j = n
    BY <1>1, <1>n, <1>6, <2>4
  <2> QED
    BY <2>1, <2>2, <2>3, <2>4
<1>11. ASSUME NEW g \in Nat
       PROVE  /\ Of(c, g)' = IF g = G THEN Of(c, g) \cup {n} ELSE Of(c, g)
              /\ PassedOf(c, g)' = IF g = G /\ a.passed THEN PassedOf(c, g) \cup {n}
                                   ELSE PassedOf(c, g)
              /\ Of(c, g) \subseteq DOMAIN answers[c] /\ n \notin Of(c, g)
              /\ PassedOf(c, g) \subseteq Of(c, g)
  <2>1. Of(c, g)' = {i \in 1..n : answers'[c][i].bucket = g}
    BY <1>4 DEF Of
  <2>2. Of(c, g)' = IF g = G THEN Of(c, g) \cup {n} ELSE Of(c, g)
    <3>1. \A i \in 1..n : i # n => i \in DOMAIN answers[c] /\ answers'[c][i] = answers[c][i]
      BY <1>o
    <3>2. \A i \in DOMAIN answers[c] : i \in 1..n /\ i # n
      BY <1>1
    <3> QED
      BY <1>n, <2>1, <3>1, <3>2 DEF Of
  <2>3. PassedOf(c, g)' = {i \in Of(c, g)' : answers'[c][i].passed}
    BY DEF PassedOf
  <2>4. \A i \in Of(c, g) : answers'[c][i] = answers[c][i]
    BY <1>4 DEF Of
  <2>5. PassedOf(c, g)' = IF g = G /\ a.passed THEN PassedOf(c, g) \cup {n}
                          ELSE PassedOf(c, g)
    BY <1>4, <2>2, <2>3, <2>4 DEF PassedOf
  <2> QED
    BY <1>1, <2>2, <2>5 DEF Of, PassedOf
<1>12. ASSUME answers[c] # <<>>
       PROVE  \E m \in DOMAIN answers[c] : answers[c][m].bucket = Latest(c)
  BY <1>s, <1>12 DEF Latest
<1>13. /\ b.count = Cardinality(Of(c, G)) + 1 /\ Cardinality(Of(c, G)) \in Nat
       /\ b.count = Cardinality(Of(c, G) \cup {n})
  <2>1. IsFiniteSet(Of(c, G)) /\ Cardinality(Of(c, G)) \in Nat
    BY <1>1, <1>6, <1>11, PlacesAreFinite
  <2>4. Cardinality(Of(c, G) \cup {n}) = Cardinality(Of(c, G)) + 1
    BY <1>6, <1>11, <2>1, FS_AddElement
  <2>2. CASE InForce(c, now)
    <3>1. buckets[c].count = Cardinality(Of(c, Latest(c))) /\ G = Latest(c)
      BY <1>1, <1>6, <1>8, <2>2 DEF ClientOK, InMap
    <3>2. b.count = Cardinality(Of(c, G)) + 1
      BY <1>8, <2>2, <3>1
    <3> QED
      BY <2>1, <2>4, <3>2
  <2>3. CASE ~InForce(c, now)
    <3>1. Of(c, G) = {}
      BY <1>1, <1>2, <1>6, <2>3 DEF Of
    <3>2. Cardinality(Of(c, G)) = 0
      BY <3>1, FS_EmptySet
    <3> QED
      BY <1>9, <2>1, <2>3, <2>4, <3>2
  <2> QED
    BY <2>2, <2>3
<1>14. /\ \A i \in Of(c, G) : answers[c][i].at + Window >= b.resetAt
       /\ clock + Window >= b.resetAt
  <2>1. CASE InForce(c, now)
    <3>1. \A i \in Of(c, Latest(c)) : answers[c][i].at + Window >= b.resetAt
      BY <1>1, <1>8, <2>1 DEF ClientOK, InMap
    <3>2. PICK m \in DOMAIN answers[c] : answers[c][m].bucket = Latest(c)
      BY <1>1, <1>8, <1>12, <2>1 DEF ClientOK, InMap
    <3>3. answers[c][m].at + Window >= b.resetAt
      BY <3>1, <3>2 DEF Of
    <3>4. G = Latest(c)
      BY <1>6, <2>1
    <3>5. /\ answers[c][m].at \in Nat /\ answers[c][m].at <= clock /\ clock \in Nat
          /\ b.resetAt \in Nat
      BY <1>1, <1>2, <1>7, <3>2
    <3>6. clock + Window >= b.resetAt
      BY <3>3, <3>5, Numbers
    <3> QED
      BY <3>1, <3>4, <3>6
  <2>2. CASE ~InForce(c, now)
    <3>1. Of(c, G) = {}
      BY <1>1, <1>2, <1>6, <2>2 DEF Of
    <3> QED
      BY <1>1, <1>7, <1>9, <2>2, <3>1, Numbers
  <2> QED
    BY <2>1, <2>2
<1>15. InMap(c)'
  <2>1. {i \in DOMAIN answers'[c] : answers'[c][i].bucket = G} = Of(c, G) \cup {n}
    BY <1>6, <1>11 DEF Of
  <2>2. ASSUME NEW i \in Of(c, G) \cup {n}
        PROVE  answers'[c][i].at + Window >= b.resetAt
    BY <1>4, <1>6, <1>11, <1>14, <2>2
  <2> QED
    BY <1>4, <1>5, <1>7, <1>13, <2>1, <2>2 DEF InMap, Of
<1>16. Past(c)'
  <2> SUFFICES ASSUME NEW i \in 1..n, answers'[c][i].bucket < G
               PROVE  answers'[c][i].at + Window - Stall <= b.resetAt
    BY <1>4, <1>5, <1>7 DEF Past
  <2>0. i # n
    BY <1>6, <1>n
  <2>1. i \in DOMAIN answers[c] /\ answers'[c][i] = answers[c][i]
    BY <1>o, <2>0
  <2>2. CASE InForce(c, now)
    <3>1. answers[c][i].bucket < Latest(c)
      BY <1>6, <2>1, <2>2
    <3> QED
      BY <1>1, <1>8, <2>1, <2>2, <3>1 DEF ClientOK, Past
  <2>3. CASE ~InForce(c, now)
    <3>1. answers'[c][i].at \in Nat /\ answers'[c][i].at <= clock
      BY <1>o, <2>0
    <3>2. b.resetAt = now + Window
      BY <1>9, <2>3
    <3>3. now \in Nat /\ clock \in Nat /\ clock <= now + Stall
      BY <1>1, <1>7
    <3> QED
      BY <3>1, <3>2, <3>3, Numbers
  <2> QED
    BY <2>2, <2>3
<1>17. Apart(c)'
  <2> SUFFICES ASSUME NEW i \in 1..n, NEW j \in 1..n,
                      answers'[c][i].bucket + 2 <= answers'[c][j].bucket
               PROVE  answers'[c][i].at + Window - Stall < answers'[c][j].at
    BY <1>4 DEF Apart
  <2>1. i # n
    <3>1. CASE j = n
      BY <1>6, <1>n, <3>1
    <3>2. CASE j # n
      <4>1. answers'[c][j].bucket <= G /\ answers'[c][j].bucket \in Nat
        BY <1>1, <1>6, <1>o, <3>2
      <4> QED
        BY <1>6, <1>n, <4>1
    <3> QED
      BY <3>1, <3>2
  <2>2. i \in DOMAIN answers[c] /\ answers'[c][i] = answers[c][i]
    BY <1>o, <2>1
  <2>3. CASE j # n
    <3>1. j \in DOMAIN answers[c] /\ answers'[c][j] = answers[c][j]
      BY <1>o, <2>3
    <3> QED
      BY <1>1, <2>2, <3>1 DEF ClientOK, Apart
  <2>4. CASE j = n /\ G = Latest(c)
    <3>1. PICK m \in DOMAIN answers[c] : answers[c][m].bucket = Latest(c)
      BY <1>1, <1>12, <2>2
    <3>2. answers[c][i].at + Window - Stall < answers[c][m].at
      BY <1>1, <1>n, <2>2, <2>4, <3>1 DEF ClientOK, Apart
    <3>3. answers[c][m].at <= clock /\ answers[c][m].at \in Nat
      BY <1>2, <3>1
    <3>4. answers[c][i].at \in Nat
      BY <1>2, <2>2
    <3>5. answers[c][i].at + Window - Stall < clock
      BY <1>1, <3>2, <3>3, <3>4, Earlier, Zenon
    <3> QED
      BY <1>n, <2>2, <2>4, <3>5
  <2>5. CASE j = n /\ G # Latest(c)
    <3>1. answers[c][i].bucket < Latest(c) /\ ~InForce(c, now)
      <4>1. answers[c][i].bucket + 2 <= G /\ answers[c][i].bucket \in Nat
        BY <1>2, <1>n, <2>2, <2>5
      <4>2. ~InForce(c, now) /\ G = Latest(c) + 1
        BY <1>6, <2>5
      <4> QED
        BY <1>1, <4>1, <4>2
    <3>2. answers[c][i].at + Window - Stall < clock
      <4>1. CASE c \in DOMAIN buckets
        <5>1. answers[c][i].at + Window - Stall <= buckets[c].resetAt
          BY <1>1, <2>2, <3>1, <4>1 DEF ClientOK, Past
        <5>2. buckets[c].resetAt \in Nat /\ buckets[c].resetAt < clock
          BY <1>9, <3>1, <4>1
        <5>3. answers[c][i].at \in Nat
          BY <1>2, <2>2
        <5> QED
          BY <1>1, <5>1, <5>2, <5>3, Earlier, Zenon
      <4>2. CASE c \notin DOMAIN buckets
        BY <1>1, <2>2, <3>1, <4>2 DEF ClientOK, Past
      <4> QED
        BY <4>1, <4>2
    <3> QED
      BY <1>n, <2>2, <2>5, <3>2
  <2> QED
    BY <2>3, <2>4, <2>5
<1>18. FewPassed(c)'
  <2> SUFFICES ASSUME NEW g \in Nat
               PROVE  Cardinality(PassedOf(c, g)') <= Limit
    <3>1. ASSUME NEW i \in 1..n PROVE answers'[c][i].bucket \in Nat
      BY <1>6, <1>n, <1>o
    <3>2. ASSUME NEW g \in Nat
          PROVE  PassedOf(c, g)' = {i \in {i \in DOMAIN answers'[c] :
                                           answers'[c][i].bucket = g} : answers'[c][i].passed}
      BY DEF PassedOf, Of
    <3> QED
      BY <1>4, <3>1, <3>2 DEF FewPassed, PassedOf, Of
  <2>1. Cardinality(PassedOf(c, g)) <= Limit /\ PassedOf(c, g) \subseteq DOMAIN answers[c]
    BY <1>1, <1>11, FewInBucket DEF ClientOK
  <2>2. CASE g = G /\ a.passed
    <3>1. IsFiniteSet(Of(c, G)) /\ IsFiniteSet(PassedOf(c, G))
      BY <1>1, <1>6, <1>11, <2>1, <2>2, PlacesAreFinite
    <3>2. /\ Cardinality(PassedOf(c, G)) <= Cardinality(Of(c, G))
          /\ Cardinality(PassedOf(c, G)) \in Nat
      BY <1>6, <1>11, <3>1, FS_Subset, FS_CardinalityType
    <3>3. Cardinality(PassedOf(c, G) \cup {n}) = Cardinality(PassedOf(c, G)) + 1
      BY <1>6, <1>11, <3>1, FS_AddElement
    <3>4. b.count <= Limit
      BY <2>2 DEF Counting
    <3>5. PassedOf(c, g)' = PassedOf(c, G) \cup {n}
      BY <1>11, <2>2
    <3>6. Cardinality(PassedOf(c, G)) + 1 <= b.count
      BY <1>13, <3>2
    <3> QED
      BY <1>7, <3>2, <3>3, <3>4, <3>5, <3>6, Numbers
  <2>3. CASE ~(g = G /\ a.passed)
    <3>1. PassedOf(c, g)' = PassedOf(c, g)
      BY <1>11, <2>3
    <3> QED
      BY <2>1, <3>1
  <2> QED
    BY <2>2, <2>3
<1>19. Reason(c)'
  <2> SUFFICES ASSUME NEW i \in 1..n, ~answers'[c][i].passed
               PROVE  \E S \in SUBSET {k \in 1..n : answers'[c][k].at \in
                          (answers'[c][i].at - Window - Stall)..answers'[c][i].at} :
                        Cardinality(S) \in Nat /\ Cardinality(S) > Limit
    <3> DEFINE T(i) == {k \in 1..n : answers'[c][k].at \in
                          (answers'[c][i].at - Window - Stall)..answers'[c][i].at}
    <3>1. ASSUME NEW i \in 1..n, NEW S \in SUBSET T(i),
                 Cardinality(S) \in Nat, Cardinality(S) > Limit
          PROVE  Cardinality(T(i)) > Limit
      <4>1. IsFiniteSet(1..n)
        BY <1>1, FS_Interval
      <4>2. IsFiniteSet(T(i))
        BY <4>1, FS_Subset
      <4>3. Cardinality(S) <= Cardinality(T(i)) /\ Cardinality(T(i)) \in Nat
        BY <4>2, FS_Subset, FS_CardinalityType
      <4> QED
        BY <3>1, <4>3, Numbers
    <3> QED
      BY <1>4, <3>1 DEF Reason, Answered
  <2>1. CASE i # n
    <3>1. i \in DOMAIN answers[c] /\ answers'[c][i] = answers[c][i]
      BY <1>o, <2>1
    <3>2. PICK S : S = Answered(c, (answers[c][i].at - Window - Stall)..answers[c][i].at)
      OBVIOUS
    <3>3. S \subseteq DOMAIN answers[c] /\ Cardinality(S) > Limit
      BY <1>1, <3>1, <3>2 DEF ClientOK, Reason, Answered
    <3>4. Cardinality(S) \in Nat
      BY <1>1, <3>3, PlacesAreFinite
    <3>5. S \subseteq {k \in 1..n : answers'[c][k].at \in
                          (answers'[c][i].at - Window - Stall)..answers'[c][i].at}
      <4>1. \A k \in S : k \in 1..n /\ answers'[c][k] = answers[c][k]
        BY <1>1, <1>4, <3>3
      <4>2. \A k \in S : answers[c][k].at \in
                            (answers[c][i].at - Window - Stall)..answers[c][i].at
        BY <3>2 DEF Answered
      <4> QED
        BY <3>1, <4>1, <4>2
    <3> QED
      BY <3>3, <3>4, <3>5
  <2>2. CASE i = n
    <3>1. Cardinality(Of(c, G) \cup {n}) > Limit /\ Cardinality(Of(c, G) \cup {n}) \in Nat
      BY <1>4, <1>7, <1>13, <2>2, Numbers DEF Counting
    <3>2. ASSUME NEW k \in Of(c, G) \cup {n}
          PROVE  k \in 1..n /\ answers'[c][k].at \in (clock - Window - Stall)..clock
      <4>1. CASE k = n
        <5>1. clock - Window - Stall <= clock /\ clock - Window - Stall \in Int
          BY <1>1, Numbers
        <5> QED
          BY <1>1, <1>n, <4>1, <5>1
      <4>2. CASE k \in Of(c, G)
        <5>1. k \in DOMAIN answers[c] /\ answers'[c][k] = answers[c][k]
          BY <1>4, <1>6, <1>11, <4>2
        <5>2. answers[c][k].at + Window >= b.resetAt
          BY <1>14, <4>2
        <5>3. answers[c][k].at \in Nat /\ answers[c][k].at <= clock /\ k \in 1..n
          BY <1>1, <1>2, <5>1
        <5>4. answers[c][k].at >= clock - Window - Stall /\ clock - Window - Stall \in Int
          <6>1. \A x, y, r, w, t, u \in Int :
                   x + w >= r /\ r >= y /\ t <= y + u => x >= t - w - u
            OBVIOUS
          <6>2. b.resetAt \in Int /\ now \in Int /\ clock \in Int /\ b.resetAt >= now
                /\ clock <= now + Stall
            BY <1>1, <1>7
          <6>3. Window \in Int /\ Stall \in Int /\ answers[c][k].at \in Int
            BY <5>3, Numbers
          <6>4. clock - Window - Stall \in Int
            BY <6>2, <6>3
          <6> QED
            BY <5>2, <6>1, <6>2, <6>3, <6>4
        <5> QED
          BY <1>1, <5>1, <5>3, <5>4
      <4> QED
        BY <3>2, <4>1, <4>2
    <3>3. answers'[c][i].at = clock
      BY <1>4, <1>6, <2>2
    <3> QED
      BY <3>1, <3>2, <3>3
  <2> QED
    BY <2>1, <2>2
<1> QED
  BY <1>10, <1>15, <1>16, <1>17, <1>18, <1>19 DEF ClientOK

LEMMA HandleStep ==
    ASSUME RateInv, NEW h \in Handlers, Handle(h)
    PROVE  RateInv'
<1>1. PICK c \in Clients, now \in 0..LastTick, a \in Answer, b \in Bucket :
        Counting(c, now, a, b)
  BY HandleCounts
<1>2. /\ DOMAIN buckets' \subseteq Clients /\ clock' = clock
      /\ waiting' = [waiting EXCEPT ![h] = NoRequest]
  BY HandleCounts
<1>3. /\ answers' = [answers EXCEPT ![c] = Append(@, a)] /\ now <= clock
      /\ buckets'[c] = b /\ now \in Nat /\ clock \in Nat
      /\ \A d \in Clients \ {c} :
            /\ d \in DOMAIN buckets' => d \in DOMAIN buckets /\ buckets'[d] = buckets[d]
            /\ d \in DOMAIN buckets /\ d \notin DOMAIN buckets' => buckets[d].resetAt < now
  BY <1>1, Numbers DEF Counting, RateInv, RateTypeOK
<1>4. RateTypeOK'
  <2>1. ASSUME NEW d \in DOMAIN buckets' PROVE buckets'[d] \in Bucket
    BY <1>2, <1>3 DEF RateInv, RateTypeOK
  <2>2. answers' \in [Clients -> Seq(Answer)]
    BY <1>3 DEF RateInv, RateTypeOK
  <2>3. waiting' \in [Handlers -> Stamped \cup {NoRequest}] /\ clock' \in 0..LastTick
    BY <1>2 DEF RateInv, RateTypeOK
  <2> QED
    BY <1>2, <2>1, <2>2, <2>3 DEF RateTypeOK
<1>5. Clocks'
  BY <1>2 DEF RateInv, RateTypeOK, Clocks
<1>6. ClientOK(c)'
  BY <1>1, <1>2, Counted
<1>7. ASSUME NEW d \in Clients, d # c PROVE ClientOK(d)'
  <2>1. answers'[d] = answers[d]
    BY <1>3, <1>7 DEF RateInv, RateTypeOK
  <2>2. d \in DOMAIN buckets => buckets[d].resetAt \in Nat
    BY Numbers DEF RateInv, RateTypeOK, Bucket
  <2>3. d \in DOMAIN buckets' => d \in DOMAIN buckets /\ buckets'[d] = buckets[d]
    BY <1>3, <1>7
  <2>4. \/ d \in DOMAIN buckets <=> d \in DOMAIN buckets'
        \/ d \notin DOMAIN buckets' /\ buckets[d].resetAt < clock'
    BY <1>2, <1>3, <1>7, <2>2
  <2> QED
    BY <1>2, <1>3, <2>1, <2>3, <2>4, OtherClients
<1> QED
  BY <1>4, <1>5, <1>6, <1>7 DEF RateInv

LEMMA RateInductive == RateInv /\ [RateNext]_rateVars => RateInv'
<1> SUFFICES ASSUME RateInv, [RateNext]_rateVars PROVE RateInv'
  OBVIOUS
<1>1. CASE RateTick
  BY <1>1, TickStep
<1>2. ASSUME NEW h \in Handlers, Handle(h) PROVE RateInv'
  BY <1>2, HandleStep
<1>3. ASSUME NEW h \in Handlers, NEW c \in Clients, ReadClock(h, c) PROVE RateInv'
  BY <1>3, ReadStep
<1>4. CASE UNCHANGED rateVars
  <2>1. UNCHANGED <<clock, buckets, waiting, answers>> /\ clock \in Nat
    BY <1>4, Numbers DEF rateVars, RateInv, RateTypeOK
  <2>2. RateTypeOK' /\ Clocks'
    BY <2>1 DEF RateInv, RateTypeOK, Clocks
  <2>3. ASSUME NEW c \in Clients PROVE ClientOK(c)'
    BY <2>1, OtherClients
  <2> QED
    BY <2>2, <2>3 DEF RateInv
<1> QED
  BY <1>1, <1>2, <1>3, <1>4 DEF RateNext

-----------------------------------------------------------------------------
\* The buckets of an address let few requests through each, and lie apart.
THEOREM RateInvariance == RateSpec => []RateInv
<1> QED
  BY RateInitial, RateInductive, PTL DEF RateSpec

\* All that passed in a span of the length of a window (less the delay of a
\* goroutine) was counted by two buckets, the first to let one through in it and
\* the next.
LEMMA TwoBuckets ==
    ASSUME RateInv, NEW c \in Clients, NEW t \in 0..LastTick
    PROVE  Cardinality(Passed(c, t..(t + Window - Stall))) <= 2 * Limit
<1>1. PICK P : P = Passed(c, t..(t + Window - Stall))
  OBVIOUS
<1>2. /\ RateTypeOK /\ ClientOK(c) /\ P \subseteq DOMAIN answers[c]
      /\ \A i \in P : /\ answers[c][i].at >= t /\ answers[c][i].at <= t + Window - Stall
                       /\ answers[c][i].passed
  BY <1>1, Numbers DEF RateInv, Passed, Answered
<1>3. \A i \in P : answers[c][i].at \in Nat /\ answers[c][i].bucket \in Nat /\ i \in Nat
  <2>1. \A i \in P : answers[c][i] \in Answer /\ i \in Nat
    BY <1>2, Answers
  <2> QED
    BY <2>1 DEF Answer
<1>4. \A i, j \in P : ~(answers[c][i].bucket + 2 <= answers[c][j].bucket)
  <2> SUFFICES ASSUME NEW i \in P, NEW j \in P,
                      answers[c][i].bucket + 2 <= answers[c][j].bucket
               PROVE  FALSE
    OBVIOUS
  <2>1. answers[c][i].at + Window - Stall < answers[c][j].at
    BY <1>2 DEF ClientOK, Apart
  <2> QED
    BY <1>2, <1>3, <2>1, Numbers
<1>5. \E f \in Nat : \A i \in P : answers[c][i].bucket \in {f, f + 1}
  <2>1. CASE P = {}
    BY <2>1
  <2>2. CASE \E i, j \in P : answers[c][i].bucket + 1 = answers[c][j].bucket
    <3>1. PICK i, j \in P : answers[c][i].bucket + 1 = answers[c][j].bucket
      BY <2>2
    <3>2. ASSUME NEW k \in P
          PROVE  answers[c][k].bucket \in {answers[c][i].bucket, answers[c][i].bucket + 1}
      <4>1. /\ ~(answers[c][k].bucket + 2 <= answers[c][j].bucket)
            /\ ~(answers[c][i].bucket + 2 <= answers[c][k].bucket)
        BY <1>4
      <4> QED
        BY <1>3, <3>1, <4>1
    <3> QED
      BY <1>3, <3>2
  <2>3. CASE P # {} /\ ~\E i, j \in P : answers[c][i].bucket + 1 = answers[c][j].bucket
    <3>1. PICK i \in P : TRUE
      BY <2>3
    <3>2. ASSUME NEW k \in P PROVE answers[c][k].bucket = answers[c][i].bucket
      <4>1. /\ ~(answers[c][k].bucket + 2 <= answers[c][i].bucket)
            /\ ~(answers[c][i].bucket + 2 <= answers[c][k].bucket)
        BY <1>4
      <4>2. /\ answers[c][k].bucket + 1 # answers[c][i].bucket
            /\ answers[c][i].bucket + 1 # answers[c][k].bucket
        BY <2>3
      <4> QED
        BY <1>3, <4>1, <4>2
    <3> QED
      BY <1>3, <3>2
  <2> QED
    BY <2>1, <2>2, <2>3
<1>6. PICK f \in Nat : \A i \in P : answers[c][i].bucket \in {f, f + 1}
  BY <1>5
<1>7. PICK A, B : A = PassedOf(c, f) /\ B = PassedOf(c, f + 1)
  OBVIOUS
<1>8. P \subseteq A \cup B
  BY <1>2, <1>6, <1>7 DEF PassedOf, Of
<1>9. /\ IsFiniteSet(A) /\ Cardinality(A) \in Nat /\ Cardinality(A) <= Limit
      /\ IsFiniteSet(B) /\ Cardinality(B) \in Nat /\ Cardinality(B) <= Limit
  <2>1. A \subseteq DOMAIN answers[c] /\ B \subseteq DOMAIN answers[c]
    BY <1>7 DEF PassedOf, Of
  <2>2. Cardinality(A) <= Limit /\ Cardinality(B) <= Limit
    BY <1>2, <1>7, FewInBucket DEF ClientOK
  <2> QED
    BY <1>2, <2>1, <2>2, PlacesAreFinite
<1>10. /\ IsFiniteSet(A \cup B)
       /\ Cardinality(A \cup B)
            = Cardinality(A) + Cardinality(B) - Cardinality(A \cap B)
  BY <1>9, FS_Union
<1>11. Cardinality(A \cap B) \in Nat
  BY <1>9, FS_Intersection, FS_CardinalityType
<1>12. Cardinality(P) <= Cardinality(A \cup B) /\ Cardinality(P) \in Nat
  BY <1>8, <1>10, FS_Subset, FS_CardinalityType
<1> QED
  BY <1>1, <1>9, <1>10, <1>11, <1>12, Numbers

\* Whatever the order in which the goroutines get the mutex, and with a map
\* that is purged all the time, no address gets more than two windows' worth of
\* requests through in any span of the length of a window less the delay of a
\* goroutine (RateLimitIP).
THEOREM AtMostTwoWindows == RateSpec => []TwoWindowsAtMost
<1>1. RateInv => TwoWindowsAtMost
  BY TwoBuckets DEF TwoWindowsAtMost
<1> QED
  BY <1>1, RateInvariance, PTL

\* Whoever is refused has sent more than Limit requests within a window, and the
\* delay of a goroutine: the requests of the bucket that refuses (RateLimitIP).
THEOREM RefusalsHaveReasons == RateSpec => []RefusedForReason
<1>1. RateInv => RefusedForReason
  BY DEF RateInv, ClientOK, Reason, RefusedForReason
<1> QED
  BY <1>1, RateInvariance, PTL
=============================================================================
