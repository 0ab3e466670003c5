------------------------------ MODULE RateLimit ------------------------------
(***************************************************************************)
(* RateLimitIP, which guards the public endpoints: request goroutines read *)
(* the clock, and later, one at a time, count themselves in the bucket of  *)
(* their address. Time is counted in ticks.                                *)
(***************************************************************************)
EXTENDS Integers, FiniteSets, Sequences, Functions

CONSTANTS
    Clients,      \* addresses
    Handlers,     \* bound: 1..n for n goroutines at work at a time
    Limit,        \* requests of one address in a window
    Window,       \* length of a window
    MaxBuckets,   \* size of the map past which it is purged: 4096
    Stall,        \* a goroutine waits no longer between its clock and the mutex
    LastTick,     \* bound: the end of time
    MaxRequests,  \* bound: MaxRequests[c] requests of address c
    NoClient      \* the address of a goroutine that does not work

ASSUME RateAssumption ==
    /\ Limit \in Nat \ {0} /\ Window \in Nat \ {0} /\ Stall \in 0..Window
    /\ MaxBuckets \in Nat /\ LastTick \in Nat /\ MaxRequests \in [Clients -> Nat]
    /\ NoClient \notin Clients

VARIABLES
    clock,    \* the time
    buckets,  \* the map: addresses to buckets
    waiting,  \* waiting[h]: the request of h between its clock and the mutex
    answers   \* answers[c]: what the requests of c were told, in order

rateVars == <<clock, buckets, waiting, answers>>

Bucket == [count : Nat, resetAt : 0..(LastTick + Window)]

\* now: its time.Now()
Stamped == [client : Clients, now : 0..LastTick]
NoRequest == [client |-> NoClient, now |-> 0]

\* bucket: which of the buckets that c had one after the other has counted it.
Answer == [at : 0..LastTick, passed : BOOLEAN, bucket : Nat]

Latest(c) == IF answers[c] = <<>> THEN 0 ELSE answers[c][Len(answers[c])].bucket

\* The answers to c in the given span of time, and those that let it through.
Answered(c, span) == {i \in DOMAIN answers[c] : answers[c][i].at \in span}
Passed(c, span) == {i \in Answered(c, span) : answers[c][i].passed}

RateInit ==
    /\ clock = 0
    /\ buckets = [c \in {} |-> [count |-> 0, resetAt |-> 0]]
    /\ waiting = [h \in Handlers |-> NoRequest]
    /\ answers = [c \in Clients |-> <<>>]

ReadClock(h, c) ==
    /\ waiting[h] = NoRequest
    /\ \A g \in Handlers : waiting[g] = NoRequest => h <= g
    /\ Cardinality({g \in Handlers : waiting[g].client = c}) + Len(answers[c])
         < MaxRequests[c]
    /\ waiting' = [waiting EXCEPT ![h] = [client |-> c, now |-> clock]]
    /\ UNCHANGED <<clock, buckets, answers>>

\* The bucket of the address is not over.
InForce(c, now) == c \in DOMAIN buckets /\ buckets[c].resetAt >= now

\* Mutant: every request starts the window again.
CurrentSliding(c, now) ==
    [count |-> IF InForce(c, now) THEN buckets[c].count ELSE 0, resetAt |-> now + Window]

\* The bucket of the address, or a new one when it is over.
Current(c, now) ==
    IF InForce(c, now) THEN buckets[c] ELSE [count |-> 0, resetAt |-> now + Window]

\* Mutant: a full map is emptied.
PurgedAll(map, now) ==
    IF Cardinality(DOMAIN map) > MaxBuckets THEN Restrict(map, {}) ELSE map

Purged(map, now) ==
    IF Cardinality(DOMAIN map) > MaxBuckets
    THEN Restrict(map, {c \in DOMAIN map : map[c].resetAt >= now})
    ELSE map

\* Between mu.Lock() and mu.Unlock(), and the answer.
Handle(h) ==
    LET c == waiting[h].client
        now == waiting[h].now
        bucket == [Current(c, now) EXCEPT !.count = @ + 1]
        answer == [at |-> clock, passed |-> bucket.count <= Limit,
                   bucket |-> IF InForce(c, now) THEN Latest(c) ELSE Latest(c) + 1]
    IN  /\ waiting[h] # NoRequest
        /\ buckets' = Purged([d \in DOMAIN buckets \cup {c} |->
                                IF d = c THEN bucket ELSE buckets[d]], now)
        /\ waiting' = [waiting EXCEPT ![h] = NoRequest]
        /\ answers' = [answers EXCEPT ![c] = Append(@, answer)]
        /\ UNCHANGED clock

RateTick ==
    /\ clock < LastTick
    /\ \A h \in Handlers : waiting[h] # NoRequest => clock < waiting[h].now + Stall
    /\ clock' = clock + 1
    /\ UNCHANGED <<buckets, waiting, answers>>

RateNext ==
    \/ RateTick
    \/ \E h \in Handlers : Handle(h) \/ \E c \in Clients : ReadClock(h, c)

RateSpec == RateInit /\ [][RateNext]_rateVars

-----------------------------------------------------------------------------
RateTypeOK ==
    /\ clock \in 0..LastTick
    /\ DOMAIN buckets \subseteq Clients
    /\ \A c \in DOMAIN buckets : buckets[c] \in Bucket
    /\ waiting \in [Handlers -> Stamped \cup {NoRequest}]
    /\ answers \in [Clients -> Seq(Answer)]

\* Whatever the order in which the goroutines get the mutex, and with a map
\* that is purged all the time, no address gets more than two windows' worth of
\* requests through in any span of the length of a window less the delay of a
\* goroutine (RateLimitIP).
TwoWindowsAtMost ==
    \A c \in Clients, t \in 0..LastTick :
        Cardinality(Passed(c, t..(t + Window - Stall))) <= 2 * Limit

\* Whoever is refused has sent more than Limit requests within a window and the
\* delay of a goroutine: other addresses, and what was long ago, do not count
\* (RateLimitIP).
RefusedForReason ==
    \A c \in Clients : \A i \in DOMAIN answers[c] :
        LET t == answers[c][i].at
        IN  ~answers[c][i].passed =>
               Cardinality(Answered(c, (t - Window - Stall)..t)) > Limit
=============================================================================
