------------------------ MODULE CodeLifecycleProofs --------------------------
(***************************************************************************)
(* Reservations and codes, for every number of codes, callers, sessions,   *)
(* domains and sites: the proofs of DomainKept, SpentWithItsSite,          *)
(* CodeKnowsItsSite and SessionOpensOnce of CodeLifecycle, of what becomes *)
(* of a revoked code, and of what SitesWithinQuota and the use of a live   *)
(* reservation depend on.                                                  *)
(*                                                                         *)
(* The argument for domains: only ReserveDomain gives a row an owner, and  *)
(* only to a session that is active, and so has no site yet; only OpenSite *)
(* makes a site, on the live row of its session; all other steps take rows *)
(* and sites away (RowsOnlyGo).  For codes: the code of a deleted site     *)
(* stays active when used_sites is more than one; that number never        *)
(* exceeds the sites of the code whose job is done, so that one is left.   *)
(***************************************************************************)
EXTENDS CodeLifecycle, FiniteSetTheorems, TLAPS

\* Rows and requests refer to what they need: a session to its code, a site that
\* exists to its code and its domain, a request to the row it has read.
RefersOK ==
    /\ \A x \in Sessions : session[x].status \in {"active", "completed"} =>
                              session[x].code \in Codes
    /\ \A u \in Callers : /\ call[u].op \in {"verify", "replace"} => call[u].code \in Codes
                          /\ call[u].op \in {"reserve", "counted"} =>
                                call[u].session \in Sessions
                          /\ call[u].op = "counted" => call[u].domain \in Domains
    /\ \A s \in SiteIds : IF sites[s].status = "open"
                          THEN sites[s].code \in Codes /\ sites[s].domain \in Domains
                          ELSE sites[s].domain = NoDomain

DoneSitesOf(c) == {s \in OpenSitesOf(c) : sites[s].job = "done"}

\* used_sites counts no site twice and no site that is gone.
UsedCounted ==
    \A c \in Codes : /\ IsFiniteSet(DoneSitesOf(c))
                     /\ code[c].used <= Cardinality(DoneSitesOf(c))

CodesInv == CodesTypeOK /\ RefersOK /\ CodeKnowsItsSite /\ UsedCounted

-----------------------------------------------------------------------------
LEMMA CodesInitial == CodesInit => CodesInv
<1> SUFFICES ASSUME CodesInit PROVE CodesInv
  OBVIOUS
<1>1. CodesTypeOK
  <2>1. code \in [Codes -> Code]
    BY MaxSitesAssumption DEF CodesInit, Code
  <2>2. session \in [Sessions -> Session]
    BY DEF CodesInit, Session, BlankSession
  <2>3. reservation \in [Domains -> Reservation]
    BY DEF CodesInit, Reservation, NoRow
  <2>4. sites \in [SiteIds -> Site]
    BY DEF CodesInit, Site, NoSiteRow
  <2>5. call \in [Callers -> Call]
    BY DEF CodesInit, Call, NoCall
  <2> QED
    BY <2>1, <2>2, <2>3, <2>4, <2>5 DEF CodesTypeOK
<1>2. RefersOK
  BY DEF CodesInit, RefersOK, BlankSession, NoCall, NoSiteRow
<1>3. CodeKnowsItsSite
  BY DEF CodesInit, CodeKnowsItsSite, OpenSitesOf, NoSiteRow
<1>4. UsedCounted
  <2>1. ASSUME NEW c \in Codes PROVE DoneSitesOf(c) = {} /\ code[c].used = 0
    BY DEF CodesInit, DoneSitesOf, OpenSitesOf, NoSiteRow
  <2> QED
    BY <2>1, FS_EmptySet DEF UsedCounted
<1> QED
  BY <1>1, <1>2, <1>3, <1>4 DEF CodesInv

-----------------------------------------------------------------------------
(* Steps that leave the sites alone.                                       *)

\* A code may lose what it is bound to only when it is deleted, and becomes
\* provisioning, failed or active only by a step that touches a site.
CodeKept(c) ==
    /\ code'[c].used = code[c].used
    /\ \/ code'[c].bound = code[c].bound
       \/ code'[c].bound = NoSiteId /\ code'[c].status = "deleted"
    /\ \/ code'[c].status = code[c].status
       \/ code'[c].status \in {"unused", "reserved", "revoked", "expired", "deleted"}

\* A flag of a code changes.
LEMMA FlagsKept ==
    ASSUME CodesInv, NEW c \in Codes, NEW b \in BOOLEAN,
           \/ code' = [code EXCEPT ![c] = [@ EXCEPT !.overdue = b]]
           \/ code' = [code EXCEPT ![c] = [@ EXCEPT !.stale = b]]
    PROVE  code' \in [Codes -> Code] /\ \A k \in Codes : CodeKept(k)
<1>1. PICK new \in {[code[c] EXCEPT !.overdue = b], [code[c] EXCEPT !.stale = b]} :
         code' = [code EXCEPT ![c] = new]
  OBVIOUS
<1>2. /\ new \in Code /\ new.used = code[c].used /\ new.bound = code[c].bound
      /\ new.status = code[c].status
  BY <1>1 DEF CodesInv, CodesTypeOK, Code
<1> QED
  BY <1>1, <1>2 DEF CodesInv, CodesTypeOK, CodeKept

LEMMA SitesKept ==
    ASSUME CodesInv, CodesTypeOK', RefersOK', UNCHANGED sites,
           \A c \in Codes : CodeKept(c)
    PROVE  CodesInv'
<1>1. CodeKnowsItsSite'
  <2> SUFFICES ASSUME NEW c \in Codes
               PROVE  /\ code'[c].bound # NoSiteId => code'[c].bound \in OpenSitesOf(c)
                      /\ code'[c].status \in {"provisioning", "failed"} =>
                            code'[c].bound # NoSiteId
                      /\ code'[c].status = "active" => OpenSitesOf(c) # {}
    BY DEF CodeKnowsItsSite, OpenSitesOf
  <2> QED
    BY DEF CodesInv, CodeKnowsItsSite, CodeKept
<1>2. UsedCounted'
  BY DEF CodesInv, UsedCounted, CodeKept, DoneSitesOf, OpenSitesOf
<1> QED
  BY <1>1, <1>2 DEF CodesInv

\* Nothing but requests and sessions change.
LEMMA CallsAndSessions ==
    ASSUME CodesInv, UNCHANGED <<code, reservation, sites>>,
           session' \in [Sessions -> Session], call' \in [Callers -> Call], RefersOK'
    PROVE  CodesInv'
<1>1. CodesTypeOK' /\ \A c \in Codes : CodeKept(c)
  BY DEF CodesInv, CodesTypeOK, CodeKept
<1> QED
  BY <1>1, SitesKept

\* A request that ends.
LEMMA EndedCall ==
    ASSUME CodesInv, NEW u \in Callers, call' = [call EXCEPT ![u] = NoCall]
    PROVE  /\ call' \in [Callers -> Call]
           /\ \A v \in Callers : call'[v].op = "none" \/ call'[v] = call[v]
BY DEF CodesInv, CodesTypeOK, Call, NoCall

\* A session that is made of a code.
LEMMA MadeSession ==
    ASSUME CodesInv, NEW u \in Callers, NEW c \in Codes, NEW x \in Sessions,
           NEW f \in {"active", "completed"}, NEW j \in SiteIds \cup {NoSiteId},
           session' = [session EXCEPT ![x] = NewSession(u, c, f, j)]
    PROVE  /\ session' \in [Sessions -> Session]
           /\ \A y \in Sessions : session'[y].code \in Codes \/ session'[y] = session[y]
<1>1. NewSession(u, c, f, j) \in Session /\ NewSession(u, c, f, j).code = c
  BY DEF NewSession, BlankSession, Session
<1> QED
  BY <1>1 DEF CodesInv, CodesTypeOK

-----------------------------------------------------------------------------
(* The requests of callers.                                                *)

LEMMA VerifyReadKeeps ==
    ASSUME CodesInv, NEW u \in Callers, NEW c \in Codes, VerifyRead(u, c)
    PROVE  CodesInv'
<1> DEFINE new == [NoCall EXCEPT !.op = "verify", !.code = c,
                                 !.status = code[c].status, !.bound = code[c].bound]
<1>1. new \in Call /\ new.op = "verify" /\ new.code = c
  BY DEF CodesInv, CodesTypeOK, Code, Call, NoCall, VerifyRead
<1>2. call' = [call EXCEPT ![u] = new]
  BY DEF VerifyRead
<1> HIDE DEF new
<1>3. call' \in [Callers -> Call] /\ RefersOK'
  BY <1>1, <1>2 DEF VerifyRead, CodesInv, CodesTypeOK, RefersOK
<1> QED
  BY <1>3, CallsAndSessions DEF VerifyRead, CodesInv, CodesTypeOK

LEMMA VerifyResumeKeeps == ASSUME CodesInv, NEW u \in Callers, VerifyResume(u) PROVE CodesInv'
<1>1. PICK x \in Sessions : session' = [session EXCEPT ![x].token = u]
  BY DEF VerifyResume, LiveSessions
<1>2. /\ session' \in [Sessions -> Session]
      /\ \A y \in Sessions : /\ session'[y].status = session[y].status
                            /\ session'[y].code = session[y].code
  BY <1>1 DEF CodesInv, CodesTypeOK, Session
<1>3. call' \in [Callers -> Call]
      /\ \A v \in Callers : call'[v].op = "none" \/ call'[v] = call[v]
  BY EndedCall DEF VerifyResume
<1>4. RefersOK'
  BY <1>2, <1>3 DEF VerifyResume, CodesInv, RefersOK
<1> QED
  BY <1>2, <1>3, <1>4, CallsAndSessions DEF VerifyResume

LEMMA VerifyFindsNoneKeeps ==
    ASSUME CodesInv, NEW u \in Callers, VerifyFindsNone(u) PROVE CodesInv'
<1>1. call' \in [Callers -> Call]
  BY DEF VerifyFindsNone, CodesInv, CodesTypeOK, Call
<1>2. RefersOK'
  BY DEF VerifyFindsNone, CodesInv, CodesTypeOK, RefersOK
<1> QED
  BY <1>1, <1>2, CallsAndSessions DEF VerifyFindsNone, CodesInv, CodesTypeOK

LEMMA VerifyReturnKeeps == ASSUME CodesInv, NEW u \in Callers, VerifyReturn(u) PROVE CodesInv'
<1>1. PICK x \in Sessions :
        session' = [session EXCEPT ![x] =
                       NewSession(u, call[u].code, "completed", call[u].bound)]
  BY DEF VerifyReturn
<1>2. call[u].code \in Codes /\ call[u].bound \in SiteIds \cup {NoSiteId}
  BY DEF VerifyReturn, CodesInv, CodesTypeOK, RefersOK, Call
<1>3. /\ session' \in [Sessions -> Session]
      /\ \A y \in Sessions : session'[y].code \in Codes \/ session'[y] = session[y]
  BY <1>1, <1>2, MadeSession
<1>4. call' \in [Callers -> Call]
      /\ \A v \in Callers : call'[v].op = "none" \/ call'[v] = call[v]
  BY EndedCall DEF VerifyReturn
<1>5. RefersOK'
  BY <1>3, <1>4 DEF VerifyReturn, CodesInv, RefersOK
<1> QED
  BY <1>3, <1>4, <1>5, CallsAndSessions DEF VerifyReturn

\* A session is made, and the code changes at most to be reserved.
LEMMA MakesActiveSession ==
    ASSUME CodesInv, NEW u \in Callers, call[u].code \in Codes,
           \E x \in Sessions : session' =
               [session EXCEPT ![x] = NewSession(u, call[u].code, "active", NoSiteId)],
           call' = [call EXCEPT ![u] = NoCall], UNCHANGED <<reservation, sites>>,
           code' \in [Codes -> Code], \A c \in Codes : CodeKept(c)
    PROVE  CodesInv'
<1>1. /\ session' \in [Sessions -> Session]
      /\ \A y \in Sessions : session'[y].code \in Codes \/ session'[y] = session[y]
  BY MadeSession
<1>2. call' \in [Callers -> Call]
      /\ \A v \in Callers : call'[v].op = "none" \/ call'[v] = call[v]
  BY EndedCall
<1>3. CodesTypeOK'
  BY <1>1, <1>2 DEF CodesInv, CodesTypeOK
<1>4. RefersOK'
  BY <1>1, <1>2 DEF CodesInv, RefersOK
<1> QED
  BY <1>3, <1>4, SitesKept

LEMMA VerifyReplaceKeeps == ASSUME CodesInv, NEW u \in Callers, VerifyReplace(u) PROVE CodesInv'
<1>1. call[u].code \in Codes
  BY DEF VerifyReplace, CodesInv, RefersOK
<1>2. code' \in [Codes -> Code] /\ \A c \in Codes : CodeKept(c)
  <2>1. code' = code \/ code' = [code EXCEPT ![call[u].code] = [@ EXCEPT !.stale = FALSE]]
    BY DEF VerifyReplace
  <2>2. CASE code' = code
    BY <2>2 DEF CodesInv, CodesTypeOK, CodeKept
  <2> QED
    BY <1>1, <2>1, <2>2, FlagsKept
<1> QED
  BY <1>1, <1>2, MakesActiveSession DEF VerifyReplace

LEMMA VerifyReserveKeeps == ASSUME CodesInv, NEW u \in Callers, VerifyReserve(u) PROVE CodesInv'
<1>1. call[u].code \in Codes
  BY DEF VerifyReserve, CodesInv, RefersOK
<1>2. code' \in [Codes -> Code] /\ \A c \in Codes : CodeKept(c)
  <2> DEFINE k == call[u].code
             new == [code[k] EXCEPT !.status = "reserved", !.stale = FALSE]
  <2>1. new \in Code /\ new.used = code[k].used /\ new.bound = code[k].bound
        /\ new.status = "reserved"
    BY <1>1 DEF CodesInv, CodesTypeOK, Code, CodeStatus
  <2>2. code' = [code EXCEPT ![k] = new]
    BY DEF VerifyReserve
  <2> HIDE DEF new
  <2> QED
    BY <1>1, <2>1, <2>2 DEF CodesInv, CodesTypeOK, CodeKept
<1> QED
  BY <1>1, <1>2, MakesActiveSession DEF VerifyReserve

LEMMA CallFailsKeeps == ASSUME CodesInv, NEW u \in Callers, CallFails(u) PROVE CodesInv'
<1>1. call' \in [Callers -> Call]
      /\ \A v \in Callers : call'[v].op = "none" \/ call'[v] = call[v]
  BY EndedCall DEF CallFails
<1>2. RefersOK'
  BY <1>1 DEF CallFails, CodesInv, RefersOK
<1> QED
  BY <1>1, <1>2, CallsAndSessions DEF CallFails, CodesInv, CodesTypeOK

LEMMA ReserveReadKeeps ==
    ASSUME CodesInv, NEW u \in Callers, NEW x \in Sessions, ReserveRead(u, x)
    PROVE  CodesInv'
<1> DEFINE new == [NoCall EXCEPT !.op = "reserve", !.session = x]
<1>1. new \in Call /\ new.op = "reserve" /\ new.session = x
  BY DEF Call, NoCall
<1>2. call' = [call EXCEPT ![u] = new]
  BY DEF ReserveRead
<1> HIDE DEF new
<1>3. call' \in [Callers -> Call] /\ RefersOK'
  BY <1>1, <1>2 DEF ReserveRead, CodesInv, CodesTypeOK, RefersOK
<1> QED
  BY <1>3, CallsAndSessions DEF ReserveRead, CodesInv, CodesTypeOK

LEMMA ReserveCountKeeps ==
    ASSUME CodesInv, NEW u \in Callers, NEW d \in Domains, ReserveCount(u, d)
    PROVE  CodesInv'
<1> DEFINE new == [call[u] EXCEPT !.op = "counted", !.domain = d]
<1>1. call \in [Callers -> Call] /\ call[u].session \in Sessions
  BY DEF ReserveCount, CodesInv, CodesTypeOK, RefersOK
<1>2. /\ new \in Call /\ new.op = "counted" /\ new.domain = d
      /\ new.session = call[u].session
  BY <1>1 DEF Call
<1>3. call' = [call EXCEPT ![u] = new]
  BY DEF ReserveCount
<1> HIDE DEF new
<1>4. call' \in [Callers -> Call] /\ RefersOK'
  BY <1>1, <1>2, <1>3 DEF ReserveCount, CodesInv, RefersOK
<1> QED
  BY <1>4, CallsAndSessions DEF ReserveCount, CodesInv, CodesTypeOK

LEMMA ReserveDomainKeeps == ASSUME CodesInv, NEW u \in Callers, ReserveDomain(u) PROVE CodesInv'
<1> DEFINE x == call[u].session
           d == call[u].domain
<1>1. x \in Sessions /\ d \in Domains
  BY DEF ReserveDomain, CodesInv, RefersOK
<1>2. /\ reservation' = [reservation EXCEPT
                            ![d] = [owner |-> x, live |-> TRUE, consumed |-> FALSE]]
      /\ session' = [session EXCEPT ![x].reservation = d]
  BY DEF ReserveDomain
<1> HIDE DEF x, d
<1>3. reservation' \in [Domains -> Reservation]
  BY <1>1, <1>2 DEF CodesInv, CodesTypeOK, Reservation
<1>4. /\ session' \in [Sessions -> Session]
      /\ \A y \in Sessions : /\ session'[y].status = session[y].status
                            /\ session'[y].code = session[y].code
  BY <1>1, <1>2 DEF CodesInv, CodesTypeOK, Session
<1>5. call' \in [Callers -> Call]
      /\ \A v \in Callers : call'[v].op = "none" \/ call'[v] = call[v]
  BY EndedCall DEF ReserveDomain
<1>6. CodesTypeOK'
  BY <1>3, <1>4, <1>5 DEF ReserveDomain, CodesInv, CodesTypeOK
<1>7. RefersOK'
  BY <1>4, <1>5 DEF ReserveDomain, CodesInv, RefersOK
<1>8. UNCHANGED sites /\ \A c \in Codes : CodeKept(c)
  BY DEF ReserveDomain, CodeKept
<1> QED
  BY <1>6, <1>7, <1>8, SitesKept

-----------------------------------------------------------------------------
(* Rows that go together.                                                  *)

LEMMA DropSessionsKeeps ==
    ASSUME CodesInv, NEW dead, NEW more, DropSessions(dead, more)
    PROVE  /\ session' \in [Sessions -> Session]
           /\ reservation' \in [Domains -> Reservation]
           /\ \A x \in Sessions :
                 \/ session'[x].status = "deleted"
                 \/ /\ session'[x].status = session[x].status
                    /\ session'[x].code = session[x].code
           /\ \A d \in Domains : reservation'[d] \in {reservation[d], NoRow}
<1> DEFINE gone == more \cup {d \in Domains : reservation[d].owner \in dead}
           left == [x \in Sessions |-> IF x \in dead THEN BlankSession("deleted")
                                       ELSE session[x]]
<1>1. left \in [Sessions -> Session]
  BY DEF CodesInv, CodesTypeOK, BlankSession, Session
<1>2. \A x \in Sessions : \/ left[x].status = "deleted"
                         \/ left[x] = session[x]
  BY DEF BlankSession
<1>3. /\ session' = WithoutReservations(left, gone)
      /\ reservation' = [d \in Domains |-> IF d \in gone THEN NoRow ELSE reservation[d]]
  BY DEF DropSessions
<1> HIDE DEF left, gone
<1>4. /\ session' \in [Sessions -> Session]
      /\ \A x \in Sessions : /\ session'[x].status = left[x].status
                            /\ session'[x].code = left[x].code
  BY <1>1, <1>3 DEF WithoutReservations, Session
<1>5. /\ reservation' \in [Domains -> Reservation]
      /\ \A d \in Domains : reservation'[d] \in {reservation[d], NoRow}
  BY <1>3 DEF CodesInv, CodesTypeOK, NoRow, Reservation
<1> QED
  BY <1>2, <1>4, <1>5

\* Sessions and reservations go, codes change at most as CodeKept allows.
LEMMA DropsRows ==
    ASSUME CodesInv, NEW dead, NEW more, DropSessions(dead, more),
           UNCHANGED <<sites, call>>, code' \in [Codes -> Code],
           \A c \in Codes : CodeKept(c)
    PROVE  CodesInv'
<1>1. CodesTypeOK'
  BY DropSessionsKeeps DEF CodesInv, CodesTypeOK
<1>2. RefersOK'
  BY DropSessionsKeeps DEF CodesInv, RefersOK
<1> QED
  BY <1>1, <1>2, SitesKept

\* Only codes change, as CodeKept allows.
LEMMA OnlyCodes ==
    ASSUME CodesInv, UNCHANGED <<session, reservation, sites, call>>,
           code' \in [Codes -> Code], \A c \in Codes : CodeKept(c)
    PROVE  CodesInv'
<1>1. CodesTypeOK' /\ RefersOK'
  BY DEF CodesInv, CodesTypeOK, RefersOK
<1> QED
  BY <1>1, SitesKept

LEMMA AdminKeeps == ASSUME CodesInv, NEW c \in Codes, Admin(c) PROVE CodesInv'
<1>1. CASE CreateCode(c)
  <2>1. code' \in [Codes -> Code] /\ \A k \in Codes : CodeKept(k)
    BY <1>1 DEF CreateCode, CodesInv, CodesTypeOK, Code, CodeStatus, CodeKept
  <2> QED
    BY <1>1, <2>1, OnlyCodes DEF CreateCode
<1>2. CASE RevokeCode(c)
  <2>1. code' \in [Codes -> Code] /\ \A k \in Codes : CodeKept(k)
    BY <1>2 DEF RevokeCode, CodesInv, CodesTypeOK, Code, CodeStatus, CodeKept
  <2> QED
    BY <1>2, <2>1, OnlyCodes DEF RevokeCode
<1>3. CASE DeleteCode(c)
  <2>1. code' \in [Codes -> Code] /\ \A k \in Codes : CodeKept(k)
    BY <1>3 DEF DeleteCode, CodesInv, CodesTypeOK, Code, CodeKept
  <2> QED
    BY <1>3, <2>1, DropsRows DEF DeleteCode
<1> QED
  BY <1>1, <1>2, <1>3 DEF Admin

LEMMA RunMaintenanceKeeps == ASSUME CodesInv, RunMaintenance PROVE CodesInv'
<1>1. ASSUME NEW c \in Codes
      PROVE  /\ SweptCode(code[c]) \in Code
             /\ SweptCode(code[c]).used = code[c].used
             /\ SweptCode(code[c]).bound = code[c].bound
             /\ \/ SweptCode(code[c]).status = code[c].status
                \/ SweptCode(code[c]).status \in {"unused", "expired"}
  <2>1. code[c] \in Code
    BY DEF CodesInv, CodesTypeOK
  <2>2. SweptCode(code[c]) \in {code[c], [code[c] EXCEPT !.status = "expired"],
                                [code[c] EXCEPT !.status = "unused", !.stale = FALSE]}
    BY DEF SweptCode
  <2> QED
    BY <2>1, <2>2 DEF Code, CodeStatus
<1>2. code' = [c \in Codes |-> SweptCode(code[c])]
  BY DEF RunMaintenance
<1>3. code' \in [Codes -> Code] /\ \A c \in Codes : CodeKept(c)
  BY <1>1, <1>2 DEF CodeKept
<1> QED
  BY <1>3, DropsRows DEF RunMaintenance

LEMMA TimeKeeps == ASSUME CodesInv, Time PROVE CodesInv'
<1>1. ASSUME NEW x \in Sessions, SessionExpires(x) PROVE CodesInv'
  <2>1. /\ session' \in [Sessions -> Session]
        /\ \A y \in Sessions : /\ session'[y].status = session[y].status
                              /\ session'[y].code = session[y].code
    <3>1. session \in [Sessions -> Session]
      BY DEF CodesInv, CodesTypeOK
    <3>2. /\ [session[x] EXCEPT !.live = FALSE] \in Session
          /\ [session[x] EXCEPT !.live = FALSE].status = session[x].status
          /\ [session[x] EXCEPT !.live = FALSE].code = session[x].code
      BY <3>1 DEF Session
    <3> QED
      BY <1>1, <3>1, <3>2 DEF SessionExpires
  <2>2. RefersOK'
    BY <1>1, <2>1 DEF SessionExpires, CodesInv, RefersOK
  <2> QED
    BY <1>1, <2>1, <2>2, CallsAndSessions DEF SessionExpires, CodesInv, CodesTypeOK
<1>2. ASSUME NEW d \in Domains, ReservationExpires(d) PROVE CodesInv'
  <2>1. reservation' \in [Domains -> Reservation]
    BY <1>2 DEF ReservationExpires, CodesInv, CodesTypeOK, Reservation
  <2>2. CodesTypeOK' /\ RefersOK' /\ \A c \in Codes : CodeKept(c)
    BY <1>2, <2>1 DEF ReservationExpires, CodesInv, CodesTypeOK, RefersOK, CodeKept
  <2> QED
    BY <1>2, <2>2, SitesKept DEF ReservationExpires
<1>3. ASSUME NEW c \in Codes, CodeExpires(c) \/ ReservedTooLong(c) PROVE CodesInv'
  <2>0. \/ code' = [code EXCEPT ![c] = [@ EXCEPT !.overdue = TRUE]]
        \/ code' = [code EXCEPT ![c] = [@ EXCEPT !.stale = TRUE]]
    BY <1>3 DEF CodeExpires, ReservedTooLong
  <2>1. code' \in [Codes -> Code] /\ \A k \in Codes : CodeKept(k)
    BY <2>0, FlagsKept
  <2> QED
    BY <1>3, <2>1, OnlyCodes DEF CodeExpires, ReservedTooLong
<1> QED
  BY <1>1, <1>2, <1>3 DEF Time

-----------------------------------------------------------------------------
(* Sites.                                                                  *)

\* A new site takes its code and its domain from the session.
LEMMA OpenSiteKeeps ==
    ASSUME CodesInv, NEW u \in Callers, NEW x \in Sessions, NEW s \in SiteIds,
           OpenSite(u, x, s)
    PROVE  CodesInv'
<1> DEFINE d == session[x].reservation
           c == session[x].code
           new == [status |-> "open", code |-> c, domain |-> d, job |-> "queued", by |-> x]
<1>1. c \in Codes /\ d \in Domains
  BY DEF OpenSite, CodesInv, CodesTypeOK, RefersOK, Session
<1>2. /\ sites' = [sites EXCEPT ![s] = new]
      /\ code' = [code EXCEPT ![c].status = "provisioning", ![c].bound = s]
      /\ reservation' = [reservation EXCEPT ![d].consumed = TRUE]
      /\ session' = [session EXCEPT ![x].status = "completed", ![x].job = s]
      /\ call' = call /\ sites[s].status = "none"
      /\ session[x].status \in {"active", "completed"}
  BY DEF OpenSite, CompleteSession
<1>3. new \in Site
  BY <1>1 DEF Site
<1> HIDE DEF c, d
<1>4. CodesTypeOK'
  <2>1. code' \in [Codes -> Code]
    <3>1. code \in [Codes -> Code]
      BY DEF CodesInv, CodesTypeOK
    <3>2. [code[c] EXCEPT !.status = "provisioning", !.bound = s] \in Code
      BY <1>1, <3>1 DEF Code, CodeStatus
    <3> QED
      BY <1>1, <1>2, <3>1, <3>2
  <2>2. session' \in [Sessions -> Session]
    <3>1. session \in [Sessions -> Session]
      BY DEF CodesInv, CodesTypeOK
    <3>2. [session[x] EXCEPT !.status = "completed", !.job = s] \in Session
      BY <3>1 DEF Session
    <3> QED
      BY <1>2, <3>1, <3>2
  <2>3. reservation' \in [Domains -> Reservation]
    BY <1>1, <1>2 DEF CodesInv, CodesTypeOK, Reservation
  <2>4. sites' \in [SiteIds -> Site] /\ call' \in [Callers -> Call]
    BY <1>2, <1>3 DEF CodesInv, CodesTypeOK
  <2> QED
    BY <2>1, <2>2, <2>3, <2>4 DEF CodesTypeOK
<1>5. RefersOK'
  <2>1. \A y \in Sessions :
           /\ session'[y].code = session[y].code
           /\ session'[y].status = session[y].status \/ (y = x /\ session[x].code \in Codes)
    BY <1>1, <1>2 DEF CodesInv, CodesTypeOK, Session, c
  <2>2. \A t \in SiteIds : sites'[t] = IF t = s THEN new ELSE sites[t]
    BY <1>2 DEF CodesInv, CodesTypeOK
  <2>3. \A y \in Sessions : session'[y].status \in {"active", "completed"} =>
                               session'[y].code \in Codes
    BY <2>1, <1>2 DEF CodesInv, RefersOK
  <2>4. \A t \in SiteIds : IF sites'[t].status = "open"
                          THEN sites'[t].code \in Codes /\ sites'[t].domain \in Domains
                          ELSE sites'[t].domain = NoDomain
    BY <2>2, <1>1 DEF CodesInv, RefersOK
  <2> QED
    BY <2>3, <2>4, <1>2 DEF CodesInv, RefersOK
<1>6. \A k \in Codes : OpenSitesOf(k)' = IF k = c THEN OpenSitesOf(k) \cup {s}
                                         ELSE OpenSitesOf(k)
  BY <1>2 DEF OpenSitesOf, CodesInv, CodesTypeOK
<1>7. CodeKnowsItsSite'
  <2>1. \A k \in Codes : k # c => code'[k] = code[k]
    BY <1>1, <1>2 DEF CodesInv, CodesTypeOK
  <2>2. code'[c].status = "provisioning" /\ code'[c].bound = s
    BY <1>1, <1>2 DEF CodesInv, CodesTypeOK, Code
  <2> QED
    BY <1>6, <2>1, <2>2, NullAssumption DEF CodesInv, CodeKnowsItsSite
<1>8. UsedCounted'
  <2>1. \A k \in Codes : DoneSitesOf(k)' = DoneSitesOf(k) /\ code'[k].used = code[k].used
    BY <1>1, <1>2 DEF DoneSitesOf, OpenSitesOf, CodesInv, CodesTypeOK, Code
  <2> QED
    BY <2>1 DEF CodesInv, UsedCounted
<1> QED
  BY <1>4, <1>5, <1>7, <1>8 DEF CodesInv

-----------------------------------------------------------------------------
(* The end of a job.                                                       *)

\* The job of a site changes, and codes as the step says; everything else stays.
LEMMA JobChanges ==
    ASSUME CodesInv, NEW s \in SiteIds, NEW f \in {"failed", "again", "done"},
           sites' = [sites EXCEPT ![s].job = f], UNCHANGED <<session, reservation, call>>,
           code' \in [Codes -> Code], CodeKnowsItsSite', UsedCounted'
    PROVE  CodesInv'
<1>1. sites' \in [SiteIds -> Site]
      /\ \A t \in SiteIds : /\ sites'[t].status = sites[t].status
                           /\ sites'[t].code = sites[t].code
                           /\ sites'[t].domain = sites[t].domain
  BY DEF CodesInv, CodesTypeOK, Site
<1>2. CodesTypeOK' /\ RefersOK'
  BY <1>1 DEF CodesInv, CodesTypeOK, RefersOK
<1> QED
  BY <1>2 DEF CodesInv

\* The sites of a code, and those that are done, when only the job of s changes.
LEMMA SitesOfCode ==
    ASSUME CodesInv, NEW s \in SiteIds, NEW f \in {"failed", "again", "done"},
           sites' = [sites EXCEPT ![s].job = f], sites[s].job # "done", NEW c \in Codes
    PROVE  /\ OpenSitesOf(c)' = OpenSitesOf(c)
           /\ s \notin DoneSitesOf(c)
           /\ DoneSitesOf(c)' = IF f = "done" /\ s \in OpenSitesOf(c)
                                THEN DoneSitesOf(c) \cup {s} ELSE DoneSitesOf(c)
<1>1. \A t \in SiteIds : /\ sites'[t].status = sites[t].status
                       /\ sites'[t].code = sites[t].code
                       /\ sites'[t].job = IF t = s THEN f ELSE sites[t].job
  BY DEF CodesInv, CodesTypeOK, Site
<1>2. OpenSitesOf(c)' = OpenSitesOf(c)
  BY <1>1 DEF OpenSitesOf
<1> QED
  BY <1>1, <1>2 DEF DoneSitesOf, OpenSitesOf

LEMMA ProvisionSucceedsKeeps ==
    ASSUME CodesInv, NEW s \in SiteIds, ProvisionSucceeds(s) PROVE CodesInv'
<1>1. sites' = [sites EXCEPT ![s].job = "done"] /\ sites[s].job # "done"
  BY DEF ProvisionSucceeds
<1>2. \A c \in Codes : code'[c] = IF code[c].bound = s THEN UsedCode(code[c]) ELSE code[c]
  BY DEF ProvisionSucceeds, CodesBoundTo
<1>3. ASSUME NEW c \in Codes
      PROVE  /\ UsedCode(code[c]) \in Code
             /\ UsedCode(code[c]).status = "active"
             /\ UsedCode(code[c]).bound = code[c].bound
             /\ UsedCode(code[c]).used <= code[c].used + 1
             /\ code[c].used \in Nat
  <2> DEFINE n == IF code[c].used < MaxSites THEN code[c].used + 1 ELSE code[c].used
  <2>1. code[c] \in Code /\ code[c].used \in 0..MaxSites
    BY DEF CodesInv, CodesTypeOK, Code
  <2>2. n \in 0..MaxSites /\ n <= code[c].used + 1
    BY <2>1, MaxSitesAssumption
  <2>3. UsedCode(code[c]) = [code[c] EXCEPT !.status = "active", !.used = n]
    BY DEF UsedCode
  <2> HIDE DEF n
  <2>4. UsedCode(code[c]) \in Code
    BY <2>1, <2>2, <2>3 DEF Code, CodeStatus
  <2>5. /\ UsedCode(code[c]).status = "active" /\ UsedCode(code[c]).used = n
        /\ UsedCode(code[c]).bound = code[c].bound
    BY <2>1, <2>3 DEF Code
  <2> QED
    BY <2>1, <2>2, <2>4, <2>5
<1>4. code' \in [Codes -> Code]
  BY <1>3 DEF ProvisionSucceeds, CodesInv, CodesTypeOK
<1>5. CodeKnowsItsSite'
  <2> SUFFICES ASSUME NEW c \in Codes
               PROVE  /\ code'[c].bound # NoSiteId => code'[c].bound \in OpenSitesOf(c)'
                      /\ code'[c].status \in {"provisioning", "failed"} =>
                            code'[c].bound # NoSiteId
                      /\ code'[c].status = "active" => OpenSitesOf(c)' # {}
    BY DEF CodeKnowsItsSite
  <2>1. OpenSitesOf(c)' = OpenSitesOf(c)
    BY <1>1, SitesOfCode
  <2>2. code[c].bound = s => s \in OpenSitesOf(c)
    BY NullAssumption DEF CodesInv, CodeKnowsItsSite
  <2> QED
    BY <2>1, <2>2, <1>2, <1>3 DEF CodesInv, CodeKnowsItsSite
<1>6. UsedCounted'
  <2> SUFFICES ASSUME NEW c \in Codes
               PROVE  /\ IsFiniteSet(DoneSitesOf(c)')
                      /\ code'[c].used <= Cardinality(DoneSitesOf(c)')
    BY DEF UsedCounted
  <2>1. /\ s \notin DoneSitesOf(c)
        /\ DoneSitesOf(c)' = IF s \in OpenSitesOf(c) THEN DoneSitesOf(c) \cup {s}
                             ELSE DoneSitesOf(c)
    BY <1>1, SitesOfCode
  <2>2. /\ IsFiniteSet(DoneSitesOf(c)) /\ Cardinality(DoneSitesOf(c)) \in Nat
        /\ code[c].used <= Cardinality(DoneSitesOf(c))
    BY FS_CardinalityType DEF CodesInv, UsedCounted
  <2>3. CASE s \in OpenSitesOf(c)
    <3>1. DoneSitesOf(c)' = DoneSitesOf(c) \cup {s}
      BY <2>1, <2>3
    <3>2. /\ IsFiniteSet(DoneSitesOf(c)')
          /\ Cardinality(DoneSitesOf(c)') = Cardinality(DoneSitesOf(c)) + 1
      BY <3>1, <2>1, <2>2, FS_AddElement
    <3>3. code'[c].used <= code[c].used + 1 /\ code'[c].used \in Nat
      BY <1>2, <1>3, <1>4, MaxSitesAssumption DEF Code
    <3> QED
      BY <3>2, <3>3, <2>2, <1>3
  <2>4. CASE s \notin OpenSitesOf(c)
    <3>1. DoneSitesOf(c)' = DoneSitesOf(c)
      BY <2>1, <2>4
    <3>2. code[c].bound # s
      BY <2>4, NullAssumption DEF CodesInv, CodeKnowsItsSite
    <3>3. code'[c] = code[c]
      BY <3>2, <1>2
    <3> QED
      BY <3>1, <3>3, <2>2
  <2> QED
    BY <2>3, <2>4
<1> QED
  BY <1>1, <1>4, <1>5, <1>6, JobChanges DEF ProvisionSucceeds

LEMMA ProvisionFailsKeeps ==
    ASSUME CodesInv, NEW s \in SiteIds, ProvisionFails(s) PROVE CodesInv'
<1>1. sites' = [sites EXCEPT ![s].job = "failed"] /\ sites[s].job # "done"
  BY DEF ProvisionFails
<1>2. \A c \in Codes : /\ code'[c].used = code[c].used
                     /\ code'[c].bound = code[c].bound
                     /\ code'[c].status = IF code[c].bound = s THEN "failed"
                                          ELSE code[c].status
  BY DEF ProvisionFails, CodesBoundTo, CodesInv, CodesTypeOK, Code
<1>3. code' \in [Codes -> Code]
  BY DEF ProvisionFails, CodesInv, CodesTypeOK, Code, CodeStatus
<1>4. CodeKnowsItsSite'
  <2>1. \A c \in Codes : OpenSitesOf(c)' = OpenSitesOf(c)
    BY <1>1, SitesOfCode
  <2> QED
    BY <2>1, <1>2, NullAssumption DEF CodesInv, CodeKnowsItsSite
<1>5. UsedCounted'
  <2>1. \A c \in Codes : DoneSitesOf(c)' = DoneSitesOf(c)
    BY <1>1, SitesOfCode
  <2> QED
    BY <2>1, <1>2 DEF CodesInv, UsedCounted
<1> QED
  BY <1>1, <1>3, <1>4, <1>5, JobChanges DEF ProvisionFails

LEMMA RetryProvisionKeeps ==
    ASSUME CodesInv, NEW s \in SiteIds, RetryProvision(s) PROVE CodesInv'
<1>1. sites' = [sites EXCEPT ![s].job = "again"] /\ sites[s].job # "done" /\ code' = code
  BY DEF RetryProvision
<1>2. \A c \in Codes : OpenSitesOf(c)' = OpenSitesOf(c) /\ DoneSitesOf(c)' = DoneSitesOf(c)
  BY <1>1, SitesOfCode
<1>3. CodeKnowsItsSite' /\ UsedCounted'
  BY <1>1, <1>2 DEF CodesInv, CodeKnowsItsSite, UsedCounted
<1> QED
  BY <1>1, <1>3, JobChanges DEF RetryProvision, CodesInv, CodesTypeOK

\* When used_sites is left positive, one of the sites that are done is left.
LEMMA FinalizeSiteDeletionKeeps ==
    ASSUME CodesInv, NEW s \in SiteIds, FinalizeSiteDeletion(s) PROVE CodesInv'
<1> DEFINE new == [sites[s] EXCEPT !.status = "deleted", !.domain = NoDomain, !.code = NoCode]
<1>0. PICK c \in Codes : sites[s].code = c
  BY DEF FinalizeSiteDeletion, CodesInv, RefersOK
<1>1. /\ s \in OpenSitesOf(c)
      /\ DropSessions({x \in Sessions : session[x].job = s}, {sites[s].domain})
  BY <1>0 DEF FinalizeSiteDeletion, OpenSitesOf
<1>2. /\ code' = [code EXCEPT ![c] = ReleasedCode(code[c], s)]
      /\ sites' = [sites EXCEPT ![s] = new]
      /\ call' = call
  BY <1>0 DEF FinalizeSiteDeletion, CodesInv, CodesTypeOK
<1>3. new \in Site /\ new.status = "deleted" /\ new.domain = NoDomain
  BY DEF CodesInv, CodesTypeOK, Site
<1> DEFINE left == IF code[c].used > 0 THEN code[c].used - 1 ELSE 0
<1>4. /\ ReleasedCode(code[c], s) \in Code
      /\ ReleasedCode(code[c], s).used = left
      /\ ReleasedCode(code[c], s).status \in {"expired", "unused", "active"}
      /\ ReleasedCode(code[c], s).status = "active" => left > 0
      /\ ReleasedCode(code[c], s).bound =
            IF code[c].bound = s THEN NoSiteId ELSE code[c].bound
  <2> DEFINE f == IF code[c].overdue THEN "expired"
                  ELSE IF left = 0 THEN "unused" ELSE "active"
             j == IF code[c].bound = s THEN NoSiteId ELSE code[c].bound
             b == code[c].stale /\ left > 0
  <2>1. /\ code[c] \in Code /\ code[c].used \in 0..MaxSites
        /\ code[c].bound \in SiteIds \cup {NoSiteId}
    BY DEF CodesInv, CodesTypeOK, Code
  <2>2. left \in 0..MaxSites
    BY <2>1, MaxSitesAssumption
  <2>3. f \in {"expired", "unused", "active"} /\ (f = "active" => left > 0)
    <3>1. f = "expired" \/ f = "unused" \/ (left # 0 /\ f = "active")
      BY Zenon
    <3> HIDE DEF f, left
    <3>2. left # 0 => left > 0
      BY <2>2, MaxSitesAssumption
    <3> QED
      BY <3>1, <3>2
  <2>4. j \in SiteIds \cup {NoSiteId}
    BY <2>1
  <2>5. b \in BOOLEAN
    OBVIOUS
  <2>6. ReleasedCode(code[c], s) =
           [code[c] EXCEPT !.used = left, !.status = f, !.bound = j, !.stale = b]
    BY DEF ReleasedCode
  <2> HIDE DEF left, f, j, b
  <2>7. ReleasedCode(code[c], s) \in Code
    BY <2>1, <2>2, <2>3, <2>4, <2>5, <2>6 DEF Code, CodeStatus
  <2>8. /\ ReleasedCode(code[c], s).used = left /\ ReleasedCode(code[c], s).status = f
        /\ ReleasedCode(code[c], s).bound = j
    BY <2>1, <2>6 DEF Code
  <2> QED
    BY <2>3, <2>7, <2>8 DEF j
<1> HIDE DEF new
<1>5. /\ \A t \in SiteIds : sites'[t] = IF t = s THEN new ELSE sites[t]
      /\ \A k \in Codes : code'[k] = IF k = c THEN ReleasedCode(code[c], s) ELSE code[k]
  BY <1>2 DEF CodesInv, CodesTypeOK
<1>6. CodesTypeOK'
  BY <1>1, <1>2, <1>3, <1>4, DropSessionsKeeps DEF CodesInv, CodesTypeOK
<1>7. RefersOK'
  BY <1>1, <1>2, <1>3, <1>5, DropSessionsKeeps DEF CodesInv, RefersOK
<1>8. ASSUME NEW k \in Codes
      PROVE  /\ OpenSitesOf(k)' = OpenSitesOf(k) \ {s}
             /\ DoneSitesOf(k)' = DoneSitesOf(k) \ {s}
             /\ k # c => s \notin OpenSitesOf(k) /\ s \notin DoneSitesOf(k)
  BY <1>0, <1>3, <1>5 DEF OpenSitesOf, DoneSitesOf
<1>9. UsedCounted'
  <2> SUFFICES ASSUME NEW k \in Codes
               PROVE  /\ IsFiniteSet(DoneSitesOf(k)')
                      /\ code'[k].used <= Cardinality(DoneSitesOf(k)')
    BY DEF UsedCounted
  <2>1. /\ IsFiniteSet(DoneSitesOf(k)) /\ Cardinality(DoneSitesOf(k)) \in Nat
        /\ code[k].used <= Cardinality(DoneSitesOf(k)) /\ code[k].used \in Nat
    BY FS_CardinalityType, MaxSitesAssumption DEF CodesInv, CodesTypeOK, Code, UsedCounted
  <2>2. /\ IsFiniteSet(DoneSitesOf(k)')
        /\ Cardinality(DoneSitesOf(k)') \in Nat
        /\ Cardinality(DoneSitesOf(k)') >= Cardinality(DoneSitesOf(k)) - 1
        /\ k # c => Cardinality(DoneSitesOf(k)') = Cardinality(DoneSitesOf(k))
    <3>1. CASE s \in DoneSitesOf(k)
      <4>1. DoneSitesOf(k)' = DoneSitesOf(k) \ {s} /\ k = c
        BY <3>1, <1>8
      <4>2. /\ IsFiniteSet(DoneSitesOf(k) \ {s})
            /\ Cardinality(DoneSitesOf(k) \ {s}) = Cardinality(DoneSitesOf(k)) - 1
        BY <3>1, <2>1, FS_RemoveElement
      <4>3. Cardinality(DoneSitesOf(k) \ {s}) \in Nat
        BY <4>2, FS_CardinalityType
      <4> QED
        BY <4>1, <4>2, <4>3, <2>1
    <3>2. CASE s \notin DoneSitesOf(k)
      <4>1. DoneSitesOf(k)' = DoneSitesOf(k)
        BY <3>2, <1>8
      <4> QED
        BY <4>1, <2>1
    <3> QED
      BY <3>1, <3>2
  <2>3. CASE k = c
    BY <2>1, <2>2, <2>3, <1>4, <1>5
  <2>4. CASE k # c
    BY <2>1, <2>2, <2>4, <1>5
  <2> QED
    BY <2>3, <2>4
<1>10. CodeKnowsItsSite'
  <2> SUFFICES ASSUME NEW k \in Codes
               PROVE  /\ code'[k].bound # NoSiteId => code'[k].bound \in OpenSitesOf(k)'
                      /\ code'[k].status \in {"provisioning", "failed"} =>
                            code'[k].bound # NoSiteId
                      /\ code'[k].status = "active" => OpenSitesOf(k)' # {}
    BY DEF CodeKnowsItsSite
  <2>1. CASE k # c
    BY <2>1, <1>5, <1>8 DEF CodesInv, CodeKnowsItsSite
  <2>2. CASE k = c
    <3>1. code'[c].status = "active" => OpenSitesOf(c)' # {}
      <4> SUFFICES ASSUME code'[c].status = "active" PROVE OpenSitesOf(c)' # {}
        OBVIOUS
      <4>1. code'[c].used > 0 /\ code'[c].used \in Nat
        BY <1>1, <1>4, <1>5, MaxSitesAssumption DEF CodesInv, CodesTypeOK, Code
      <4>2. /\ IsFiniteSet(DoneSitesOf(c)')
            /\ code'[c].used <= Cardinality(DoneSitesOf(c)')
        BY <1>1, <1>9 DEF UsedCounted
      <4>3. DoneSitesOf(c)' # {}
        BY <4>1, <4>2, FS_EmptySet
      <4> QED
        BY <4>3 DEF DoneSitesOf
    <3>2. code'[c].bound # NoSiteId => code'[c].bound \in OpenSitesOf(c)'
      BY <1>1, <1>4, <1>5, <1>8 DEF CodesInv, CodeKnowsItsSite
    <3> QED
      BY <2>2, <3>1, <3>2, <1>4, <1>5
  <2> QED
    BY <2>1, <2>2
<1> QED
  BY <1>6, <1>7, <1>9, <1>10 DEF CodesInv

-----------------------------------------------------------------------------
LEMMA CodesInductive == CodesInv /\ [CodesNext]_codesVars => CodesInv'
<1> SUFFICES ASSUME CodesInv, [CodesNext]_codesVars PROVE CodesInv'
  OBVIOUS
<1>1. ASSUME NEW u \in Callers, Caller(u) PROVE CodesInv'
  <2>1. CASE Verify(u)
    BY <2>1, VerifyReadKeeps, VerifyResumeKeeps, VerifyFindsNoneKeeps,
       VerifyReplaceKeeps, VerifyReturnKeeps, VerifyReserveKeeps DEF Verify
  <2>2. CASE CallFails(u)
    BY <2>2, CallFailsKeeps
  <2>3. ASSUME NEW x \in Sessions, ReserveRead(u, x) PROVE CodesInv'
    BY <2>3, ReserveReadKeeps
  <2>4. ASSUME NEW d \in Domains, ReserveCount(u, d) PROVE CodesInv'
    BY <2>4, ReserveCountKeeps
  <2>5. CASE ReserveDomain(u)
    BY <2>5, ReserveDomainKeeps
  <2>6. ASSUME NEW x \in Sessions, NEW s \in SiteIds, OpenSite(u, x, s) PROVE CodesInv'
    BY <2>6, OpenSiteKeeps
  <2> QED
    BY <1>1, <2>1, <2>2, <2>3, <2>4, <2>5, <2>6 DEF Caller
<1>2. ASSUME NEW c \in Codes, Admin(c) PROVE CodesInv'
  BY <1>2, AdminKeeps
<1>3. ASSUME NEW s \in SiteIds, JobEnds(s) PROVE CodesInv'
  BY <1>3, ProvisionSucceedsKeeps, ProvisionFailsKeeps, RetryProvisionKeeps,
     FinalizeSiteDeletionKeeps DEF JobEnds
<1>4. CASE RunMaintenance
  BY <1>4, RunMaintenanceKeeps
<1>5. CASE Time
  BY <1>5, TimeKeeps
<1>6. CASE UNCHANGED codesVars
  <2>1. UNCHANGED <<code, session, reservation, sites, call>>
    BY <1>6 DEF codesVars
  <2>2. code' \in [Codes -> Code] /\ \A c \in Codes : CodeKept(c)
    BY <2>1 DEF CodesInv, CodesTypeOK, CodeKept
  <2> QED
    BY <2>1, <2>2, OnlyCodes
<1> QED
  BY <1>1, <1>2, <1>3, <1>4, <1>5, <1>6 DEF CodesNext

THEOREM CodesInvariance == CodesSpec => []CodesInv
BY CodesInitial, CodesInductive, PTL DEF CodesSpec

\* A code in use leads to a site of its own that exists, and only a code with such
\* a site is active, whatever fails, is retried or deleted (runProvision,
\* finalizeSiteDeletion).
THEOREM CodesKnowTheirSites == CodesSpec => []CodeKnowsItsSite
<1>1. CodesInv => CodeKnowsItsSite
  BY DEF CodesInv
<1> QED
  BY <1>1, CodesInvariance, PTL

-----------------------------------------------------------------------------
(* What a step does to reservations and to the domains of sites.           *)

\* The row of a domain stays, though it may expire.
RowStays(d) ==
    /\ reservation'[d].owner = reservation[d].owner
    /\ reservation'[d].consumed = reservation[d].consumed
    /\ reservation'[d].live => reservation[d].live

\* It goes after it has expired, with its session, or with a site on the domain.
RowGoes(d) ==
    /\ reservation'[d] = NoRow
    /\ \/ ~ reservation[d].live
       \/ session'[reservation[d].owner].status = "deleted"
       \/ \E s \in SiteIds : sites[s].domain = d /\ sites'[s].status = "deleted"

\* A site that loses its domain takes the row of the domain with it.
SiteStaysOrGoes(s) ==
    /\ sites'[s].by = sites[s].by
    /\ \/ sites'[s].domain = sites[s].domain
       \/ /\ sites'[s].domain = NoDomain
          /\ sites[s].domain \in Domains => reservation'[sites[s].domain] = NoRow

RowsAndSitesOnlyGo ==
    /\ \A d \in Domains : RowStays(d) \/ RowGoes(d)
    /\ \A s \in SiteIds : SiteStaysOrGoes(s)

LEMMA NoRowNoSite ==
    ASSUME UNCHANGED <<reservation, sites>> PROVE RowsAndSitesOnlyGo
BY DEF RowsAndSitesOnlyGo, RowStays, SiteStaysOrGoes

\* The sessions in dead go, and the rows named in more, which have expired or lose
\* their site.
LEMMA RowsDropped ==
    ASSUME CodesTypeOK, NEW dead \in SUBSET Sessions, NEW more, DropSessions(dead, more),
           \A d \in more \cap Domains :
              \/ ~ reservation[d].live
              \/ \E s \in SiteIds : sites[s].domain = d /\ sites'[s].status = "deleted"
    PROVE  /\ \A d \in Domains : RowStays(d) \/ RowGoes(d)
           /\ \A d \in more \cap Domains : reservation'[d] = NoRow
<1> DEFINE gone == more \cup {d \in Domains : reservation[d].owner \in dead}
           left == [x \in Sessions |-> IF x \in dead THEN BlankSession("deleted")
                                       ELSE session[x]]
<1>1. /\ session' = WithoutReservations(left, gone)
      /\ reservation' = [d \in Domains |-> IF d \in gone THEN NoRow ELSE reservation[d]]
  BY DEF DropSessions
<1>2. left \in [Sessions -> Session] /\ \A x \in dead : left[x].status = "deleted"
  BY DEF CodesTypeOK, BlankSession, Session
<1>3. \A x \in dead : session'[x].status = "deleted"
  <2> HIDE DEF left, gone
  <2> QED
    BY <1>1, <1>2 DEF WithoutReservations, Session
<1>4. \A d \in Domains : d \notin gone => RowStays(d)
  <2> HIDE DEF gone
  <2> QED
    BY <1>1 DEF RowStays
<1>5. \A d \in Domains : d \in gone => reservation'[d] = NoRow
  <2> HIDE DEF gone
  <2> QED
    BY <1>1
<1>6. \A d \in Domains : d \in gone => RowGoes(d)
  BY <1>3, <1>5 DEF RowGoes
<1> QED
  BY <1>4, <1>5, <1>6

LEMMA JobEndsOnlyGoes ==
    ASSUME CodesInv, NEW s \in SiteIds, JobEnds(s) PROVE RowsAndSitesOnlyGo
<1>0. CodesTypeOK
  BY DEF CodesInv
<1>1. CASE FinalizeSiteDeletion(s)
  <2> DEFINE d == sites[s].domain
             dead == {x \in Sessions : session[x].job = s}
  <2>1. d \in Domains /\ DropSessions(dead, {d})
    BY <1>1 DEF FinalizeSiteDeletion, CodesInv, RefersOK
  <2>2. /\ sites'[s].status = "deleted" /\ sites'[s].domain = NoDomain
        /\ sites'[s].by = sites[s].by
        /\ \A t \in SiteIds : t # s => sites'[t] = sites[t]
    BY <1>0, <1>1 DEF FinalizeSiteDeletion, CodesTypeOK, Site
  <2>3. dead \in SUBSET Sessions
    OBVIOUS
  <2>4. \A e \in {d} \cap Domains :
           \E t \in SiteIds : sites[t].domain = e /\ sites'[t].status = "deleted"
    BY <2>2
  <2>5. /\ \A e \in Domains : RowStays(e) \/ RowGoes(e)
        /\ reservation'[d] = NoRow
    <3> HIDE DEF d, dead
    <3> QED
      BY <1>0, <2>1, <2>3, <2>4, RowsDropped
  <2> QED
    BY <2>2, <2>5 DEF RowsAndSitesOnlyGo, SiteStaysOrGoes
<1>2. CASE ProvisionSucceeds(s) \/ ProvisionFails(s) \/ RetryProvision(s)
  <2>1. PICK f \in {"done", "failed", "again"} : sites' = [sites EXCEPT ![s].job = f]
    BY <1>2 DEF ProvisionSucceeds, ProvisionFails, RetryProvision
  <2>2. \A t \in SiteIds : sites'[t].by = sites[t].by /\ sites'[t].domain = sites[t].domain
    BY <1>0, <2>1 DEF CodesTypeOK, Site
  <2>3. UNCHANGED reservation
    BY <1>2 DEF ProvisionSucceeds, ProvisionFails, RetryProvision
  <2> QED
    BY <2>2, <2>3 DEF RowsAndSitesOnlyGo, RowStays, SiteStaysOrGoes
<1> QED
  BY <1>1, <1>2 DEF JobEnds

\* Without an upsert and without a new site, rows and sites only go.
LEMMA RowsOnlyGo ==
    ASSUME CodesInv, [CodesNext]_codesVars,
           ~ \E u \in Callers : ReserveDomain(u),
           ~ \E u \in Callers, x \in Sessions, s \in SiteIds : OpenSite(u, x, s)
    PROVE  RowsAndSitesOnlyGo
<1>1. CodesTypeOK
  BY DEF CodesInv
<1>2. ASSUME NEW u \in Callers, Caller(u) PROVE UNCHANGED <<reservation, sites>>
  BY <1>2 DEF Caller, Verify, VerifyRead, VerifyResume, VerifyFindsNone, VerifyReplace,
              VerifyReturn, VerifyReserve, CallFails, ReserveRead, ReserveCount
<1>3. ASSUME NEW c \in Codes, Admin(c) PROVE RowsAndSitesOnlyGo
  <2>1. CASE DeleteCode(c)
    <3> DEFINE dead == {x \in Sessions : session[x].code = c}
    <3>1. DropSessions(dead, {}) /\ UNCHANGED sites /\ dead \in SUBSET Sessions
      BY <2>1 DEF DeleteCode
    <3>2. \A d \in Domains : RowStays(d) \/ RowGoes(d)
      <4> HIDE DEF dead
      <4> QED
        BY <1>1, <3>1, RowsDropped
    <3> QED
      BY <3>1, <3>2 DEF RowsAndSitesOnlyGo, SiteStaysOrGoes
  <2> QED
    BY <1>3, <2>1, NoRowNoSite DEF Admin, CreateCode, RevokeCode
<1>4. CASE RunMaintenance
  <2> DEFINE dead == {x \in Sessions : session[x].status = "active" /\ ~ session[x].live}
             more == {d \in Domains : ~ reservation[d].live}
  <2>1. DropSessions(dead, more) /\ UNCHANGED sites /\ dead \in SUBSET Sessions
    BY <1>4 DEF RunMaintenance
  <2>2. \A d \in more \cap Domains : ~ reservation[d].live
    OBVIOUS
  <2>3. \A d \in Domains : RowStays(d) \/ RowGoes(d)
    <3> HIDE DEF dead, more
    <3> QED
      BY <1>1, <2>1, <2>2, RowsDropped
  <2> QED
    BY <2>1, <2>3 DEF RowsAndSitesOnlyGo, SiteStaysOrGoes
<1>5. CASE Time
  <2>1. ASSUME NEW d \in Domains, ReservationExpires(d) PROVE RowsAndSitesOnlyGo
    <3>1. UNCHANGED sites /\ \A e \in Domains : RowStays(e)
      BY <1>1, <2>1 DEF ReservationExpires, CodesTypeOK, Reservation, RowStays
    <3> QED
      BY <3>1 DEF RowsAndSitesOnlyGo, SiteStaysOrGoes
  <2> QED
    BY <1>5, <2>1, NoRowNoSite DEF Time, SessionExpires, CodeExpires, ReservedTooLong
<1>6. CASE UNCHANGED codesVars
  BY <1>6, NoRowNoSite DEF codesVars
<1> QED
  BY <1>2, <1>3, <1>4, <1>5, <1>6, NoRowNoSite, JobEndsOnlyGoes DEF CodesNext

\* What the upsert does, and whose row it may find.
LEMMA ReserveDomainTakes ==
    ASSUME CodesInv, NEW u \in Callers, ReserveDomain(u)
    PROVE  /\ call[u].session \in Sessions /\ session[call[u].session].status = "active"
           /\ reservation'[call[u].domain].owner = call[u].session
           /\ ~ reservation'[call[u].domain].consumed
           /\ \A e \in Domains : e # call[u].domain => reservation'[e] = reservation[e]
           /\ \A y \in Sessions : Holds(y, call[u].domain) => y = call[u].session
           /\ UNCHANGED sites
<1> DEFINE x == call[u].session
           d == call[u].domain
<1>1. x \in Sessions /\ d \in Domains /\ DOMAIN reservation = Domains
  BY DEF ReserveDomain, CodesInv, RefersOK, CodesTypeOK
<1>2. /\ reservation' = [reservation EXCEPT
                            ![d] = [owner |-> x, live |-> TRUE, consumed |-> FALSE]]
      /\ MayReserve(x, d) /\ StillActive(x) /\ UNCHANGED sites
  BY DEF ReserveDomain
<1> HIDE DEF x, d
<1>3. \A y \in Sessions : Holds(y, d) => y = x
  BY <1>2, NullAssumption DEF MayReserve, Holds
<1>4. /\ reservation'[d].owner = x /\ ~ reservation'[d].consumed
      /\ \A e \in Domains : e # d => reservation'[e] = reservation[e]
  BY <1>1, <1>2
<1> QED
  BY <1>1, <1>2, <1>3, <1>4 DEF x, d, StillActive

\* What a new site does: it has the domain that its session holds.
LEMMA OpenSiteTakes ==
    ASSUME CodesInv, NEW u \in Callers, NEW x \in Sessions, NEW s \in SiteIds,
           OpenSite(u, x, s)
    PROVE  /\ session[x].reservation \in Domains /\ Holds(x, session[x].reservation)
           /\ reservation'[session[x].reservation].owner = x
           /\ reservation'[session[x].reservation].consumed
           /\ \A e \in Domains : e # session[x].reservation =>
                                    reservation'[e] = reservation[e]
           /\ sites'[s].domain = session[x].reservation /\ sites'[s].by = x
           /\ sites[s].domain = NoDomain
           /\ \A t \in SiteIds : t # s => sites'[t] = sites[t]
<1> DEFINE d == session[x].reservation
<1>1. d \in Domains /\ DOMAIN reservation = Domains /\ DOMAIN sites = SiteIds
  BY DEF OpenSite, CodesInv, CodesTypeOK, Session
<1>2. /\ Holds(x, d) /\ sites[s].status = "none"
      /\ reservation' = [reservation EXCEPT ![d].consumed = TRUE]
      /\ \E c : sites' = [sites EXCEPT ![s] = [status |-> "open", code |-> c, domain |-> d,
                                              job |-> "queued", by |-> x]]
  BY DEF OpenSite, Holds
<1> HIDE DEF d
<1>3. /\ reservation'[d].owner = x /\ reservation'[d].consumed
      /\ \A e \in Domains : e # d => reservation'[e] = reservation[e]
  <2>1. reservation[d] \in Reservation
    BY <1>1 DEF CodesInv, CodesTypeOK
  <2>2. reservation[d].owner = x
    BY <1>2 DEF Holds
  <2> QED
    BY <1>1, <1>2, <2>1, <2>2 DEF Reservation
<1>4. sites'[s].domain = d /\ sites'[s].by = x /\ \A t \in SiteIds : t # s => sites'[t] = sites[t]
  BY <1>1, <1>2
<1>5. sites[s].domain = NoDomain
  BY <1>2 DEF CodesInv, RefersOK
<1> QED
  BY <1>1, <1>2, <1>3, <1>4, <1>5 DEF d

-----------------------------------------------------------------------------
(* A live reservation.                                                     *)

KeptBy(x, d) ==
    /\ reservation'[d].owner \in {x, NoSession}
    /\ reservation'[d].owner = NoSession =>
          \/ session'[x].status = "deleted"
          \/ \E s \in SiteIds : sites[s].domain = d /\ sites'[s].status = "deleted"
    /\ \A s \in SiteIds : sites'[s].domain = d /\ sites[s].domain # d => sites'[s].by = x

LEMMA LiveRowKept ==
    ASSUME CodesInv, [CodesNext]_codesVars, NEW x \in Sessions, NEW d \in Domains, Holds(x, d)
    PROVE  KeptBy(x, d)
<1>1. reservation[d].owner = x /\ reservation[d].live /\ x # NoSession /\ d # NoDomain
  BY NullAssumption DEF Holds
<1>2. CASE RowsAndSitesOnlyGo
  BY <1>1, <1>2 DEF RowsAndSitesOnlyGo, RowStays, RowGoes, SiteStaysOrGoes, NoRow, KeptBy
<1>3. ASSUME NEW u \in Callers, ReserveDomain(u) PROVE KeptBy(x, d)
  <2>1. /\ reservation'[call[u].domain].owner = call[u].session
        /\ d # call[u].domain => reservation'[d] = reservation[d]
        /\ Holds(x, call[u].domain) => x = call[u].session
        /\ UNCHANGED sites
    BY <1>3, ReserveDomainTakes
  <2>2. reservation'[d].owner = x /\ UNCHANGED sites
    BY <1>1, <2>1
  <2> QED
    BY <1>1, <2>2 DEF KeptBy
<1>4. ASSUME NEW u \in Callers, NEW y \in Sessions, NEW s \in SiteIds, OpenSite(u, y, s)
      PROVE  KeptBy(x, d)
  <2> DEFINE e == session[y].reservation
  <2>1. /\ Holds(y, e) /\ reservation'[e].owner = y
        /\ d # e => reservation'[d] = reservation[d]
        /\ sites'[s].domain = e /\ sites'[s].by = y
        /\ \A t \in SiteIds : t # s => sites'[t] = sites[t]
    BY <1>4, OpenSiteTakes
  <2>2. e = d => y = x
    BY <1>1, <2>1 DEF Holds
  <2> HIDE DEF e
  <2>3. /\ reservation'[d].owner = x
        /\ \A t \in SiteIds : sites'[t].domain = d /\ sites[t].domain # d => sites'[t].by = x
    BY <1>1, <2>1, <2>2
  <2> QED
    BY <1>1, <2>3 DEF KeptBy
<1> QED
  BY <1>2, <1>3, <1>4, RowsOnlyGo

\* A live reservation is not taken away, it goes only with its session or with a
\* site that had its domain, and nobody else opens a site on the domain (the upsert
\* of ReserveDomain, the checks of CreateProvisionJob, the sweep and the deletion).
THEOREM ReservationsAreKept == CodesSpec => DomainKept
<1>1. CodesInv /\ [CodesNext]_codesVars =>
        [\A x \in Sessions, d \in Domains :
            Holds(x, d) =>
              /\ reservation'[d].owner \in {x, NoSession}
              /\ reservation'[d].owner = NoSession =>
                    \/ session'[x].status = "deleted"
                    \/ \E s \in SiteIds : sites[s].domain = d /\ sites'[s].status = "deleted"
              /\ \A s \in SiteIds : sites'[s].domain = d /\ sites[s].domain # d
                                        => sites'[s].by = x]_codesVars
  BY LiveRowKept DEF KeptBy
<1> QED
  BY <1>1, CodesInvariance, PTL DEF CodesSpec, DomainKept

\* A live reservation can be used: no site has its domain.
HeldDomainIsFree ==
    \A x \in Sessions, d \in Domains : Holds(x, d) => ~ OpenOn(d)

\* The count of ReserveDomain still holds at its upsert.
CountIsFresh == \A u \in Callers : ReserveDomain(u) => ~ OpenOn(call[u].domain)

LEMMA HeldDomainStaysFree ==
    ASSUME CodesInv, HeldDomainIsFree, [CodesNext]_codesVars, CountIsFresh
    PROVE  HeldDomainIsFree'
<1> SUFFICES ASSUME NEW x \in Sessions, NEW d \in Domains, Holds(x, d)',
                    NEW s \in SiteIds, sites'[s].status = "open", sites'[s].domain = d
             PROVE  FALSE
  BY DEF HeldDomainIsFree, OpenOn
<1>0. /\ x # NoSession /\ d # NoDomain
      /\ reservation'[d] = [owner |-> x, live |-> TRUE, consumed |-> FALSE]
  BY NullAssumption DEF Holds
<1>1. \A t \in SiteIds : sites[t].domain = d => OpenOn(d)
  BY <1>0 DEF CodesInv, RefersOK, OpenOn
<1>2. CASE RowsAndSitesOnlyGo
  <2>1. RowStays(d) /\ sites[s].domain = d
    BY <1>0, <1>2 DEF RowsAndSitesOnlyGo, RowGoes, SiteStaysOrGoes, NoRow
  <2>2. Holds(x, d)
    <3>0. /\ reservation'[d].owner = x /\ reservation'[d].live
          /\ reservation'[d].consumed = FALSE
      BY <1>0
    <3>1. /\ reservation[d] \in Reservation /\ reservation[d].owner = x
          /\ reservation[d].live /\ reservation[d].consumed = FALSE
      BY <2>1, <3>0 DEF RowStays, CodesInv, CodesTypeOK
    <3> QED
      BY <3>1 DEF Reservation, Holds
  <2> QED
    BY <1>1, <2>1, <2>2 DEF HeldDomainIsFree
<1>3. ASSUME NEW u \in Callers, ReserveDomain(u) PROVE FALSE
  <2>1. sites[s].domain = d
    BY <1>3, ReserveDomainTakes
  <2>2. CASE call[u].domain = d
    BY <1>1, <1>3, <2>1, <2>2 DEF CountIsFresh
  <2>3. CASE call[u].domain # d
    BY <1>0, <1>1, <1>3, <2>1, <2>3, ReserveDomainTakes DEF Holds, HeldDomainIsFree
  <2> QED
    BY <2>2, <2>3
<1>4. ASSUME NEW u \in Callers, NEW y \in Sessions, NEW t \in SiteIds, OpenSite(u, y, t)
      PROVE  FALSE
  <2> DEFINE e == session[y].reservation
  <2>1. /\ reservation'[e].consumed /\ sites'[t].domain = e
        /\ d # e => reservation'[d] = reservation[d]
        /\ s # t => sites'[s] = sites[s]
    BY <1>4, OpenSiteTakes
  <2> HIDE DEF e
  <2>2. e # d
    BY <1>0, <2>1
  <2>3. Holds(x, d) /\ sites[s].domain = d
    BY <1>0, <2>1, <2>2 DEF Holds
  <2> QED
    BY <1>1, <2>3 DEF HeldDomainIsFree
<1> QED
  BY <1>2, <1>3, <1>4, RowsOnlyGo

\* A session that holds a domain finds it occupied at CreateProvisionJob in one case
\* only: a site was opened between the count and the upsert of ReserveDomain.
THEOREM OnlyAStaleCountBlocksADomain ==
    CodesSpec /\ [][CountIsFresh]_codesVars => []HeldDomainIsFree
<1>1. CodesInit => HeldDomainIsFree
  BY DEF CodesInit, HeldDomainIsFree, OpenOn, NoSiteRow
<1>2. CodesInv /\ HeldDomainIsFree /\ [CodesNext]_codesVars /\ [CountIsFresh]_codesVars
        => HeldDomainIsFree'
  <2>1. ASSUME CodesInv, HeldDomainIsFree, UNCHANGED codesVars PROVE HeldDomainIsFree'
    BY <2>1 DEF codesVars, HeldDomainIsFree, Holds, OpenOn
  <2> QED
    BY <2>1, HeldDomainStaysFree
<1> QED
  BY <1>1, <1>2, CodesInvariance, PTL DEF CodesSpec

-----------------------------------------------------------------------------
(* A session opens one site.                                               *)

\* The session of a site, which may be deleted by now, is finished with it.
Finished ==
    \A s \in SiteIds : sites[s].by # NoSession =>
        \/ session[sites[s].by].status = "deleted"
        \/ session[sites[s].by].status = "completed" /\ session[sites[s].by].job = s

OpenedInv == CodesTypeOK /\ Finished /\ SessionOpensOnce

\* A finished session stays as it is until it is deleted, for good.
Settled(x) ==
    \/ session[x].status \in {"none", "active"}
    \/ session'[x].status = "deleted"
    \/ session'[x].status = session[x].status /\ session'[x].job = session[x].job

LEMMA SettledKeeps ==
    ASSUME OpenedInv, \A x \in Sessions : Settled(x),
           \A s \in SiteIds : sites'[s].by = sites[s].by
    PROVE  Finished' /\ SessionOpensOnce'
<1>1. \A s \in SiteIds : sites[s].by \in Sessions \cup {NoSession}
  BY DEF OpenedInv, CodesTypeOK, Site
<1> QED
  BY <1>1 DEF OpenedInv, Finished, SessionOpensOnce, Settled

\* A session that opens a site has not opened one before.
LEMMA OpenSiteOnce ==
    ASSUME OpenedInv, NEW u \in Callers, NEW x \in Sessions, NEW s \in SiteIds,
           OpenSite(u, x, s)
    PROVE  Finished' /\ SessionOpensOnce'
<1>1. /\ session[x].status \in {"active", "completed"} /\ session[x].job = NoSiteId
      /\ session' = [session EXCEPT ![x].status = "completed", ![x].job = s]
      /\ \E c, d : sites' = [sites EXCEPT ![s] = [status |-> "open", code |-> c, domain |-> d,
                                                job |-> "queued", by |-> x]]
  BY DEF OpenSite, CompleteSession
<1>2. /\ session'[x].status = "completed" /\ session'[x].job = s
      /\ \A y \in Sessions : y # x => session'[y] = session[y]
  BY <1>1 DEF OpenedInv, CodesTypeOK, Session
<1>3. sites'[s].by = x /\ \A t \in SiteIds : t # s => sites'[t] = sites[t]
  BY <1>1 DEF OpenedInv, CodesTypeOK
<1>4. \A t \in SiteIds : sites[t].by # x
  BY <1>1, NullAssumption DEF OpenedInv, Finished
<1>5. \A t \in SiteIds : sites[t].by \in Sessions \cup {NoSession}
  BY DEF OpenedInv, CodesTypeOK, Site
<1>6. Finished'
  BY <1>2, <1>3, <1>4, <1>5 DEF OpenedInv, Finished
<1>7. SessionOpensOnce'
  BY <1>3, <1>4 DEF OpenedInv, SessionOpensOnce
<1> QED
  BY <1>6, <1>7

\* Steps that only drop sessions, and their reservations.
LEMMA DropSessionsSettles ==
    ASSUME CodesTypeOK, NEW dead, NEW more, DropSessions(dead, more)
    PROVE  \A x \in Sessions : Settled(x)
<1> SUFFICES ASSUME NEW x \in Sessions PROVE Settled(x)
  OBVIOUS
<1> DEFINE gone == more \cup {d \in Domains : reservation[d].owner \in dead}
           S == [y \in Sessions |-> IF y \in dead THEN BlankSession("deleted")
                                   ELSE session[y]]
<1>1. session' = [y \in Sessions |-> IF S[y].reservation \in gone
                                     THEN [S[y] EXCEPT !.reservation = NoDomain] ELSE S[y]]
  BY DEF DropSessions, WithoutReservations
<1>2. S[x] \in Session
  BY DEF CodesTypeOK, Session, BlankSession
<1>3. session'[x].status = S[x].status /\ session'[x].job = S[x].job
  <2> HIDE DEF S, gone
  <2> QED
    BY <1>1, <1>2 DEF Session
<1> QED
  BY <1>3 DEF Settled, BlankSession

\* What requests do to sessions that are there already.
LEMMA RequestsSettle ==
    ASSUME CodesTypeOK, NEW u \in Callers,
           \/ Verify(u) \/ CallFails(u)
           \/ \E x \in Sessions : ReserveRead(u, x)
           \/ \E d \in Domains : ReserveCount(u, d)
           \/ ReserveDomain(u)
    PROVE  UNCHANGED sites /\ \A x \in Sessions : Settled(x)
<1>1. UNCHANGED sites
  BY DEF Verify, VerifyRead, VerifyResume, VerifyFindsNone, VerifyReplace, VerifyReturn,
         VerifyReserve, CallFails, ReserveRead, ReserveCount, ReserveDomain
<1>2. CASE UNCHANGED session
  BY <1>1, <1>2 DEF Settled
<1>3. ASSUME NEW y \in Sessions, session[y].status \in {"none", "active"},
             \A x \in Sessions : x # y => session'[x] = session[x]
      PROVE  \A x \in Sessions : Settled(x)
  BY <1>3 DEF Settled
<1>4. CASE VerifyResume(u)
  <2>1. PICK y \in Sessions :
            /\ session[y].status = "active"
            /\ session' = [session EXCEPT ![y] = [session[y] EXCEPT !.token = u]]
    BY <1>4 DEF VerifyResume, LiveSessions
  <2>2. \A x \in Sessions : x # y => session'[x] = session[x]
    BY <2>1 DEF CodesTypeOK
  <2> QED
    BY <1>1, <1>3, <2>1, <2>2
<1>5. CASE VerifyReplace(u) \/ VerifyReturn(u) \/ VerifyReserve(u)
  <2>1. PICK y \in Sessions : \E new : IsNext(y) /\ session' = [session EXCEPT ![y] = new]
    BY <1>5 DEF VerifyReplace, VerifyReturn, VerifyReserve
  <2>2. \A x \in Sessions : x # y => session'[x] = session[x]
    BY <2>1 DEF CodesTypeOK
  <2>3. session[y].status \in {"none", "active"}
    BY <2>1 DEF IsNext
  <2> QED
    BY <1>1, <1>3, <2>2, <2>3
<1>6. CASE ReserveDomain(u)
  <2> DEFINE y == call[u].session
             d == call[u].domain
  <2>1. /\ session[y].status = "active"
        /\ session' = [session EXCEPT ![y] = [session[y] EXCEPT !.reservation = d]]
    BY <1>6 DEF ReserveDomain, StillActive
  <2>2. CASE y \in Sessions
    <3> HIDE DEF y
    <3>1. \A x \in Sessions : x # y => session'[x] = session[x]
      BY <2>1, <2>2 DEF CodesTypeOK
    <3> QED
      BY <1>1, <1>3, <2>1, <2>2, <3>1
  <2>3. CASE y \notin Sessions
    <3>1. session' = session
      <4> HIDE DEF y
      <4> QED
        BY <2>1, <2>3 DEF CodesTypeOK
    <3> QED
      BY <1>1, <3>1 DEF Settled
  <2> QED
    BY <2>2, <2>3
<1> QED
  BY <1>1, <1>2, <1>4, <1>5, <1>6 
     DEF Verify, VerifyRead, VerifyFindsNone, CallFails, ReserveRead, ReserveCount

LEMMA OpenedStep ==
    ASSUME CodesInv, OpenedInv, [CodesNext]_codesVars
    PROVE  Finished' /\ SessionOpensOnce'
<1>1. CodesTypeOK
  BY DEF OpenedInv
<1>2. ASSUME NEW u \in Callers, Caller(u) PROVE Finished' /\ SessionOpensOnce'
  BY <1>1, <1>2, RequestsSettle, SettledKeeps, OpenSiteOnce DEF Caller
<1>3. CASE UNCHANGED <<session, sites>>
  BY <1>3, SettledKeeps DEF Settled
<1>4. ASSUME NEW c \in Codes, Admin(c) PROVE Finished' /\ SessionOpensOnce'
  BY <1>1, <1>3, <1>4, DropSessionsSettles, SettledKeeps
     DEF Admin, CreateCode, RevokeCode, DeleteCode
<1>5. ASSUME NEW s \in SiteIds, JobEnds(s) PROVE Finished' /\ SessionOpensOnce'
  <2>1. \A t \in SiteIds : sites'[t].by = sites[t].by
    <3>1. PICK new \in [status : {sites[s].status, "deleted"}, code : {sites[s].code, NoCode},
                        domain : {sites[s].domain, NoDomain}, by : {sites[s].by},
                        job : {sites[s].job, "done", "failed", "again"}] :
              sites' = [sites EXCEPT ![s] = new]
      BY <1>1, <1>5 DEF JobEnds, ProvisionSucceeds, ProvisionFails, RetryProvision,
                        FinalizeSiteDeletion, CodesTypeOK, Site
    <3> QED
      BY <1>1, <3>1 DEF CodesTypeOK
  <2>2. \A x \in Sessions : Settled(x)
    BY <1>1, <1>5, DropSessionsSettles
       DEF JobEnds, ProvisionSucceeds, ProvisionFails, RetryProvision,
           FinalizeSiteDeletion, Settled
  <2> QED
    BY <2>1, <2>2, SettledKeeps
<1>6. CASE RunMaintenance
  BY <1>1, <1>6, DropSessionsSettles, SettledKeeps DEF RunMaintenance
<1>7. CASE Time
  <2>1. UNCHANGED sites
    BY <1>7 DEF Time, SessionExpires, ReservationExpires, CodeExpires, ReservedTooLong
  <2>2. ASSUME NEW x \in Sessions, SessionExpires(x) PROVE \A y \in Sessions : Settled(y)
    BY <1>1, <2>2 DEF SessionExpires, Settled, CodesTypeOK, Session
  <2> QED
    BY <1>3, <1>7, <2>1, <2>2, SettledKeeps
       DEF Time, ReservationExpires, CodeExpires, ReservedTooLong
<1>8. CASE UNCHANGED codesVars
  BY <1>3, <1>8 DEF codesVars
<1> QED
  BY <1>2, <1>4, <1>5, <1>6, <1>7, <1>8 DEF CodesNext

LEMMA OpenedInvariant == CodesSpec => []OpenedInv
<1>1. CodesInit => OpenedInv
  <2>1. CodesInit => CodesTypeOK
    BY CodesInitial DEF CodesInv
  <2> QED
    BY <2>1 DEF CodesInit, OpenedInv, Finished, SessionOpensOnce, NoSiteRow
<1>2. CodesInv /\ CodesInv' /\ OpenedInv /\ [CodesNext]_codesVars => OpenedInv'
  BY OpenedStep DEF CodesInv, OpenedInv
<1> QED
  BY <1>1, <1>2, CodesInvariance, PTL DEF CodesSpec

\* A session opens one site in its life, however often its form is sent and also
\* after that site was deleted (CreateProvisionJob).
THEOREM SessionsOpenOnce == CodesSpec => []SessionOpensOnce
<1>1. OpenedInv => SessionOpensOnce
  BY DEF OpenedInv
<1> QED
  BY <1>1, OpenedInvariant, PTL

-----------------------------------------------------------------------------
(* A reservation is used up while its session has a site on it.            *)

LEMMA SpentStep ==
    ASSUME CodesInv, OpenedInv, SpentWithItsSite, [CodesNext]_codesVars
    PROVE  SpentWithItsSite'
<1> SUFFICES ASSUME NEW d \in Domains, NEW x \in Sessions, reservation'[d].owner = x
             PROVE  reservation'[d].consumed <=>
                      \E s \in SiteIds : sites'[s].domain = d /\ sites'[s].by = x
  BY DEF SpentWithItsSite
<1>0. x # NoSession /\ d # NoDomain
  BY NullAssumption
<1>1. CASE RowsAndSitesOnlyGo
  <2>1. RowStays(d) /\ reservation'[d] # NoRow
    BY <1>0, <1>1 DEF RowsAndSitesOnlyGo, RowGoes, NoRow
  <2>2. \A s \in SiteIds : /\ sites'[s].by = sites[s].by
                           /\ sites'[s].domain = d <=> sites[s].domain = d
    BY <1>0, <1>1, <2>1 DEF RowsAndSitesOnlyGo, SiteStaysOrGoes
  <2> QED
    BY <2>1, <2>2 DEF RowStays, SpentWithItsSite
<1>2. ASSUME NEW u \in Callers, ReserveDomain(u)
      PROVE  reservation'[d].consumed <=>
               \E s \in SiteIds : sites'[s].domain = d /\ sites'[s].by = x
  <2>1. CASE call[u].domain = d
    <3>0. /\ reservation'[call[u].domain].owner = call[u].session
          /\ session[call[u].session].status = "active"
          /\ ~ reservation'[call[u].domain].consumed /\ UNCHANGED sites
      BY <1>2, ReserveDomainTakes
    <3>1. /\ call[u].session = x /\ session[x].status = "active"
          /\ ~ reservation'[d].consumed /\ UNCHANGED sites
      BY <2>1, <3>0
    <3>2. \A s \in SiteIds : sites[s].by # x
      BY <1>0, <3>1 DEF OpenedInv, Finished
    <3> QED
      BY <3>1, <3>2
  <2>2. CASE call[u].domain # d
    <3>1. reservation'[d] = reservation[d] /\ UNCHANGED sites
      BY <1>2, <2>2, ReserveDomainTakes
    <3> QED
      BY <3>1 DEF SpentWithItsSite
  <2> QED
    BY <2>1, <2>2
<1>3. ASSUME NEW u \in Callers, NEW y \in Sessions, NEW t \in SiteIds, OpenSite(u, y, t)
      PROVE  reservation'[d].consumed <=>
               \E s \in SiteIds : sites'[s].domain = d /\ sites'[s].by = x
  <2> DEFINE e == session[y].reservation
  <2>0. /\ reservation'[e].owner = y /\ reservation'[e].consumed
        /\ d # e => reservation'[d] = reservation[d]
        /\ sites[t].domain = NoDomain /\ sites'[t].domain = e /\ sites'[t].by = y
        /\ \A s \in SiteIds : s # t => sites'[s] = sites[s]
    BY <1>3, OpenSiteTakes
  <2> HIDE DEF e
  <2>1. CASE e = d
    BY <2>0, <2>1
  <2>2. CASE e # d
    <3>1. /\ reservation'[d] = reservation[d]
          /\ sites[t].domain # d /\ sites'[t].domain # d
          /\ \A s \in SiteIds : s # t => sites'[s] = sites[s]
      BY <1>0, <2>0, <2>2
    <3> QED
      BY <3>1 DEF SpentWithItsSite
  <2> QED
    BY <2>1, <2>2
<1> QED
  BY <1>1, <1>2, <1>3, RowsOnlyGo

\* A reservation is used up as long as its session has a site on it, and no longer:
\* no request that was under way revives it, and it goes with the site.
THEOREM ReservationsSpentWithTheirSites == CodesSpec => []SpentWithItsSite
<1>1. CodesInit => SpentWithItsSite
  BY NullAssumption DEF CodesInit, SpentWithItsSite, NoRow
<1>2. CodesInv /\ OpenedInv /\ SpentWithItsSite /\ [CodesNext]_codesVars => SpentWithItsSite'
  BY SpentStep
<1> QED
  BY <1>1, <1>2, CodesInvariance, OpenedInvariant, PTL DEF CodesSpec

-----------------------------------------------------------------------------
(* Sessions that can still open a site.                                    *)

\* A finished session without a job has no domain, so it opens no site either: it
\* was made by VerifyReturn.
NoSecondForm ==
    \A x \in Sessions : session[x].status = "completed" /\ session[x].job = NoSiteId
                           => session[x].reservation = NoDomain

\* No step but VerifyReserve and VerifyReplace makes a session that can.
OpensNoForm(x) ==
    \/ session'[x].status # "active" /\ session'[x].reservation = NoDomain
    \/ session'[x].status = "completed" /\ session'[x].job # NoSiteId
    \/ /\ session'[x].status = session[x].status
       /\ session'[x].code = session[x].code
       /\ session'[x].job = session[x].job
       /\ session'[x].live => session[x].live
       /\ \/ session'[x].reservation \in {session[x].reservation, NoDomain}
          \/ session'[x].status = "active"

LEMMA SessionsOpenNoForm ==
    ASSUME NoSecondForm, \A x \in Sessions : OpensNoForm(x)
    PROVE  NoSecondForm' /\ \A c \in Codes : LiveSessions(c)' \subseteq LiveSessions(c)
BY DEF NoSecondForm, OpensNoForm, LiveSessions

LEMMA DropSessionsOpenNoForm ==
    ASSUME CodesTypeOK, NEW dead, NEW more, DropSessions(dead, more)
    PROVE  \A x \in Sessions : OpensNoForm(x)
<1> SUFFICES ASSUME NEW x \in Sessions PROVE OpensNoForm(x)
  OBVIOUS
<1> DEFINE gone == more \cup {d \in Domains : reservation[d].owner \in dead}
           S == [y \in Sessions |-> IF y \in dead THEN BlankSession("deleted")
                                   ELSE session[y]]
<1>1. session' = [y \in Sessions |-> IF S[y].reservation \in gone
                                     THEN [S[y] EXCEPT !.reservation = NoDomain] ELSE S[y]]
  BY DEF DropSessions, WithoutReservations
<1>2. S[x] \in Session /\ S[x] \in {BlankSession("deleted"), session[x]}
  BY DEF CodesTypeOK, Session, BlankSession
<1>3. session'[x] \in {S[x], [S[x] EXCEPT !.reservation = NoDomain]}
  <2> HIDE DEF S, gone
  <2> QED
    BY <1>1
<1> HIDE DEF S
<1>4. /\ session'[x].status = S[x].status /\ session'[x].code = S[x].code
      /\ session'[x].job = S[x].job /\ session'[x].live = S[x].live
      /\ session'[x].reservation \in {S[x].reservation, NoDomain}
  BY <1>2, <1>3 DEF Session
<1> QED
  BY <1>2, <1>4 DEF OpensNoForm, BlankSession

\* A request that makes no session which could open a site.
LEMMA RequestsOpenNoForm ==
    ASSUME CodesInv, NEW u \in Callers,
           \/ \E c \in Codes : VerifyRead(u, c)
           \/ VerifyResume(u) \/ VerifyFindsNone(u) \/ VerifyReturn(u) \/ CallFails(u)
           \/ \E x \in Sessions : ReserveRead(u, x)
           \/ \E d \in Domains : ReserveCount(u, d)
           \/ ReserveDomain(u)
           \/ \E x \in Sessions, s \in SiteIds : OpenSite(u, x, s)
    PROVE  \A x \in Sessions : OpensNoForm(x)
<1>1. session \in [Sessions -> Session]
  BY DEF CodesInv, CodesTypeOK
<1>2. CASE UNCHANGED session
  BY <1>2 DEF OpensNoForm
<1>3. ASSUME NEW y \in Sessions, NEW new, session' = [session EXCEPT ![y] = new],
             \/ new.status # "active" /\ new.reservation = NoDomain
             \/ new.status = "completed" /\ new.job # NoSiteId
             \/ /\ new.status = session[y].status /\ new.code = session[y].code
                /\ new.job = session[y].job /\ new.live = session[y].live
                /\ new.reservation = session[y].reservation \/ new.status = "active"
      PROVE  \A x \in Sessions : OpensNoForm(x)
  BY <1>1, <1>3 DEF OpensNoForm
<1>4. CASE VerifyResume(u)
  <2>1. PICK y \in Sessions : session' = [session EXCEPT ![y] = [session[y] EXCEPT !.token = u]]
    BY <1>4 DEF VerifyResume, LiveSessions
  <2> QED
    BY <1>1, <1>3, <2>1 DEF Session
<1>5. CASE VerifyReturn(u)
  <2>1. PICK y \in Sessions :
            session' = [session EXCEPT
                           ![y] = NewSession(u, call[u].code, "completed", call[u].bound)]
    BY <1>5 DEF VerifyReturn
  <2> QED
    BY <1>3, <2>1 DEF NewSession, BlankSession
<1>6. CASE ReserveDomain(u)
  <2> DEFINE d == call[u].domain
  <2>1. PICK y \in Sessions :
            /\ session[y].status = "active"
            /\ session' = [session EXCEPT ![y] = [session[y] EXCEPT !.reservation = d]]
    BY <1>6 DEF ReserveDomain, StillActive, CodesInv, RefersOK
  <2> HIDE DEF d
  <2> QED
    BY <1>1, <1>3, <2>1 DEF Session
<1>7. ASSUME NEW y \in Sessions, NEW s \in SiteIds, OpenSite(u, y, s)
      PROVE  \A x \in Sessions : OpensNoForm(x)
  <2>1. session' = [session EXCEPT ![y] = [session[y] EXCEPT !.status = "completed",
                                                             !.job = s]]
    BY <1>7 DEF OpenSite, CompleteSession
  <2> QED
    BY <1>1, <1>3, <2>1, NullAssumption DEF Session
<1> QED
  BY <1>2, <1>4, <1>5, <1>6, <1>7
     DEF VerifyRead, VerifyFindsNone, CallFails, ReserveRead, ReserveCount

\* The two that make one, of the code that was verified.
LEMMA MakesLive ==
    ASSUME CodesInv, NoSecondForm, NEW u \in Callers, VerifyReplace(u) \/ VerifyReserve(u)
    PROVE  /\ NoSecondForm'
           /\ \E x \in Sessions : \A k \in Codes :
                 LiveSessions(k)' \subseteq
                    LiveSessions(k) \cup (IF k = call[u].code THEN {x} ELSE {})
<1>1. PICK x \in Sessions :
          session' = [session EXCEPT ![x] = NewSession(u, call[u].code, "active", NoSiteId)]
  BY DEF VerifyReplace, VerifyReserve
<1>2. /\ session'[x].status = "active" /\ session'[x].code = call[u].code
      /\ \A y \in Sessions : y # x => session'[y] = session[y]
  BY <1>1 DEF CodesInv, CodesTypeOK, NewSession, BlankSession
<1>3. NoSecondForm'
  BY <1>2 DEF NoSecondForm
<1>4. \A k \in Codes : LiveSessions(k)' \subseteq
          LiveSessions(k) \cup (IF k = call[u].code THEN {x} ELSE {})
  BY <1>2 DEF LiveSessions
<1> QED
  BY <1>3, <1>4

\* The session that opens a site could, and no other session changes.
LEMMA OpensFromLive ==
    ASSUME CodesInv, NoSecondForm, NEW u \in Callers, NEW x \in Sessions, NEW s \in SiteIds,
           OpenSite(u, x, s)
    PROVE  /\ session[x].code \in Codes /\ x \in LiveSessions(session[x].code)
           /\ \A k \in Codes : LiveSessions(k)' = LiveSessions(k) \ {x}
           /\ \A k \in Codes : OpenSitesOf(k)' \subseteq
                  OpenSitesOf(k) \cup (IF k = session[x].code THEN {s} ELSE {})
           /\ \A k \in Codes : code'[k] = code[k] \/ code'[k].status = "provisioning"
<1>1. /\ session[x].status = "active" /\ session[x].live
      /\ session' = [session EXCEPT ![x] = [session[x] EXCEPT !.status = "completed",
                                                             !.job = s]]
  BY DEF OpenSite, CompleteSession, NoSecondForm
<1>2. session[x].code \in Codes
  BY <1>1 DEF CodesInv, RefersOK
<1>3. /\ session'[x].status = "completed"
      /\ \A y \in Sessions : y # x => session'[y] = session[y]
  BY <1>1 DEF CodesInv, CodesTypeOK, Session
<1>4. PICK d : sites' = [sites EXCEPT ![s] = [status |-> "open", code |-> session[x].code,
                                              domain |-> d, job |-> "queued", by |-> x]]
  BY DEF OpenSite
<1>5. \A t \in SiteIds : \/ sites'[t] = sites[t]
                         \/ t = s /\ sites'[t].code = session[x].code
  BY <1>4 DEF CodesInv, CodesTypeOK
<1>6. \A k \in Codes : OpenSitesOf(k)' \subseteq
          OpenSitesOf(k) \cup (IF k = session[x].code THEN {s} ELSE {})
  BY <1>5 DEF OpenSitesOf
<1>7. code' = [code EXCEPT ![session[x].code] = [code[session[x].code] EXCEPT
                               !.status = "provisioning", !.bound = s]]
  BY DEF OpenSite
<1>8. \A k \in Codes : code'[k] = code[k] \/ code'[k].status = "provisioning"
  BY <1>2, <1>7 DEF CodesInv, CodesTypeOK, Code
<1> QED
  BY <1>1, <1>2, <1>3, <1>6, <1>8 DEF LiveSessions

\* Without OpenSite no site appears.
LEMMA NoSiteAppears ==
    ASSUME CodesInv, [CodesNext]_codesVars,
           ~ \E u \in Callers, x \in Sessions, s \in SiteIds : OpenSite(u, x, s)
    PROVE  \A c \in Codes : OpenSitesOf(c)' \subseteq OpenSitesOf(c)
<1>1. CASE UNCHANGED sites
  BY <1>1 DEF OpenSitesOf
<1>2. ASSUME NEW u \in Callers, Caller(u) PROVE UNCHANGED sites
  BY <1>2 DEF Caller, Verify, VerifyRead, VerifyResume, VerifyFindsNone, VerifyReplace,
              VerifyReturn, VerifyReserve, CallFails, ReserveRead, ReserveCount,
              ReserveDomain
<1>3. ASSUME NEW s \in SiteIds, JobEnds(s)
      PROVE  \A c \in Codes : OpenSitesOf(c)' \subseteq OpenSitesOf(c)
  <2>1. PICK new : /\ \/ new.status = "deleted"
                      \/ new.status = sites[s].status /\ new.code = sites[s].code
                   /\ sites' = [sites EXCEPT ![s] = new]
    <3>1. CASE FinalizeSiteDeletion(s)
      BY <3>1 DEF FinalizeSiteDeletion, CodesInv, CodesTypeOK, Site
    <3>2. CASE ProvisionSucceeds(s) \/ ProvisionFails(s) \/ RetryProvision(s)
      <4>1. PICK f : sites' = [sites EXCEPT ![s] = [sites[s] EXCEPT !.job = f]]
        BY <3>2 DEF ProvisionSucceeds, ProvisionFails, RetryProvision
      <4> QED
        BY <4>1 DEF CodesInv, CodesTypeOK, Site
    <3> QED
      BY <1>3, <3>1, <3>2 DEF JobEnds
  <2>2. \A t \in SiteIds : sites'[t] = IF t = s THEN new ELSE sites[t]
    BY <2>1 DEF CodesInv, CodesTypeOK
  <2> QED
    BY <2>1, <2>2 DEF OpenSitesOf
<1>4. ASSUME NEW c \in Codes, Admin(c) PROVE UNCHANGED sites
  BY <1>4 DEF Admin, CreateCode, RevokeCode, DeleteCode
<1>5. RunMaintenance \/ Time \/ UNCHANGED codesVars => UNCHANGED sites
  BY DEF RunMaintenance, Time, SessionExpires, ReservationExpires, CodeExpires,
         ReservedTooLong, codesVars
<1> QED
  BY <1>1, <1>2, <1>3, <1>4, <1>5 DEF CodesNext

\* Without the two requests no session that can open a site appears.
LEMMA NoLiveSessionAppears ==
    ASSUME CodesInv, NoSecondForm, [CodesNext]_codesVars,
           ~ \E u \in Callers : VerifyReplace(u) \/ VerifyReserve(u)
    PROVE  NoSecondForm' /\ \A c \in Codes : LiveSessions(c)' \subseteq LiveSessions(c)
<1> SUFFICES \A x \in Sessions : OpensNoForm(x)
  BY SessionsOpenNoForm
<1>1. CASE UNCHANGED session
  BY <1>1 DEF OpensNoForm
<1>2. CodesTypeOK
  BY DEF CodesInv
<1>3. ASSUME NEW u \in Callers, Caller(u) PROVE \A x \in Sessions : OpensNoForm(x)
  BY <1>3, RequestsOpenNoForm DEF Caller, Verify
<1>4. ASSUME NEW c \in Codes, Admin(c) PROVE \A x \in Sessions : OpensNoForm(x)
  BY <1>1, <1>2, <1>4, DropSessionsOpenNoForm DEF Admin, CreateCode, RevokeCode, DeleteCode
<1>5. ASSUME NEW s \in SiteIds, JobEnds(s) PROVE \A x \in Sessions : OpensNoForm(x)
  BY <1>1, <1>2, <1>5, DropSessionsOpenNoForm
     DEF JobEnds, ProvisionSucceeds, ProvisionFails, RetryProvision, FinalizeSiteDeletion
<1>6. CASE RunMaintenance
  BY <1>2, <1>6, DropSessionsOpenNoForm DEF RunMaintenance
<1>7. ASSUME NEW y \in Sessions, SessionExpires(y) PROVE \A x \in Sessions : OpensNoForm(x)
  BY <1>2, <1>7 DEF SessionExpires, CodesTypeOK, Session, OpensNoForm
<1>8. CASE Time
  BY <1>1, <1>7, <1>8 DEF Time, ReservationExpires, CodeExpires, ReservedTooLong
<1>9. CASE UNCHANGED codesVars
  BY <1>1, <1>9 DEF codesVars
<1> QED
  BY <1>3, <1>4, <1>5, <1>6, <1>8, <1>9 DEF CodesNext

-----------------------------------------------------------------------------
(* A revoked code on which nothing is under way.                           *)

\* Nobody has a session of it, a site, or a request that took it for reserved.
Dead(c) ==
    /\ code[c].status = "revoked"
    /\ LiveSessions(c) = {} /\ OpenSitesOf(c) = {}
    /\ \A u \in Callers : call[u].code = c =>
          call[u].op # "replace" /\ ~ (call[u].op = "verify" /\ call[u].status = "reserved")

LEMMA DeadStays ==
    ASSUME CodesInv, NoSecondForm, [CodesNext]_codesVars, NEW c \in Codes, Dead(c)
    PROVE  Dead(c)'
<1>1. ASSUME NEW u \in Callers, NEW x \in Sessions, NEW s \in SiteIds, OpenSite(u, x, s)
      PROVE  LiveSessions(c)' = {} /\ OpenSitesOf(c)' = {} /\ code'[c].status = "revoked"
  <2>1. session[x].code # c
    BY <1>1, OpensFromLive DEF Dead
  <2>2. code'[c] = code[c]
    BY <1>1, <2>1 DEF OpenSite, CodesInv, CodesTypeOK
  <2> QED
    BY <1>1, <2>1, <2>2, OpensFromLive DEF Dead
<1>2. ~ (\E u \in Callers, x \in Sessions, s \in SiteIds : OpenSite(u, x, s))
         => OpenSitesOf(c)' = {}
  BY NoSiteAppears DEF Dead
<1>3. ASSUME NEW u \in Callers, VerifyReplace(u) \/ VerifyReserve(u)
      PROVE  LiveSessions(c)' = {} /\ code'[c].status = "revoked"
  <2>1. call[u].code # c
    BY <1>3 DEF Dead, VerifyReplace, VerifyReserve
  <2>2. code'[c] = code[c]
    BY <1>3, <2>1 DEF VerifyReplace, VerifyReserve, CodesInv, CodesTypeOK
  <2> QED
    BY <1>3, <2>1, <2>2, MakesLive DEF Dead
<1>4. ~ (\E u \in Callers : VerifyReplace(u) \/ VerifyReserve(u)) => LiveSessions(c)' = {}
  BY NoLiveSessionAppears DEF Dead
<1>5. code'[c].status = "revoked"
  <2>1. code[c].bound = NoSiteId /\ code[c].status = "revoked"
    BY DEF Dead, CodesInv, CodeKnowsItsSite
  <2>2. ASSUME NEW k \in Codes, Admin(k) PROVE code'[c].status = "revoked"
    BY <2>1, <2>2 DEF Admin, CreateCode, RevokeCode, DeleteCode, CodesInv, CodesTypeOK, Code
  <2>3. ASSUME NEW s \in SiteIds, JobEnds(s) PROVE code'[c].status = "revoked"
    <3>1. CASE FinalizeSiteDeletion(s)
      <4>1. sites[s].code # c
        BY <3>1 DEF FinalizeSiteDeletion, Dead, OpenSitesOf
      <4> QED
        BY <2>1, <3>1, <4>1 DEF FinalizeSiteDeletion, CodesInv, CodesTypeOK
    <3>2. CASE ProvisionSucceeds(s) \/ ProvisionFails(s) \/ RetryProvision(s)
      BY <2>1, <3>2, NullAssumption
         DEF ProvisionSucceeds, ProvisionFails, RetryProvision, CodesBoundTo
    <3> QED
      BY <2>3, <3>1, <3>2 DEF JobEnds
  <2>4. RunMaintenance => code'[c].status = "revoked"
    BY <2>1 DEF RunMaintenance, SweptCode
  <2>5. Time => code'[c].status = "revoked"
    BY <2>1 DEF Time, SessionExpires, ReservationExpires, CodeExpires, ReservedTooLong,
                CodesInv, CodesTypeOK, Code
  <2>6. ASSUME NEW u \in Callers, Caller(u) PROVE code'[c].status = "revoked"
    <3>1. CASE UNCHANGED code
      BY <2>1, <3>1
    <3> QED
      BY <1>1, <1>3, <2>6, <3>1
         DEF Caller, Verify, VerifyRead, VerifyResume, VerifyFindsNone, VerifyReturn,
             CallFails, ReserveRead, ReserveCount, ReserveDomain
  <2>7. UNCHANGED codesVars => code'[c].status = "revoked"
    BY <2>1 DEF codesVars
  <2> QED
    BY <2>2, <2>3, <2>4, <2>5, <2>6, <2>7 DEF CodesNext
<1>6. ASSUME NEW u \in Callers, call'[u].code = c
      PROVE  call'[u].op # "replace" /\ ~ (call'[u].op = "verify" /\ call'[u].status = "reserved")
  <2>0. call \in [Callers -> Call]
    BY DEF CodesInv, CodesTypeOK
  <2>1. CASE call'[u] = call[u]
    BY <1>6, <2>1 DEF Dead
  <2>2. CASE call'[u].op \notin {"verify", "replace"}
    BY <2>2
  <2>3. ASSUME NEW v \in Callers, VerifyRead(v, c)
        PROVE  call'[u] = call[u] \/ (call'[u].op = "verify" /\ call'[u].status = "revoked")
    BY <2>0, <2>3 DEF VerifyRead, Dead, Call, NoCall
  <2>4. ASSUME NEW v \in Callers, NEW k \in Codes, k # c, VerifyRead(v, k)
        PROVE  call'[u] = call[u] \/ call'[u].code = k
    BY <2>0, <2>4 DEF VerifyRead, NoCall
  <2>5. ASSUME NEW v \in Callers, VerifyFindsNone(v) PROVE call'[u] = call[u]
    <3>1. call[v].code # c
      BY <2>5 DEF VerifyFindsNone, Dead
    <3>2. call' = [call EXCEPT ![v] = [call[v] EXCEPT !.op = "replace"]]
      BY <2>5 DEF VerifyFindsNone
    <3> QED
      BY <1>6, <2>0, <3>1, <3>2 DEF Call
  <2>6. ASSUME NEW v \in Callers, Caller(v), ~ VerifyFindsNone(v),
               ~ \E k \in Codes : VerifyRead(v, k)
        PROVE  call'[u] = call[u] \/ call'[u].op \notin {"verify", "replace"}
    <3>1. ASSUME NEW x \in Sessions, ReserveRead(v, x)
          PROVE  call'[u] = call[u] \/ call'[u].op = "reserve"
      BY <2>0, <3>1 DEF ReserveRead, NoCall
    <3>2. CASE VerifyResume(v) \/ VerifyReplace(v) \/ VerifyReturn(v) \/ VerifyReserve(v)
               \/ CallFails(v) \/ ReserveDomain(v)
      <4>1. call' = [call EXCEPT ![v] = NoCall]
        BY <3>2 DEF VerifyResume, VerifyReplace, VerifyReturn, VerifyReserve, CallFails,
                    ReserveDomain
      <4> QED
        BY <2>0, <4>1 DEF NoCall
    <3>3. ASSUME NEW x \in Sessions, NEW s \in SiteIds, OpenSite(v, x, s) PROVE call' = call
      BY <3>3 DEF OpenSite
    <3>4. ASSUME NEW d \in Domains, ReserveCount(v, d)
          PROVE  call'[u] = call[u] \/ call'[u].op = "counted"
      BY <2>0, <3>4 DEF ReserveCount, Call
    <3> QED
      BY <2>6, <3>1, <3>2, <3>3, <3>4 DEF Caller, Verify
  <2>7. ASSUME NEW v \in Callers, Caller(v)
        PROVE  call'[u].op # "replace"
               /\ ~ (call'[u].op = "verify" /\ call'[u].status = "reserved")
    BY <1>6, <2>1, <2>2, <2>3, <2>4, <2>5, <2>6, <2>7
  <2>8. (\E k \in Codes : Admin(k)) \/ (\E s \in SiteIds : JobEnds(s)) \/ RunMaintenance \/ Time
          \/ UNCHANGED codesVars => UNCHANGED call
    BY DEF Admin, CreateCode, RevokeCode, DeleteCode, JobEnds, ProvisionSucceeds,
           ProvisionFails, RetryProvision, FinalizeSiteDeletion, RunMaintenance, Time,
           SessionExpires, ReservationExpires, CodeExpires, ReservedTooLong, codesVars
  <2> QED
    BY <2>1, <2>7, <2>8 DEF CodesNext
<1>7. LiveSessions(c)' = {}
  BY <1>3, <1>4
<1>8. OpenSitesOf(c)' = {}
  BY <1>1, <1>2
<1> QED
  BY <1>5, <1>6, <1>7, <1>8 DEF Dead

LEMMA NoSecondFormStep ==
    ASSUME CodesInv, NoSecondForm, [CodesNext]_codesVars
    PROVE  NoSecondForm'
BY MakesLive, NoLiveSessionAppears

LEMMA NoSecondFormInvariant == CodesSpec => []NoSecondForm
<1>1. CodesInit => NoSecondForm
  BY DEF CodesInit, NoSecondForm, BlankSession
<1> QED
  BY <1>1, NoSecondFormStep, CodesInvariance, PTL DEF CodesSpec

\* Once nothing is under way on a revoked code, no request, job or sweep brings it
\* back: what RevokeCode leaves open is what was begun before it.
THEOREM RevokedForGood == CodesSpec => [][\A c \in Codes : Dead(c) => Dead(c)']_codesVars
<1>1. CodesInv /\ NoSecondForm /\ [CodesNext]_codesVars =>
          [\A c \in Codes : Dead(c) => Dead(c)']_codesVars
  BY DeadStays
<1> QED
  BY <1>1, CodesInvariance, NoSecondFormInvariant, PTL DEF CodesSpec

-----------------------------------------------------------------------------
(* A code opens one site at a time, if VerifyCode reads it in the          *)
(* transaction that makes the session.                                     *)

\* What VerifyCode read before its transaction is still so.
Rechecked ==
    \A u \in Callers : VerifyReplace(u) =>
        code[call[u].code].status = "reserved" /\ LiveSessions(call[u].code) = {}

\* A live session excludes another and a site, a site excludes another, and a
\* code for which neither must exist has neither.
Single(c) ==
    /\ \A x, y \in LiveSessions(c) : x = y
    /\ LiveSessions(c) # {} => OpenSitesOf(c) = {}
    /\ \A s, t \in OpenSitesOf(c) : s = t
    /\ code[c].status \in {"none", "unused"} => LiveSessions(c) = {}
    /\ code[c].status \in {"none", "unused", "reserved"} => OpenSitesOf(c) = {}
    /\ code[c].status = "reserved" /\ code[c].stale => LiveSessions(c) = {}

LEMMA SingleKept ==
    ASSUME NEW c \in Codes, Single(c), OpenSitesOf(c)' \subseteq OpenSitesOf(c),
           LiveSessions(c)' \subseteq LiveSessions(c),
           \/ code'[c].status = code[c].status /\ code'[c].stale = code[c].stale
           \/ code'[c].status \notin {"none", "unused", "reserved"}
           \/ LiveSessions(c)' = {} /\ OpenSitesOf(c)' = {}
    PROVE  Single(c)'
BY DEF Single

LEMMA OpenSiteSingle ==
    ASSUME CodesInv, NoSecondForm, NEW c \in Codes, Single(c),
           NEW u \in Callers, NEW x \in Sessions, NEW s \in SiteIds, OpenSite(u, x, s)
    PROVE  Single(c)'
<1>1. CASE session[x].code = c
  <2>1. x \in LiveSessions(c) /\ LiveSessions(c)' = LiveSessions(c) \ {x}
        /\ OpenSitesOf(c)' \subseteq OpenSitesOf(c) \cup {s}
    BY <1>1, OpensFromLive
  <2>2. LiveSessions(c)' = {} /\ OpenSitesOf(c)' \subseteq {s}
    BY <2>1 DEF Single
  <2>3. code'[c].status = "provisioning"
    BY <1>1 DEF OpenSite, CodesInv, CodesTypeOK, Code
  <2> QED
    BY <2>2, <2>3 DEF Single
<1>2. CASE session[x].code # c
  <2>1. /\ OpenSitesOf(c)' \subseteq OpenSitesOf(c)
        /\ LiveSessions(c)' \subseteq LiveSessions(c)
        /\ code'[c] = code[c] \/ code'[c].status = "provisioning"
    BY <1>2, OpensFromLive
  <2> QED
    BY <2>1, SingleKept
<1> QED
  BY <1>1, <1>2

\* A session is made only of a code that has none, and no site.
LEMMA MakesSingle ==
    ASSUME CodesInv, NoSecondForm, [CodesNext]_codesVars, Rechecked,
           NEW c \in Codes, Single(c),
           NEW u \in Callers, VerifyReplace(u) \/ VerifyReserve(u)
    PROVE  Single(c)'
<1>1. UNCHANGED sites
  BY DEF VerifyReplace, VerifyReserve
<1>2. OpenSitesOf(c)' = OpenSitesOf(c)
  BY <1>1 DEF OpenSitesOf
<1>3. PICK x \in Sessions :
          LiveSessions(c)' \subseteq
              LiveSessions(c) \cup (IF c = call[u].code THEN {x} ELSE {})
  BY MakesLive
<1>4. CASE call[u].code = c
  <2>1. LiveSessions(c) = {} /\ OpenSitesOf(c) = {}
    BY <1>4 DEF Rechecked, VerifyReserve, Single
  <2>2. code'[c].status = "reserved" /\ code'[c].stale = FALSE
    <3>1. code[c] \in Code /\ code \in [Codes -> Code]
      BY DEF CodesInv, CodesTypeOK
    <3>2. CASE VerifyReplace(u)
      <4>1. /\ code[c].status = "reserved"
            /\ code' = [code EXCEPT ![c] = [code[c] EXCEPT !.stale = FALSE]]
        BY <1>4, <3>2 DEF Rechecked, VerifyReplace
      <4> QED
        BY <3>1, <4>1 DEF Code
    <3>3. CASE VerifyReserve(u)
      <4>1. code' = [code EXCEPT ![c] = [code[c] EXCEPT !.status = "reserved", !.stale = FALSE]]
        BY <1>4, <3>3 DEF VerifyReserve
      <4> QED
        BY <3>1, <4>1 DEF Code
    <3> QED
      BY <3>2, <3>3
  <2> QED
    BY <1>2, <1>3, <2>1, <2>2 DEF Single
<1>5. CASE call[u].code # c
  <2>1. code'[c] = code[c]
    BY <1>5 DEF VerifyReplace, VerifyReserve, CodesInv, CodesTypeOK
  <2> QED
    BY <1>2, <1>3, <1>5, <2>1, SingleKept
<1> QED
  BY <1>4, <1>5

\* The deletion of the only site of a code leaves used_sites at zero, so that the
\* code is not active any more.
LEMMA DeletionSingle ==
    ASSUME CodesInv, NEW c \in Codes, Single(c), NEW s \in SiteIds, FinalizeSiteDeletion(s),
           OpenSitesOf(c)' \subseteq OpenSitesOf(c), LiveSessions(c)' \subseteq LiveSessions(c)
    PROVE  Single(c)'
<1>1. CASE sites[s].code # c
  <2>1. code'[c] = code[c]
    BY <1>1 DEF FinalizeSiteDeletion, CodesInv, CodesTypeOK
  <2> QED
    BY <2>1, SingleKept
<1>2. CASE sites[s].code = c
  <2>1. s \in OpenSitesOf(c)
    BY <1>2 DEF FinalizeSiteDeletion, OpenSitesOf
  <2>2. s \notin OpenSitesOf(c)'
    BY DEF FinalizeSiteDeletion, OpenSitesOf, CodesInv, CodesTypeOK, Site
  <2>3. LiveSessions(c)' = {} /\ OpenSitesOf(c)' = {}
    BY <2>1, <2>2 DEF Single
  <2> QED
    BY <2>3, SingleKept
<1> QED
  BY <1>1, <1>2

LEMMA SingleStep ==
    ASSUME CodesInv, NoSecondForm, [CodesNext]_codesVars, Rechecked, NEW c \in Codes, Single(c)
    PROVE  Single(c)'
<1>1. CASE \E u \in Callers, x \in Sessions, s \in SiteIds : OpenSite(u, x, s)
  BY <1>1, OpenSiteSingle
<1>2. CASE \E u \in Callers : VerifyReplace(u) \/ VerifyReserve(u)
  BY <1>2, MakesSingle
<1>3. CASE /\ ~ \E u \in Callers, x \in Sessions, s \in SiteIds : OpenSite(u, x, s)
           /\ ~ \E u \in Callers : VerifyReplace(u) \/ VerifyReserve(u)
  <2>1. OpenSitesOf(c)' \subseteq OpenSitesOf(c) /\ LiveSessions(c)' \subseteq LiveSessions(c)
    BY <1>3, NoSiteAppears, NoLiveSessionAppears
  <2>2. CASE UNCHANGED code
    BY <2>1, <2>2, SingleKept
  <2>3. ASSUME NEW u \in Callers, Caller(u) PROVE UNCHANGED code
    BY <1>3, <2>3 DEF Caller, Verify, VerifyRead, VerifyResume, VerifyFindsNone,
                      VerifyReturn, CallFails, ReserveRead, ReserveCount, ReserveDomain
  <2>4. ASSUME NEW k \in Codes, Admin(k) PROVE Single(c)'
    <3>1. CASE k # c
      <4>1. code'[c] = code[c]
        BY <2>4, <3>1 DEF Admin, CreateCode, RevokeCode, DeleteCode, CodesInv, CodesTypeOK
      <4> QED
        BY <2>1, <4>1, SingleKept
    <3>2. CASE k = c
      <4>1. \/ code'[c].status \in {"revoked", "deleted"}
            \/ code[c].status = "none"
        BY <2>4, <3>2 DEF Admin, CreateCode, RevokeCode, DeleteCode, CodesInv, CodesTypeOK, Code
      <4> QED
        BY <2>1, <4>1, SingleKept DEF Single
    <3> QED
      BY <3>1, <3>2
  <2>5. ASSUME NEW s \in SiteIds, JobEnds(s) PROVE Single(c)'
    <3>1. CASE FinalizeSiteDeletion(s)
      BY <2>1, <3>1, DeletionSingle
    <3>2. CASE ProvisionSucceeds(s) \/ ProvisionFails(s) \/ RetryProvision(s)
      <4>1. code'[c] = code[c] \/ code'[c].status \in {"active", "failed"}
        BY <3>2 DEF ProvisionSucceeds, ProvisionFails, RetryProvision, UsedCode,
                    CodesInv, CodesTypeOK, Code
      <4> QED
        BY <2>1, <4>1, SingleKept
    <3> QED
      BY <2>5, <3>1, <3>2 DEF JobEnds
  <2>6. CASE RunMaintenance
    <3>1. code[c] \in Code /\ code'[c] = SweptCode(code[c])
      BY <2>6 DEF RunMaintenance, CodesInv, CodesTypeOK
    <3>2. \/ code'[c] = code[c] \/ code'[c].status = "expired"
          \/ code[c].status = "reserved" /\ code[c].stale
      BY <3>1 DEF SweptCode, Code
    <3> QED
      BY <2>1, <3>2, SingleKept DEF Single
  <2>7. CASE Time
    <3>1. ASSUME NEW k \in Codes, CodeExpires(k) \/ ReservedTooLong(k)
          PROVE  /\ code'[c].status = code[c].status
                 /\ \/ code'[c].stale = code[c].stale
                    \/ code[c].status = "reserved" /\ LiveSessions(c) = {}
      BY <3>1 DEF CodeExpires, ReservedTooLong, CodesInv, CodesTypeOK, Code
    <3> QED
      BY <2>1, <2>2, <2>7, <3>1, SingleKept
         DEF Single, Time, SessionExpires, ReservationExpires
  <2>8. CASE UNCHANGED codesVars
    BY <2>2, <2>8 DEF codesVars
  <2> QED
    BY <2>2, <2>3, <2>4, <2>5, <2>6, <2>7, <2>8 DEF CodesNext
<1> QED
  BY <1>1, <1>2, <1>3

\* Under that condition a code has one site at a time, also one for several sites,
\* whose other sites can therefore never be opened (VerifyCode, "active").
OneSiteAtATime == \A c \in Codes : Cardinality(OpenSitesOf(c)) \in {0, 1}

THEOREM OneAfterTheOther == CodesSpec /\ [][Rechecked]_codesVars => []OneSiteAtATime
<1>1. CodesInit => \A c \in Codes : Single(c)
  BY DEF CodesInit, Single, LiveSessions, OpenSitesOf, BlankSession, NoSiteRow
<1>2. CodesInv /\ NoSecondForm /\ [CodesNext]_codesVars /\ [Rechecked]_codesVars
      /\ (\A c \in Codes : Single(c)) => (\A c \in Codes : Single(c))'
  <2> SUFFICES ASSUME CodesInv, NoSecondForm, [CodesNext]_codesVars, [Rechecked]_codesVars,
                      NEW c \in Codes, Single(c)
               PROVE  Single(c)'
    OBVIOUS
  <2>1. CASE UNCHANGED codesVars
    BY <2>1 DEF codesVars, Single, LiveSessions, OpenSitesOf
  <2> QED
    BY <2>1, SingleStep
<1>3. (\A c \in Codes : Single(c)) => OneSiteAtATime
  <2> SUFFICES ASSUME NEW c \in Codes, Single(c) PROVE Cardinality(OpenSitesOf(c)) \in {0, 1}
    BY DEF OneSiteAtATime
  <2>1. CASE OpenSitesOf(c) = {}
    BY <2>1, FS_EmptySet
  <2>2. ASSUME NEW s \in OpenSitesOf(c) PROVE Cardinality(OpenSitesOf(c)) = 1
    <3>1. OpenSitesOf(c) = {s}
      BY <2>2 DEF Single
    <3> QED
      BY <3>1, FS_Singleton
  <2> QED
    BY <2>1, <2>2
<1> QED
  BY <1>1, <1>2, <1>3, CodesInvariance, NoSecondFormInvariant, PTL DEF CodesSpec

\* So the request that acts on what it read before its transaction is the only way
\* in which a code opens more sites than it was sold for.
THEOREM OnlyTheRaceExceedsQuota ==
    CodesSpec /\ [][Rechecked]_codesVars => []SitesWithinQuota
<1>1. OneSiteAtATime => SitesWithinQuota
  <2> SUFFICES ASSUME OneSiteAtATime, NEW c \in Codes
               PROVE  Cardinality(OpenSitesOf(c)) <= MaxSites
    BY DEF SitesWithinQuota
  <2>1. Cardinality(OpenSitesOf(c)) \in {0, 1}
    BY DEF OneSiteAtATime
  <2> QED
    BY <2>1, MaxSitesAssumption
<1> QED
  BY <1>1, OneAfterTheOther, PTL
=============================================================================
