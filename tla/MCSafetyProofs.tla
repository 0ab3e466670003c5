--------------------------- MODULE MCSafetyProofs ----------------------------
(***************************************************************************)
(* The parts that MCSafety runs side by side are the parts themselves:     *)
(* every behaviour of SafetySpec is one of each part's specification. So   *)
(* what is proved of a part holds of the composition, for all values of    *)
(* the constants and not only those of the run.                            *)
(*                                                                         *)
(* The argument: a step of one part changes no variable of another, so it  *)
(* is a step or a stutter of each.                                         *)
(***************************************************************************)
EXTENDS MCSafety, JobQueueProofs, CodeLifecycleProofs, AccessProofs, ReportProofs

safetyVars == <<part, vars, codesVars, rateVars, nonceVars, secretVars>>

\* What a step of the composition is to each of its parts.
LEMMA SafetyStep ==
    ASSUME [SafetyNext]_safetyVars
    PROVE  /\ [Next]_vars /\ [CodesNext]_codesVars /\ [RateNext]_rateVars
           /\ [NonceNext]_nonceVars /\ [SecretsNext]_secretVars
<1>1. CASE QueueStep
  BY <1>1 DEF QueueStep
<1>2. CASE CodeStep
  BY <1>2 DEF CodeStep
<1>3. CASE RateStep
  BY <1>3 DEF RateStep
<1>4. CASE NonceStep
  BY <1>4 DEF NonceStep
<1>5. CASE SecretsStep
  BY <1>5 DEF SecretsStep
<1>6. CASE UNCHANGED safetyVars
  BY <1>6 DEF safetyVars
<1> QED
  BY <1>1, <1>2, <1>3, <1>4, <1>5, <1>6 DEF SafetyNext

\* The composition implements each part: the job queue, the codes, the limiter,
\* the nonces and the passwords go on as their own specifications say.
THEOREM SafetyRunsItsParts ==
    SafetySpec => Spec /\ CodesSpec /\ RateSpec /\ NonceSpec /\ SecretsSpec
<1>1. SafetyInit => Init /\ CodesInit /\ RateInit /\ NonceInit /\ SecretsInit
  BY DEF SafetyInit
<1>2. [SafetyNext]_safetyVars =>
          /\ [Next]_vars /\ [CodesNext]_codesVars /\ [RateNext]_rateVars
          /\ [NonceNext]_nonceVars /\ [SecretsNext]_secretVars
  BY SafetyStep
<1> QED
  BY <1>1, <1>2, PTL
     DEF SafetySpec, safetyVars, Spec, CodesSpec, RateSpec, NonceSpec, SecretsSpec

\* The rows, requests, buckets, nonces and passwords keep their shape, whatever
\* values the constants have.
THEOREM SafetyKeepsItsShape == SafetySpec => []SafetyTypeOK
<1>1. CodesInv /\ RateInv /\ NonceInv /\ SecretsInv => SafetyTypeOK
  BY DEF CodesInv, RateInv, NonceInv, SecretsInv, SafetyTypeOK
<1> QED
  BY <1>1, SafetyRunsItsParts, CodesInvariance, RateInvariance, NonceInvariant,
     SecretsInvariant, PTL

\* What five parts must never do they never do together: one operation per site
\* and none completed on a deleted site, reservations and codes that stay with their
\* sessions and sites, limits that hold, reports counted once, passwords that fit.
THEOREM NothingForbiddenHappens ==
    SafetySpec =>
        /\ [](/\ OneOperationPerSite
             /\ SpentWithItsSite /\ CodeKnowsItsSite /\ SessionOpensOnce
             /\ TwoWindowsAtMost /\ RefusedForReason
             /\ CountedOnce
             /\ OnePassword /\ AdminCanLogIn)
        /\ OperationsSpareDeletedSites /\ DomainKept
BY SafetyRunsItsParts, OneOperation, OperationsSpareDeleted,
   ReservationsSpentWithTheirSites, CodesKnowTheirSites, SessionsOpenOnce,
   ReservationsAreKept, AtMostTwoWindows, RefusalsHaveReasons, CountedOnlyOnce,
   OnePasswordForever, AdminCanAlwaysLogIn, PTL
=============================================================================
