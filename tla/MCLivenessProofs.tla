-------------------------- MODULE MCLivenessProofs ---------------------------
(***************************************************************************)
(* The parts that MCLiveness runs side by side are the parts themselves,   *)
(* with their fairness: see MCSafetyProofs.                                *)
(***************************************************************************)
EXTENDS MCLiveness, CodeLifecycleProofs, ProgressStreamProofs, AccessProofs, ReportProofs

livenessVars == <<part, codesVars, streamVars, loginVars, reportVars>>

\* What a step of the composition is to each of its parts.
LEMMA LivenessStep ==
    ASSUME [LivenessNext]_livenessVars
    PROVE  /\ [CodesNext]_codesVars /\ [StreamNext]_streamVars
           /\ [LoginNext]_loginVars /\ [ReportNext]_reportVars
<1>1. CASE CodeStep
  BY <1>1 DEF CodeStep
<1>2. CASE StreamStep
  BY <1>2 DEF StreamStep
<1>3. CASE LoginStep
  BY <1>3 DEF LoginStep
<1>4. CASE ReportStep
  BY <1>4 DEF ReportStep
<1>5. CASE UNCHANGED livenessVars
  BY <1>5 DEF livenessVars
<1> QED
  BY <1>1, <1>2, <1>3, <1>4, <1>5 DEF LivenessNext

\* The composition implements each part, fairness included: the codes, the page
\* and its stream, the login and the reporter go on as their specifications say.
THEOREM LivenessRunsItsParts ==
    LivenessSpec => CodesFairSpec /\ StreamSpec /\ LoginSpec /\ ReportSpec
<1>1. LivenessInit => CodesInit /\ StreamInit /\ LoginInit /\ ReportInit
  BY DEF LivenessInit
<1>2. [LivenessNext]_livenessVars =>
          /\ [CodesNext]_codesVars /\ [StreamNext]_streamVars
          /\ [LoginNext]_loginVars /\ [ReportNext]_reportVars
  BY LivenessStep
<1> QED
  BY <1>1, <1>2, PTL
     DEF LivenessSpec, livenessVars, CodesSpec, CodesFairSpec, StreamSpec, LoginSpec, ReportSpec

\* The jobs, pages, counters and reports keep their shape, whatever values the
\* constants have.
THEOREM LivenessKeepsItsShape == LivenessSpec => []LivenessTypeOK
<1>1. StreamInv => StreamTypeOK
  BY DEF StreamInv
<1>2. StreamTypeOK /\ LoginTypeOK /\ ReportTypeOK => LivenessTypeOK
  BY DEF LivenessTypeOK
<1> QED
  BY <1>1, <1>2, LivenessRunsItsParts, StreamInvariance, LoginKeepsItsShape,
     ReportsKeepTheirShape, PTL

\* Nor does anything forbidden happen on the way to what must happen: numbers are
\* free, lists have no gap, guesses are bounded, today's calls not overcounted.
THEOREM NothingForbiddenOnTheWay ==
    LivenessSpec => [](/\ NumberIsFree /\ ShownWithoutGap
                       /\ GuessesBounded /\ TodayIsNotOvercounted)
BY LivenessRunsItsParts, EventNumbersAreFree, ListHasNoGap, GuessesAreBounded, TodayIsRight, PTL
=============================================================================
