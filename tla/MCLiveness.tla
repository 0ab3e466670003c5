----------------------------- MODULE MCLiveness ------------------------------
(***************************************************************************)
(* Small instances of parts that share no state, checked side by side for  *)
(* what must happen in the end; see MCSafety.                              *)
(***************************************************************************)
EXTENDS CodeLifecycle, ProgressStream, AdminLogin, MetricReports

VARIABLE part

LivenessInit ==
    /\ part \in {"code", "stream", "login", "report"}
    /\ CodesInit /\ StreamInit /\ LoginInit /\ ReportInit

CodeStep ==
    /\ part = "code" /\ CodesNext
    /\ UNCHANGED <<part, streamVars, loginVars, reportVars>>
StreamStep ==
    /\ part = "stream" /\ StreamNext
    /\ UNCHANGED <<part, codesVars, loginVars, reportVars>>
LoginStep ==
    /\ part = "login" /\ LoginNext
    /\ UNCHANGED <<part, codesVars, streamVars, reportVars>>
ReportStep ==
    /\ part = "report" /\ ReportNext
    /\ UNCHANGED <<part, codesVars, streamVars, loginVars>>

LivenessNext == CodeStep \/ StreamStep \/ LoginStep \/ ReportStep

\* A part that rests asks nothing of the fairness of the others: nothing in it
\* is due in its first state.
LivenessSpec ==
    /\ LivenessInit /\ [][LivenessNext]_<<part, codesVars, streamVars, loginVars, reportVars>>
    /\ CodesFairness /\ StreamFairness /\ LoginFairness /\ ReportFairness

\* The jobs, pages, counters and reports keep their shape.
LivenessTypeOK == StreamTypeOK /\ LoginTypeOK /\ ReportTypeOK
=============================================================================
