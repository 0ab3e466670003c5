----------------------------- MODULE MCJobQueue -----------------------------
(* Small instances of JobQueue for TLC.                                    *)
EXTENDS JobQueue

CONSTANTS p1, p2   \* agent processes

\* Both processes run with the default AGENT_ID: the old one has not gone yet
\* when the new one starts.
MCWorkerId == [a \in Agents |-> "agent"]

\* Two announced steps where the code has twelve (provision) or four (delete):
\* one between the first and the last is enough to lose a claim in.
MCSteps == [t \in OpTypes \cup {"provision"} |-> IF t = "backup" THEN 1 ELSE 2]
=============================================================================
