---------------------------- MODULE JobContract ----------------------------
(***************************************************************************)
(* What the deployment queue promises about one job, whoever runs it: a    *)
(* job is submitted once, every start uses up one of its attempts, it is   *)
(* completed only when the start in progress has reported every step of    *)
(* the job itself, and completed is final.  JobQueue implements it.        *)
(***************************************************************************)
EXTENDS Naturals

CONSTANTS Jobs,         \* the jobs that may be submitted
          Lengths,      \* possible numbers of steps of a job
          MaxAttempts   \* starts a job may use up

VARIABLES status,       \* "none", "pending", "running", "completed", "failed"
          tries,        \* starts used up
          length,       \* number of steps of the job
          reported      \* steps reported by the start in progress

vars == <<status, tries, length, reported>>

Init == /\ status = [j \in Jobs |-> "none"]
        /\ tries = [j \in Jobs |-> 0]
        /\ length = [j \in Jobs |-> 0]
        /\ reported = [j \in Jobs |-> 0]

Submit(j) == /\ status[j] = "none"
             /\ status' = [status EXCEPT ![j] = "pending"]
             /\ \E n \in Lengths : length' = [length EXCEPT ![j] = n]
             /\ UNCHANGED <<tries, reported>>

\* A first start, or the takeover of a start that was lost.
Start(j) == /\ status[j] \in {"pending", "running"}
            /\ tries[j] < MaxAttempts
            /\ status' = [status EXCEPT ![j] = "running"]
            /\ tries' = [tries EXCEPT ![j] = @ + 1]
            /\ reported' = [reported EXCEPT ![j] = 0]
            /\ UNCHANGED length

Report(j) == /\ status[j] = "running"
             /\ reported[j] < length[j]
             /\ reported' = [reported EXCEPT ![j] = @ + 1]
             /\ UNCHANGED <<status, tries, length>>

\* The start in progress is lost with everything it did.
Lose(j) == /\ status[j] = "running"
           /\ reported' = [reported EXCEPT ![j] = 0]
           /\ UNCHANGED <<status, tries, length>>

Succeed(j) == /\ status[j] = "running"
              /\ reported[j] = length[j]
              /\ status' = [status EXCEPT ![j] = "completed"]
              /\ reported' = [reported EXCEPT ![j] = 0]
              /\ UNCHANGED <<tries, length>>

GiveUp(j) == /\ status[j] = "running"
             /\ status' = [status EXCEPT ![j] = "failed"]
             /\ reported' = [reported EXCEPT ![j] = 0]
             /\ UNCHANGED <<tries, length>>

Retry(j) == /\ status[j] = "failed"
            /\ tries[j] < MaxAttempts
            /\ status' = [status EXCEPT ![j] = "pending"]
            /\ UNCHANGED <<tries, length, reported>>

Next == \E j \in Jobs : \/ Submit(j) \/ Start(j) \/ Report(j) \/ Lose(j)
                        \/ Succeed(j) \/ GiveUp(j) \/ Retry(j)

Spec == Init /\ [][Next]_vars
=============================================================================
