---------------------------- MODULE JobLifecycle ----------------------------
(***************************************************************************)
(* What the life of an analysis job comes to, seen from its row alone: the *)
(* transition table of analysis_repository.py, widened by what the code    *)
(* does besides it.  A reset or a scheduled retry takes a running job back *)
(* to the queue, a reprocessing a dead letter; and because a status is     *)
(* written over whatever the row has become, a job that has ended may end  *)
(* again, in another way.  Nothing else brings an ended job back.          *)
(* (A quote recalculation, which completes without a result, is not an     *)
(* analysis job in this sense.)                                            *)
(***************************************************************************)
EXTENDS Naturals

CONSTANT Job

VARIABLES
    status,           \* "none" before the row exists
    attempts,         \* attempt_count
    results           \* analysis_results rows of the job

vars == <<status, attempts, results>>

Ended == {"completed", "failed", "canceled", "dead_letter"}

Init ==
    /\ status = [j \in Job |-> "none"]
    /\ attempts = [j \in Job |-> 0]
    /\ results = [j \in Job |-> 0]

Become(j, s) == status' = [status EXCEPT ![j] = s]

Create(j) ==
    /\ status[j] = "none"
    /\ Become(j, "queued")
    /\ UNCHANGED <<attempts, results>>

Claim(j) ==
    /\ status[j] = "queued"
    /\ Become(j, "running")
    /\ attempts' = [attempts EXCEPT ![j] = @ + 1]
    /\ UNCHANGED results

GiveBack(j) ==
    /\ status[j] = "running"
    /\ Become(j, "queued")
    /\ UNCHANGED <<attempts, results>>

\* A result row is stored with the step to "completed", and with no other.
Complete(j) ==
    /\ status[j] # "none"
    /\ Become(j, "completed")
    /\ results' = [results EXCEPT ![j] = @ + 1]
    /\ UNCHANGED attempts

EndOtherwise(j) ==
    /\ status[j] # "none"
    /\ \E s \in Ended \ {"completed"} : Become(j, s)
    /\ UNCHANGED <<attempts, results>>

Reprocess(j) ==
    /\ status[j] = "dead_letter"
    /\ Become(j, "queued")
    /\ attempts' = [attempts EXCEPT ![j] = 0]
    /\ UNCHANGED results

Next ==
    \E j \in Job :
        \/ Create(j) \/ Claim(j) \/ GiveBack(j) \/ Complete(j) \/ EndOtherwise(j) \/ Reprocess(j)

Spec == Init /\ [][Next]_vars

-----------------------------------------------------------------------------
\* A job that was completed, failed or canceled is never queued or run again.
NoRevival ==
    [][ \A j \in Job :
          status[j] \in Ended \ {"dead_letter"} => status'[j] \in Ended ]_vars

\* A completed job has a result, and a job that never ran has none.
CompletedHasResult ==
    \A j \in Job :
        /\ status[j] = "completed" => results[j] > 0
        /\ status[j] = "none" => results[j] = 0
=============================================================================
