------------------------------ MODULE JobLease ------------------------------
(***************************************************************************)
(* What the job engine promises, without tables, stale rows or             *)
(* transactions: a job is leased to at most one worker, only its lessee    *)
(* may end its execution, a running job nobody holds is requeued and never *)
(* finished, and a finished job stays finished.                            *)
(***************************************************************************)
CONSTANTS Jobs, Workers, Nobody    \* Nobody is no worker

VARIABLES status, lessee

leaseVars == <<status, lessee>>

Waiting == {"ready", "retry_wait"}
Held == {"paused", "blocked"}
Finished == {"completed", "completed_with_warnings", "failed", "indeterminate"}

Move(j, from, to) ==
    /\ status[j] \in from
    /\ \E s \in to : status' = [status EXCEPT ![j] = s]

Init ==
    /\ status = [j \in Jobs |-> "absent"]
    /\ lessee = [j \in Jobs |-> Nobody]

\* A new job is submitted in a status that precedes execution.
Submit(j) ==
    /\ Move(j, {"absent"}, {"planned", "awaiting_approval", "ready"})
    /\ UNCHANGED lessee

\* An awaited approval arrives, or a hold ends.
Release(j) ==
    /\ Move(j, {"awaiting_approval"} \cup Held, {"ready"})
    /\ UNCHANGED lessee

\* A waiting job is paused by an operator or blocked by a worker.
Hold(j) ==
    /\ Move(j, Waiting, Held)
    /\ UNCHANGED lessee

Cancel(j) ==
    /\ Move(j, {"planned", "awaiting_approval"} \cup Waiting \cup Held, {"cancelled"})
    /\ UNCHANGED lessee

\* A worker that holds no lease takes a waiting job.
Lease(j, w) ==
    /\ \A i \in Jobs : lessee[i] # w
    /\ lessee[j] = Nobody
    /\ Move(j, Waiting, {"running"})
    /\ lessee' = [lessee EXCEPT ![j] = w]

\* The lessee ends the execution: it yields at a checkpoint, schedules a retry or
\* records a final result.
End(j, w) ==
    /\ lessee[j] = w
    /\ Move(j, {"running"}, Waiting \cup Finished)
    /\ lessee' = [lessee EXCEPT ![j] = Nobody]

\* The lessee dies.
Abandon(j, w) ==
    /\ lessee[j] = w
    /\ lessee' = [lessee EXCEPT ![j] = Nobody]
    /\ UNCHANGED status

\* An abandoned job is requeued.
Requeue(j) ==
    /\ lessee[j] = Nobody
    /\ Move(j, {"running"}, {"ready"})
    /\ UNCHANGED lessee

Next ==
    \E j \in Jobs :
        \/ Submit(j) \/ Release(j) \/ Hold(j) \/ Cancel(j) \/ Requeue(j)
        \/ \E w \in Workers : Lease(j, w) \/ End(j, w) \/ Abandon(j, w)

Spec == Init /\ [][Next]_leaseVars
=============================================================================
