----------------------------- MODULE JobsProofs -----------------------------
(***************************************************************************)
(* Theorems about Jobs, for every set of jobs, workers and operators and   *)
(* every value of the other constants.                                     *)
(***************************************************************************)
EXTENDS Jobs, TLAPS

(***************************************************************************)
(* Lemmas about the operators of the model                                 *)
(***************************************************************************)

\* A new row is typed, and so is the one of a job that was never created.
LEMMA NewJobType ==
    ASSUME NEW j \in Jobs, NEW status \in Statuses, NEW operation \in AllOperations,
           NEW plan \in AllPlans, NEW approval \in Approvals
    PROVE  /\ NewJob(j, status, operation, plan, approval) \in Job
           /\ NewJob(j, status, operation, plan, approval).job_id = j
           /\ NewJob(j, status, operation, plan, approval).status = status
           /\ NewJob(j, status, operation, plan, approval).attempt_count = 0
BY BatchAssumption, HorizonAssumption DEF NewJob, Job, Boundaries

LEMMA NoJobType ==
    ASSUME NEW j \in Jobs
    PROVE  NoJob(j) \in Job /\ NoJob(j).job_id = j /\ NoJob(j).attempt_count = 0
<1>1. "absent" \in Statuses /\ "search" \in AllOperations /\ "none" \in AllPlans
    BY DEF Statuses, AllOperations, AllPlans
<1>2. 0 \in Approvals
    BY HorizonAssumption DEF Approvals
<1> QED
    BY <1>1, <1>2, NewJobType DEF NoJob

LEMMA FirstJobType == FirstJob \in Jobs
BY JobsAssumption DEF FirstJob

LEMMA NoRowsType == NoRows \in [Jobs -> Job] /\ \A j \in Jobs : NoRows[j].job_id = j
BY NoJobType DEF NoRows

LEMMA IdleOpType ==
    IdleOp \in [kind : {"none"} \cup AllKinds, step : {"idle", "compare", "write"}, row : Job]
BY NoJobType, FirstJobType DEF IdleOp

\* The due time of a retry stays on the model's time scale (_handle_connector_error).
LEMMA RetryAtType ==
    ASSUME NEW time, NEW attempt
    PROVE  RetryAt(time, attempt) \in 0 .. Horizon
BY HorizonAssumption DEF RetryAt

\* Changing the status of a typed row keeps it a typed row of the same job.
LEMMA RowStatus ==
    ASSUME NEW row \in Job, NEW s \in Statuses
    PROVE  /\ [row EXCEPT !.status = s] \in Job
           /\ [row EXCEPT !.status = s].job_id = row.job_id
           /\ [row EXCEPT !.status = s].status = s
           /\ [row EXCEPT !.status = s].attempt_count = row.attempt_count
BY DEF Job

\* transition() leaves the tables typed when the caller's row is.
LEMMA TransitionType ==
    ASSUME StoreOK, NEW row \in Job, NEW expected, NEW closes,
           Transition(row, expected, closes), checkpoints' \in [Jobs -> Boundaries]
    PROVE  StoreOK'
<1> DEFINE j == row.job_id
<1>1. j \in Jobs /\ row.status \in Statuses
    BY DEF Job
<1>2. jobs' \in [Jobs -> Job] /\ \A i \in Jobs : jobs'[i].job_id = i
    BY <1>1 DEF StoreOK, Transition
<1>3. open_attempts' \in [Jobs -> SUBSET Nat]
    BY <1>1 DEF StoreOK, Transition
<1>4. audit' \in [Jobs -> Statuses]
    BY <1>1 DEF StoreOK, Transition, Log
<1> QED
    BY <1>2, <1>3, <1>4 DEF StoreOK, Transition

\* Leaving run_next leaves the worker's locals typed.
LEMMA ReturnType ==
    ASSUME WorkerOK, NEW w \in Workers, Return(w)
    PROVE  WorkerOK'
BY NoRowsType, NoJobType, FirstJobType, BatchAssumption, HorizonAssumption
   DEF WorkerOK, Return, Boundaries

(***************************************************************************)
(* Type correctness                                                        *)
(***************************************************************************)
LEMMA TypeInit == Init => TypeOK
<1> SUFFICES ASSUME Init PROVE TypeOK
    OBVIOUS
<1>1. StoreOK
    BY NoRowsType, BatchAssumption DEF Init, StoreOK, Boundaries, Statuses
<1>2. WorkerOK
    BY NoRowsType, NoJobType, FirstJobType, BatchAssumption, HorizonAssumption
       DEF Init, WorkerOK, Boundaries
<1>3. OperatorOK
    BY IdleOpType DEF Init, OperatorOK
<1>4. EnvOK
    BY BatchAssumption, HorizonAssumption DEF Init, EnvOK, Boundaries
<1> QED
    BY <1>1, <1>2, <1>3, <1>4 DEF TypeOK

\* create(), its plan_bound event and the creator's death.
LEMMA CreatorType ==
    ASSUME TypeOK, NEW j \in Jobs, Creator(j)
    PROVE  TypeOK'
<1>1. CASE CreateAny(j)
    <2>1. PICK status \in {"planned", "awaiting_approval", "ready"}, operation \in Operations,
              plan \in JobPlans, approval \in Approvals :
              Create(j, status, operation, plan, approval)
        BY <1>1 DEF CreateAny
    <2> DEFINE row == NewJob(j, status, operation, plan, approval)
    <2>2. /\ status \in Statuses /\ operation \in AllOperations
          /\ plan \in AllPlans /\ approval \in Approvals
        BY OperationsAssumption, PlansAssumption DEF Statuses
    <2>4. row \in Job /\ row.job_id = j
        BY <2>2, NewJobType
    <2>5. StoreOK'
        BY <2>1, <2>2, <2>4 DEF Create, TypeOK, StoreOK
    <2> QED
        BY <2>1, <2>5 DEF Create, TypeOK, WorkerOK, OperatorOK, EnvOK, worker, env
<1>2. CASE AppendPlanBound(j)
    BY <1>2 DEF AppendPlanBound, TypeOK, StoreOK, WorkerOK, OperatorOK, EnvOK, worker, env
<1>3. CASE CreatorCrash(j)
    BY <1>3 DEF CreatorCrash, TypeOK, StoreOK, WorkerOK, OperatorOK, EnvOK, worker, env
<1> QED
    BY <1>1, <1>2, <1>3 DEF Creator

\* The status a service call writes is a status.
LEMMA TargetType == ASSUME NEW kind PROVE Target(kind) \in Statuses
BY DEF Target, Statuses, TerminalStatuses

\* bind_approval, pause, cancel, resume and recover_interrupted.
LEMMA OperatorType ==
    ASSUME TypeOK, NEW o \in Operators,
           (\E j \in Jobs : ServiceCall(o, j)) \/ OperatorStep(o) \/ OperatorCrash(o)
    PROVE  TypeOK'
<1> USE DEF TypeOK
<1>1. CASE \E j \in Jobs, kind \in AllKinds : ReadJob(o, kind, j)
    <2>1. OperatorOK'
        BY <1>1 DEF ReadJob, OperatorOK, StoreOK
    <2> QED
        BY <1>1, <2>1 DEF ReadJob, StoreOK, WorkerOK, EnvOK, store, worker, env
<1>2. CASE \E j \in Jobs, approval \in Approvals : ReadForApproval(o, j, approval)
    <2>1. PICK j \in Jobs, approval \in Approvals : ReadForApproval(o, j, approval)
        BY <1>2
    <2>2. [jobs[j] EXCEPT !.approval = approval] \in Job
        BY DEF StoreOK, Job
    <2>3. OperatorOK'
        BY <2>1, <2>2 DEF ReadForApproval, OperatorOK, AllKinds
    <2> QED
        BY <2>1, <2>3 DEF ReadForApproval, StoreOK, WorkerOK, EnvOK, store, worker, env
<1>3. CASE CompareCheckpoint(o)
    <2>1. OperatorOK'
        BY <1>3, IdleOpType DEF CompareCheckpoint, OperatorOK
    <2> QED
        BY <1>3, <2>1 DEF CompareCheckpoint, StoreOK, WorkerOK, EnvOK, store, worker, env
<1>4. CASE WriteJob(o)
    <2> DEFINE kind == op[o].kind
               row == op[o].row
               new == [row EXCEPT !.status = Target(kind)]
    <2>1. row \in Job
        BY DEF OperatorOK
    <2>2. new \in Job
        BY <2>1, TargetType, RowStatus
    <2>3. StoreOK'
        <3>1. CASE /\ Transition(new, Allowed(kind), kind = "recover")
                   /\ UNCHANGED checkpoints
            <4>1. checkpoints' \in [Jobs -> Boundaries]
                BY <3>1 DEF StoreOK
            <4> QED
                BY <2>2, <3>1, <4>1, TransitionType
        <3>2. CASE Refused(row, Allowed(kind))
            BY <3>2 DEF Refused, StoreOK, store
        <3> QED
            BY <1>4, <3>1, <3>2 DEF WriteJob
    <2>4. OperatorOK'
        BY <1>4, IdleOpType DEF WriteJob, OperatorOK
    <2> QED
        BY <1>4, <2>3, <2>4 DEF WriteJob, WorkerOK, EnvOK, worker, env
<1>5. CASE OperatorCrash(o)
    <2>1. OperatorOK'
        BY <1>5, IdleOpType DEF OperatorCrash, OperatorOK
    <2> QED
        BY <1>5, <2>1 DEF OperatorCrash, StoreOK, WorkerOK, EnvOK, store, worker, env
<1> QED
    BY <1>1, <1>2, <1>3, <1>4, <1>5 DEF ServiceCall, OperatorStep

\* A worker's way to its claim.
LEMMA ClaimingType ==
    ASSUME TypeOK, NEW w \in Workers,
           RunNext(w) \/ Block(w) \/ ReadCheckpoint(w) \/ Claim(w) \/ ClaimLost(w)
               \/ ClaimConflict(w)
    PROVE  TypeOK'
<1> USE DEF TypeOK
<1>1. CASE RunNext(w)
    <2>1. WorkerOK'
        BY <1>1, NoJobType DEF RunNext, WorkerOK, StoreOK, EnvOK
    <2> QED
        BY <1>1, <2>1 DEF RunNext, StoreOK, OperatorOK, EnvOK, store, env
<1>2. CASE Block(w)
    <2>1. PICK j \in Jobs :
            LET row == candidates[w][j]
            IN  \/ /\ Transition([row EXCEPT !.status = "blocked"],
                                 {"ready", "retry_wait"}, FALSE)
                   /\ UNCHANGED checkpoints
                \/ Refused(row, {"ready", "retry_wait"})
        BY <1>2 DEF Block
    <2> DEFINE row == candidates[w][j]
               new == [row EXCEPT !.status = "blocked"]
    <2>2. new \in Job
        <3>1. row \in Job
            BY DEF WorkerOK
        <3> QED
            BY <3>1, RowStatus DEF Statuses
    <2>3. StoreOK'
        <3>1. CASE /\ Transition(new, {"ready", "retry_wait"}, FALSE)
                   /\ UNCHANGED checkpoints
            <4>1. checkpoints' \in [Jobs -> Boundaries]
                BY <3>1 DEF StoreOK
            <4> QED
                BY <2>2, <3>1, <4>1, TransitionType
        <3>2. CASE Refused(row, {"ready", "retry_wait"})
            BY <3>2 DEF Refused, StoreOK, store
        <3> QED
            BY <2>1, <3>1, <3>2
    <2>4. WorkerOK'
        BY <1>2, ReturnType DEF Block
    <2> QED
        BY <1>2, <2>3, <2>4 DEF Block, OperatorOK, EnvOK, env
<1>3. CASE ReadCheckpoint(w)
    <2>1. WorkerOK'
        BY <1>3 DEF ReadCheckpoint, WorkerOK, StoreOK
    <2> QED
        BY <1>3, <2>1 DEF ReadCheckpoint, StoreOK, OperatorOK, EnvOK, store, env
<1>4. CASE Claim(w)
    <2>1. PICK j \in Jobs :
            LET n   == jobs[j].attempt_count + 1
                row == [jobs[j] EXCEPT !.status = "running", !.attempt_count = n,
                                       !.next_retry_at = 0]
            IN  /\ jobs' = [jobs EXCEPT ![j] = row]
                /\ attempts' = [attempts EXCEPT ![j] = @ \cup {n}]
                /\ open_attempts' = [open_attempts EXCEPT ![j] = @ \cup {n}]
                /\ Log(j, "running")
                /\ claimed' = [claimed EXCEPT ![w] = row]
        BY <1>4 DEF Claim
    <2> DEFINE n == jobs[j].attempt_count + 1
               row == [jobs[j] EXCEPT !.status = "running", !.attempt_count = n,
                                      !.next_retry_at = 0]
    <2>2. jobs[j] \in Job /\ jobs[j].job_id = j /\ 0 \in 0 .. Horizon /\ "running" \in Statuses
        BY HorizonAssumption DEF StoreOK, Statuses
    <2>3. n \in Nat
        BY <2>2 DEF Job
    <2>4. row \in Job /\ row.job_id = j
        BY <2>2, <2>3 DEF Job
    <2> HIDE DEF n, row
    <2>5. /\ jobs' = [jobs EXCEPT ![j] = row]
          /\ attempts' = [attempts EXCEPT ![j] = @ \cup {n}]
          /\ open_attempts' = [open_attempts EXCEPT ![j] = @ \cup {n}]
          /\ claimed' = [claimed EXCEPT ![w] = row]
        BY <2>1 DEF n, row
    <2>6. audit' \in [Jobs -> Statuses]
        BY <2>1, <2>2 DEF Log, StoreOK
    <2>7. StoreOK'
        <3>1. jobs' \in [Jobs -> Job] /\ \A i \in Jobs : jobs'[i].job_id = i
            BY <2>4, <2>5 DEF StoreOK
        <3>2. attempts' \in [Jobs -> SUBSET Nat] /\ open_attempts' \in [Jobs -> SUBSET Nat]
            BY <2>3, <2>5 DEF StoreOK
        <3> QED
            BY <1>4, <2>6, <3>1, <3>2 DEF Claim, StoreOK
    <2>8. WorkerOK'
        BY <1>4, <2>4, <2>5, NoRowsType DEF Claim, WorkerOK, ExecutingAt
    <2> QED
        BY <1>4, <2>7, <2>8 DEF Claim, OperatorOK, EnvOK, env
<1>5. CASE ClaimLost(w)
    <2>1. PICK j \in Jobs :
            LET rest == [candidates[w] EXCEPT ![j] = NoJob(j)]
            IN  IF rest = NoRows
                THEN Return(w)
                ELSE /\ pc' = [pc EXCEPT ![w] = "candidate"]
                     /\ candidates' = [candidates EXCEPT ![w] = rest]
                     /\ checkpoint' = [checkpoint EXCEPT ![w] = 0]
                     /\ UNCHANGED <<now, claimed, verdict>>
        BY <1>5 DEF ClaimLost
    <2> DEFINE rest == [candidates[w] EXCEPT ![j] = NoJob(j)]
    <2>2. rest \in [Jobs -> Job] /\ \A i \in Jobs : rest[i].job_id = i
        BY NoJobType DEF WorkerOK
    <2> HIDE DEF rest
    <2>5. WorkerOK'
        <3>1. CASE rest = NoRows
            BY <2>1, <3>1, ReturnType DEF rest
        <3>2. CASE rest # NoRows
            <4>1. /\ pc' = [pc EXCEPT ![w] = "candidate"]
                  /\ candidates' = [candidates EXCEPT ![w] = rest]
                  /\ checkpoint' = [checkpoint EXCEPT ![w] = 0]
                  /\ UNCHANGED <<now, claimed, verdict>>
                BY <2>1, <3>2 DEF rest
            <4> QED
                BY <2>2, <4>1, BatchAssumption DEF WorkerOK, Boundaries
        <3> QED
            BY <3>1, <3>2
    <2> QED
        BY <1>5, <2>5 DEF ClaimLost, StoreOK, OperatorOK, EnvOK, store, env
<1>6. CASE ClaimConflict(w)
    BY <1>6, ReturnType DEF ClaimConflict, StoreOK, OperatorOK, EnvOK, store, env
<1> QED
    BY <1>1, <1>2, <1>3, <1>4, <1>5, <1>6

\* A batch ends within the job's items.
LEMMA BatchEndType ==
    ASSUME NEW from \in Boundaries
    PROVE  BatchEnd(from) \in Boundaries /\ from <= BatchEnd(from)
BY BatchAssumption DEF BatchEnd, Boundaries

\* _handle_connector_error's row is typed.
LEMMA ErrorRowType ==
    ASSUME NEW row \in Job, NEW time
    PROVE  LET new == [row EXCEPT !.status = "retry_wait",
                                  !.next_retry_at = RetryAt(time, row.attempt_count)]
           IN  new \in Job /\ new.job_id = row.job_id /\ new.status = "retry_wait"
                   /\ new.attempt_count = row.attempt_count
<1>1. RetryAt(time, row.attempt_count) \in 0 .. Horizon /\ "retry_wait" \in Statuses
    BY RetryAtType DEF Statuses
<1> QED
    BY <1>1 DEF Job

\* save_checkpoint's row is typed.
LEMMA YieldRowType ==
    ASSUME NEW row \in Job, NEW boundary \in Boundaries
    PROVE  LET new == [row EXCEPT !.status = "ready", !.checkpoint_id = boundary]
           IN  new \in Job /\ new.job_id = row.job_id /\ new.status = "ready"
                   /\ new.attempt_count = row.attempt_count
BY DEF Job, Statuses

LEMMA FinalStatusType == ASSUME NEW result PROVE FinalStatus(result) \in TerminalStatuses
BY DEF FinalStatus, TerminalStatuses

\* A worker's connector calls, which write no table, and its verification events.
LEMMA ExecutingType ==
    ASSUME TypeOK, NEW w \in Workers,
           \/ ConnectorBatch(w) \/ ConnectorCall(w)
           \/ \E error \in Errors : ConnectorFailure(w, error) \/ VerificationFailure(w, error)
           \/ StartVerification(w) \/ VerificationUnsupported(w)
           \/ \E result \in Results : CompleteVerification(w, result)
    PROVE  TypeOK'
<1> USE DEF TypeOK
<1> DEFINE j == claimed[w].job_id
<1>1. j \in Jobs /\ "running" \in Statuses
    BY DEF WorkerOK, Job, Statuses
<1>2. CASE ConnectorBatch(w)
    <2>1. BatchEnd(checkpoint[w]) \in Boundaries
        BY BatchEndType DEF WorkerOK
    <2>2. WorkerOK'
        BY <1>2, <2>1 DEF ConnectorBatch, WorkerOK, ExecutingAt
    <2>3. EnvOK'
        BY <1>1, <1>2, <2>1 DEF Stored, ConnectorBatch, EnvOK, Greater
    <2> QED
        BY <1>2, <2>2, <2>3 DEF ConnectorBatch, StoreOK, OperatorOK, store
<1>3. CASE ConnectorCall(w)
    <2>1. WorkerOK'
        BY <1>3 DEF ConnectorCall, WorkerOK, ExecutingAt
    <2>2. EnvOK'
        BY <1>1, <1>3 DEF ConnectorCall, EnvOK
    <2> QED
        BY <1>3, <2>1, <2>2 DEF ConnectorCall, StoreOK, OperatorOK, store
<1>4. CASE \E error \in Errors : ConnectorFailure(w, error)
    <2>1. PICK error \in Errors : ConnectorFailure(w, error)
        BY <1>4
    <2>2. PICK stored \in checkpoint[w] .. BatchEnd(checkpoint[w]) :
              output' = [output EXCEPT ![j] = Greater(@, stored)]
        BY <2>1 DEF Stored, ConnectorFailure
    <2>3. stored \in Boundaries
        BY BatchEndType, BatchAssumption DEF WorkerOK, Boundaries
    <2>4. WorkerOK'
        BY <2>1 DEF ConnectorFailure, WorkerOK, ExecutingAt
    <2>5. EnvOK'
        BY <1>1, <2>1, <2>2, <2>3 DEF ConnectorFailure, EnvOK, Greater
    <2> QED
        BY <2>1, <2>4, <2>5 DEF ConnectorFailure, StoreOK, OperatorOK, store
<1>5. CASE \E error \in Errors : VerificationFailure(w, error)
    <2>1. WorkerOK'
        BY <1>5 DEF VerificationFailure, WorkerOK, ExecutingAt
    <2> QED
        BY <1>5, <2>1 DEF VerificationFailure, StoreOK, OperatorOK, EnvOK, store, env
<1>6. CASE StartVerification(w)
    <2>1. WorkerOK'
        BY <1>6 DEF StartVerification, WorkerOK, ExecutingAt
    <2>2. StoreOK'
        BY <1>1, <1>6 DEF StartVerification, StoreOK, Log
    <2> QED
        BY <1>6, <2>1, <2>2 DEF StartVerification, OperatorOK, EnvOK, env
<1>7. CASE VerificationUnsupported(w)
    <2>1. WorkerOK'
        BY <1>7 DEF VerificationUnsupported, WorkerOK, ExecutingAt, Results
    <2> QED
        BY <1>7, <2>1 DEF VerificationUnsupported, StoreOK, OperatorOK, EnvOK, store, env
<1>8. CASE \E result \in Results : CompleteVerification(w, result)
    <2>1. WorkerOK'
        BY <1>8 DEF CompleteVerification, WorkerOK, ExecutingAt
    <2>2. StoreOK'
        BY <1>1, <1>8 DEF CompleteVerification, StoreOK, Log
    <2> QED
        BY <1>8, <2>1, <2>2 DEF CompleteVerification, OperatorOK, EnvOK, env
<1> QED
    BY <1>2, <1>3, <1>4, <1>5, <1>6, <1>7, <1>8

\* The rows with which a worker may end its execution of the row it claimed.
Outcome(w) ==
    { [claimed[w] EXCEPT !.status = "ready", !.checkpoint_id = checkpoint[w]],
      [claimed[w] EXCEPT !.status = FinalStatus(verdict[w])],
      [claimed[w] EXCEPT !.status = "retry_wait",
                         !.next_retry_at = RetryAt(now[w], claimed[w].attempt_count)],
      [claimed[w] EXCEPT !.status = "failed"] }

LEMMA OutcomeType ==
    ASSUME WorkerOK, NEW w \in Workers, NEW row \in Outcome(w)
    PROVE  /\ row \in Job
           /\ row.job_id = claimed[w].job_id
           /\ row.attempt_count = claimed[w].attempt_count
           /\ row.status \in {"ready", "retry_wait"} \cup TerminalStatuses
<1>1. claimed[w] \in Job /\ checkpoint[w] \in Boundaries
    BY DEF WorkerOK
<1>2. /\ FinalStatus(verdict[w]) \in TerminalStatuses
      /\ FinalStatus(verdict[w]) \in Statuses
      /\ "failed" \in TerminalStatuses /\ "failed" \in Statuses
    BY FinalStatusType DEF Statuses, TerminalStatuses
<1>3. CASE row = [claimed[w] EXCEPT !.status = "ready", !.checkpoint_id = checkpoint[w]]
    BY <1>1, <1>3, YieldRowType
<1>4. CASE row = [claimed[w] EXCEPT !.status = FinalStatus(verdict[w])]
    BY <1>1, <1>2, <1>4, RowStatus
<1>5. CASE row = [claimed[w] EXCEPT !.status = "retry_wait",
                         !.next_retry_at = RetryAt(now[w], claimed[w].attempt_count)]
    BY <1>1, <1>5, ErrorRowType
<1>6. CASE row = [claimed[w] EXCEPT !.status = "failed"]
    BY <1>1, <1>2, <1>6, RowStatus
<1> QED
    BY <1>3, <1>4, <1>5, <1>6 DEF Outcome

\* A worker that ends its execution writes one of these rows, over a running row
\* only, or is refused; either way it returns.
LEMMA Ending ==
    ASSUME NEW w \in Workers, SaveCheckpoint(w) \/ Finish(w) \/ HandleError(w)
    PROVE  /\ pc[w] \in ExecutingAt
           /\ Return(w)
           /\ UNCHANGED <<op, env, crashes>>
           /\ \E row \in Outcome(w) :
                \/ /\ Transition(row, {"running"}, TRUE)
                   /\ \/ UNCHANGED checkpoints
                      \/ checkpoints' = [checkpoints EXCEPT ![row.job_id] = checkpoint[w]]
                \/ Refused(row, {"running"})
<1>1. CASE SaveCheckpoint(w)
    BY <1>1 DEF SaveCheckpoint, Outcome, ExecutingAt
<1>2. CASE Finish(w)
    BY <1>2 DEF Finish, Outcome, ExecutingAt
<1>3. CASE HandleError(w)
    BY <1>3 DEF HandleError, Outcome, ExecutingAt
<1> QED
    BY <1>1, <1>2, <1>3

LEMMA EndingType ==
    ASSUME TypeOK, NEW w \in Workers, SaveCheckpoint(w) \/ Finish(w) \/ HandleError(w)
    PROVE  TypeOK'
<1> USE DEF TypeOK
<1>1. PICK row \in Outcome(w) :
        \/ /\ Transition(row, {"running"}, TRUE)
           /\ \/ UNCHANGED checkpoints
              \/ checkpoints' = [checkpoints EXCEPT ![row.job_id] = checkpoint[w]]
        \/ Refused(row, {"running"})
    BY Ending
<1>2. row \in Job
    BY OutcomeType
<1>3. StoreOK'
    <2>1. CASE Refused(row, {"running"})
        BY <2>1 DEF Refused, StoreOK, store
    <2>2. CASE /\ Transition(row, {"running"}, TRUE)
               /\ \/ UNCHANGED checkpoints
                  \/ checkpoints' = [checkpoints EXCEPT ![row.job_id] = checkpoint[w]]
        <3>1. checkpoints' \in [Jobs -> Boundaries]
            BY <2>2 DEF StoreOK, WorkerOK
        <3> QED
            BY <1>2, <2>2, <3>1, TransitionType
    <2> QED
        BY <1>1, <2>1, <2>2
<1>4. WorkerOK'
    BY Ending, ReturnType
<1> QED
    BY <1>3, <1>4, Ending DEF OperatorOK, EnvOK, env

LEMMA TypeNext == TypeOK /\ [Next]_vars => TypeOK'
<1> SUFFICES ASSUME TypeOK, [Next]_vars PROVE TypeOK'
    OBVIOUS
<1>1. CASE \E j \in Jobs : Creator(j)
    BY <1>1, CreatorType
<1>2. CASE \E j \in Jobs : AuthorityChange(j)
    BY <1>2 DEF AuthorityChange, TypeOK, StoreOK, WorkerOK, OperatorOK, EnvOK, store, worker
<1>3. CASE \E o \in Operators :
            (\E j \in Jobs : ServiceCall(o, j)) \/ OperatorStep(o) \/ OperatorCrash(o)
    BY <1>3, OperatorType
<1>4. CASE \E w \in Workers : WorkerStep(w)
    BY <1>4, ClaimingType, ExecutingType, EndingType DEF WorkerStep
<1>5. CASE \E w \in Workers : WorkerCrash(w)
    <2>1. WorkerOK'
        BY <1>5, ReturnType DEF WorkerCrash, TypeOK
    <2> QED
        BY <1>5, <2>1 DEF WorkerCrash, TypeOK, StoreOK, OperatorOK, EnvOK, store, env
<1>6. CASE Tick
    <2>1. EnvOK'
        BY <1>6, HorizonAssumption DEF Tick, TypeOK, EnvOK
    <2> QED
        BY <1>6, <2>1 DEF Tick, TypeOK, StoreOK, WorkerOK, OperatorOK, store, worker
<1>7. CASE UNCHANGED vars
    BY <1>7 DEF vars, TypeOK, StoreOK, WorkerOK, OperatorOK, EnvOK, store, worker, env
<1> QED
    BY <1>1, <1>2, <1>3, <1>4, <1>5, <1>6, <1>7 DEF Next

\* In every reachable state the tables, the locals of every process and the
\* environment are well typed: in particular no stale row a process writes back
\* (storage.py transition, save_checkpoint) corrupts a job.
THEOREM TypeCorrect == Spec => []TypeOK
BY TypeInit, TypeNext, PTL DEF Spec

(***************************************************************************)
(* Exclusive execution                                                     *)
(***************************************************************************)
LEMMA ExecutionInit == Init => ExecutionInv
<1> SUFFICES ASSUME Init PROVE ExecutionInv
    OBVIOUS
<1>1. AttemptsContiguous
    BY DEF Init, AttemptsContiguous
<1>2. RowsNumbered
    BY NoJobType, FirstJobType DEF Init, RowsNumbered, Numbered, NoRows, IdleOp
<1>3. \A w \in Workers : pc[w] \notin ExecutingAt
    BY DEF Init, ExecutingAt
<1> QED
    BY <1>1, <1>2, <1>3 DEF ExecutionInv, ExclusiveExecution, Executes

\* A row that was never claimed threatens no execution.
LEMMA UnclaimedRow ==
    ASSUME ExecutionInv, TypeOK, NEW row \in Job, row.attempt_count = 0
    PROVE  Numbered(row) /\ \A w \in Workers : pc[w] \in ExecutingAt => Behind(row, w)
<1> SUFFICES ASSUME NEW w \in Workers, pc[w] \in ExecutingAt
             PROVE  Numbered(row) /\ Behind(row, w)
    BY DEF Numbered
<1>1. claimed[w].job_id \in Jobs
    BY DEF TypeOK, WorkerOK, Job
<1>2. claimed[w].attempt_count \in attempts[claimed[w].job_id]
    BY DEF ExecutionInv, LatestAttempt
<1>3. 1 <= claimed[w].attempt_count /\ claimed[w].attempt_count \in Nat
    BY <1>1, <1>2 DEF ExecutionInv, AttemptsContiguous, TypeOK, WorkerOK, Job
<1> QED
    BY <1>3 DEF Numbered, Behind

\* A step that claims nothing preserves the invariant when every row it writes,
\* anywhere, is numbered and behind every worker that goes on executing.
LEMMA NoClaim ==
    ASSUME ExecutionInv, TypeOK, TypeOK', UNCHANGED attempts,
           \A w \in Workers : pc'[w] \in ExecutingAt
               => pc[w] \in ExecutingAt /\ claimed'[w] = claimed[w],
           \A j \in Jobs : jobs'[j] = jobs[j]
               \/ /\ Numbered(jobs'[j])
                  /\ \A w \in Workers : pc'[w] \in ExecutingAt => Behind(jobs'[j], w),
           \A o \in Operators : op'[o].row = op[o].row
               \/ /\ Numbered(op'[o].row)
                  /\ \A w \in Workers : pc'[w] \in ExecutingAt => Behind(op'[o].row, w),
           \A v \in Workers, j \in Jobs : candidates'[v][j] = candidates[v][j]
               \/ /\ Numbered(candidates'[v][j])
                  /\ \A w \in Workers : pc'[w] \in ExecutingAt => Behind(candidates'[v][j], w)
    PROVE  ExecutionInv'
<1>1. AttemptsContiguous'
    BY DEF ExecutionInv, AttemptsContiguous
<1>2. RowsNumbered'
    BY DEF ExecutionInv, RowsNumbered, Numbered
<1>3. ASSUME NEW w \in Workers, pc'[w] \in ExecutingAt
      PROVE  LatestAttempt(w)'
    <2>1. LatestAttempt(w) /\ claimed'[w] = claimed[w] /\ claimed[w].job_id \in Jobs
        BY <1>3 DEF ExecutionInv, TypeOK, WorkerOK, Job
    <2> DEFINE j == claimed[w].job_id
    <2>2. jobs'[j] = claimed'[w] \/ Behind(jobs[j], w)'
        BY <1>3, <2>1 DEF LatestAttempt, Behind
    <2>3. \A o \in Operators : Behind(op[o].row, w)'
        BY <1>3, <2>1 DEF LatestAttempt, Behind
    <2>4. \A v \in Workers, i \in Jobs : Behind(candidates[v][i], w)'
        BY <1>3, <2>1 DEF LatestAttempt, Behind
    <2> QED
        BY <2>1, <2>2, <2>3, <2>4 DEF LatestAttempt
<1>4. ExclusiveExecution'
    BY DEF ExecutionInv, ExclusiveExecution, Executes
<1> QED
    BY <1>1, <1>2, <1>3, <1>4 DEF ExecutionInv

\* What Return leaves of a worker.
LEMMA Returned ==
    ASSUME TypeOK, NEW w \in Workers, Return(w)
    PROVE  /\ pc'[w] \notin ExecutingAt
           /\ \A v \in Workers : v # w => pc'[v] = pc[v] /\ claimed'[v] = claimed[v]
                                            /\ candidates'[v] = candidates[v]
           /\ candidates'[w] = NoRows
BY DEF TypeOK, WorkerOK, Return, ExecutingAt

\* A worker's return preserves the invariant when the rows written with it are
\* numbered and behind the other workers.
LEMMA ReturnExecution ==
    ASSUME ExecutionInv, TypeOK, TypeOK', NEW w \in Workers, Return(w),
           UNCHANGED <<attempts, op>>,
           \A j \in Jobs : jobs'[j] = jobs[j]
               \/ /\ Numbered(jobs'[j])
                  /\ \A v \in Workers : v # w /\ pc[v] \in ExecutingAt => Behind(jobs'[j], v)
    PROVE  ExecutionInv'
<1>1. \A v \in Workers : pc'[v] \in ExecutingAt
        => v # w /\ pc[v] \in ExecutingAt /\ claimed'[v] = claimed[v]
    BY Returned
<1>2. \A j \in Jobs : NoRows[j] \in Job /\ NoRows[j].attempt_count = 0
    BY NoJobType DEF NoRows
<1>3. \A v \in Workers, j \in Jobs : candidates'[v][j] = candidates[v][j]
         \/ /\ Numbered(candidates'[v][j])
            /\ \A u \in Workers : pc'[u] \in ExecutingAt => Behind(candidates'[v][j], u)
    BY <1>1, <1>2, Returned, UnclaimedRow
<1> QED
    BY <1>1, <1>3, NoClaim

LEMMA CreatorExecution ==
    ASSUME ExecutionInv, TypeOK, TypeOK', NEW j \in Jobs, Creator(j)
    PROVE  ExecutionInv'
<1>1. CASE CreateAny(j)
    <2>1. PICK status \in {"planned", "awaiting_approval", "ready"}, operation \in Operations,
              plan \in JobPlans, approval \in Approvals :
              Create(j, status, operation, plan, approval)
        BY <1>1 DEF CreateAny
    <2> DEFINE row == NewJob(j, status, operation, plan, approval)
    <2>2. jobs' = [jobs EXCEPT ![j] = row] /\ UNCHANGED <<attempts, worker, op>>
        BY <2>1 DEF Create
    <2>3. row \in Job /\ row.attempt_count = 0
        BY NewJobType, OperationsAssumption, PlansAssumption DEF Statuses
    <2>4. Numbered(row) /\ \A w \in Workers : pc[w] \in ExecutingAt => Behind(row, w)
        BY <2>3, UnclaimedRow
    <2> HIDE DEF row
    <2>5. \A i \in Jobs : jobs'[i] = jobs[i] \/ jobs'[i] = row
        BY <2>2 DEF TypeOK, StoreOK
    <2> QED
        BY <2>2, <2>4, <2>5, NoClaim DEF worker
<1>2. CASE AppendPlanBound(j)
    BY <1>2, NoClaim DEF AppendPlanBound, worker
<1>3. CASE CreatorCrash(j)
    BY <1>3, NoClaim DEF CreatorCrash, worker
<1> QED
    BY <1>1, <1>2, <1>3 DEF Creator

\* A row read while its job is executed is behind the executing worker, unless it
\* is the running row itself; that one only recover_interrupted reads, and only
\* when nobody executes the job.
LEMMA RowRead ==
    ASSUME ExecutionInv, TypeOK, NEW j \in Jobs,
           jobs[j].status # "running" \/ Stranded(j)
    PROVE  Numbered(jobs[j]) /\ \A w \in Workers : pc[w] \in ExecutingAt => Behind(jobs[j], w)
<1>1. Numbered(jobs[j])
    BY DEF ExecutionInv, RowsNumbered
<1>2. ASSUME NEW w \in Workers, pc[w] \in ExecutingAt
      PROVE  Behind(jobs[j], w)
    <2>1. CASE claimed[w].job_id = j
        BY <1>2, <2>1 DEF ExecutionInv, LatestAttempt, Stranded, Executes
    <2>2. CASE claimed[w].job_id # j
        BY <2>2 DEF Behind, TypeOK, StoreOK
    <2> QED
        BY <2>1, <2>2
<1> QED
    BY <1>1, <1>2

LEMMA OperatorExecution ==
    ASSUME ExecutionInv, TypeOK, TypeOK', NEW o \in Operators,
           (\E j \in Jobs : ServiceCall(o, j)) \/ OperatorStep(o) \/ OperatorCrash(o)
    PROVE  ExecutionInv'
<1>0. IdleOp.row \in Job /\ IdleOp.row.attempt_count = 0
    BY NoJobType, FirstJobType DEF IdleOp
<1>1. CASE \E j \in Jobs, kind \in AllKinds : ReadJob(o, kind, j)
    <2>1. PICK j \in Jobs, kind \in AllKinds : ReadJob(o, kind, j)
        BY <1>1
    <2>2. jobs[j].status # "running" \/ Stranded(j)
        BY <2>1 DEF ReadJob, Allowed, RecoveryPermitted, AllKinds
    <2>3. op'[o].row = jobs[j] /\ \A p \in Operators : p # o => op'[p] = op[p]
        BY <2>1 DEF ReadJob, TypeOK, OperatorOK
    <2> QED
        BY <2>1, <2>2, <2>3, RowRead, NoClaim DEF ReadJob, store, worker
<1>2. CASE \E j \in Jobs, approval \in Approvals : ReadForApproval(o, j, approval)
    <2>1. PICK j \in Jobs, approval \in Approvals : ReadForApproval(o, j, approval)
        BY <1>2
    <2> DEFINE row == [jobs[j] EXCEPT !.approval = approval]
    <2>2. row.job_id = jobs[j].job_id /\ row.attempt_count = jobs[j].attempt_count
        BY DEF TypeOK, StoreOK, Job
    <2>3. jobs[j].status # "running"
        BY <2>1 DEF ReadForApproval, Allowed
    <2>4. Numbered(row) /\ \A w \in Workers : pc[w] \in ExecutingAt => Behind(row, w)
        BY <2>2, <2>3, RowRead DEF Numbered, Behind
    <2>5. op'[o].row = row /\ \A p \in Operators : p # o => op'[p] = op[p]
        BY <2>1 DEF ReadForApproval, TypeOK, OperatorOK
    <2> HIDE DEF row
    <2> QED
        BY <2>1, <2>4, <2>5, NoClaim DEF ReadForApproval, store, worker
<1>3. CASE CompareCheckpoint(o)
    <2>1. \A p \in Operators : op'[p].row = op[p].row \/ op'[p] = IdleOp
        BY <1>3 DEF CompareCheckpoint, TypeOK, OperatorOK
    <2> QED
        BY <1>0, <1>3, <2>1, UnclaimedRow, NoClaim DEF CompareCheckpoint, store, worker
<1>4. CASE WriteJob(o)
    <2> DEFINE row == op[o].row
               new == [row EXCEPT !.status = Target(op[o].kind)]
    <2>1. row \in Job /\ new.job_id = row.job_id /\ new.attempt_count = row.attempt_count
        BY TargetType, RowStatus DEF TypeOK, OperatorOK
    <2>2. Numbered(new) /\ \A w \in Workers : pc[w] \in ExecutingAt => Behind(new, w)
        BY <2>1 DEF ExecutionInv, RowsNumbered, LatestAttempt, Numbered, Behind
    <2>3. UNCHANGED attempts /\ UNCHANGED worker
        BY <1>4 DEF WriteJob, Transition, Refused, store
    <2>4. \A i \in Jobs : jobs'[i] = jobs[i] \/ jobs'[i] = new
        BY <1>4 DEF WriteJob, Transition, Refused, store, TypeOK, StoreOK
    <2>5. \A p \in Operators : op'[p].row = op[p].row \/ op'[p] = IdleOp
        BY <1>4 DEF WriteJob, TypeOK, OperatorOK
    <2> HIDE DEF new
    <2> QED
        BY <1>0, <2>2, <2>3, <2>4, <2>5, UnclaimedRow, NoClaim DEF worker
<1>5. CASE OperatorCrash(o)
    <2>1. \A p \in Operators : op'[p].row = op[p].row \/ op'[p] = IdleOp
        BY <1>5 DEF OperatorCrash, TypeOK, OperatorOK
    <2> QED
        BY <1>0, <1>5, <2>1, UnclaimedRow, NoClaim DEF OperatorCrash, store, worker
<1> QED
    BY <1>1, <1>2, <1>3, <1>4, <1>5 DEF ServiceCall, OperatorStep

\* claim() succeeds only on a job nobody executes: the attempt it would insert
\* exists already if somebody does.
LEMMA ClaimsUnexecuted ==
    ASSUME ExecutionInv, TypeOK, NEW j \in Jobs, NEW time,
           Claimable(jobs[j], time), jobs[j].attempt_count + 1 \notin attempts[j],
           NEW w \in Workers, pc[w] \in ExecutingAt
    PROVE  claimed[w].job_id # j
<1> SUFFICES ASSUME claimed[w].job_id = j PROVE FALSE
    OBVIOUS
<1> DEFINE n == claimed[w].attempt_count
<1>1. LatestAttempt(w)
    BY DEF ExecutionInv
<1>2. jobs[j].status # "running"
    BY DEF Claimable
<1>3. jobs[j].attempt_count < n
    BY <1>1, <1>2 DEF LatestAttempt, Behind, TypeOK, StoreOK
<1>4. n \in attempts[j] /\ 1 .. n \subseteq attempts[j]
    BY <1>1 DEF LatestAttempt, ExecutionInv, AttemptsContiguous
<1>5. jobs[j].attempt_count \in Nat /\ n \in Nat
    BY DEF TypeOK, StoreOK, WorkerOK, Job
<1>6. jobs[j].attempt_count + 1 \in 1 .. n
    BY <1>3, <1>5
<1> QED
    BY <1>4, <1>6

LEMMA ClaimExecution ==
    ASSUME ExecutionInv, TypeOK, TypeOK', NEW w \in Workers, Claim(w)
    PROVE  ExecutionInv'
<1>1. PICK j \in Jobs :
        LET n   == jobs[j].attempt_count + 1
            row == [jobs[j] EXCEPT !.status = "running", !.attempt_count = n,
                                   !.next_retry_at = 0]
        IN  /\ Claimable(jobs[j], now[w])
            /\ n \notin attempts[j]
            /\ jobs' = [jobs EXCEPT ![j] = row]
            /\ attempts' = [attempts EXCEPT ![j] = @ \cup {n}]
            /\ claimed' = [claimed EXCEPT ![w] = row]
    BY DEF NewAttempt, Claim
<1> DEFINE n == jobs[j].attempt_count + 1
           row == [jobs[j] EXCEPT !.status = "running", !.attempt_count = n,
                                  !.next_retry_at = 0]
<1>2. /\ row.job_id = j /\ row.attempt_count = n /\ row.status = "running"
      /\ jobs[j].attempt_count \in Nat /\ n \in Nat /\ n = jobs[j].attempt_count + 1
    BY DEF TypeOK, StoreOK, Job
<1>3. /\ n \notin attempts[j]
      /\ jobs' = [jobs EXCEPT ![j] = row]
      /\ attempts' = [attempts EXCEPT ![j] = @ \cup {n}]
      /\ claimed' = [claimed EXCEPT ![w] = row]
    BY <1>1
<1>4. \A v \in Workers : pc[v] \in ExecutingAt => claimed[v].job_id # j
    BY <1>1, ClaimsUnexecuted
<1> HIDE DEF row, n
<1>5. /\ pc' = [pc EXCEPT ![w] = "execute"]
      /\ candidates' = [candidates EXCEPT ![w] = NoRows]
      /\ UNCHANGED op /\ pc[w] \notin ExecutingAt
    BY DEF Claim, ExecutingAt
<1>6. \A m \in attempts[j] : m \in Nat /\ m < n
    <2> SUFFICES ASSUME NEW m \in attempts[j] PROVE m \in Nat /\ m < n
        OBVIOUS
    <2>1. m \in Nat /\ 1 .. m \subseteq attempts[j]
        BY DEF ExecutionInv, AttemptsContiguous, TypeOK, StoreOK
    <2>2. n \notin 1 .. m
        BY <1>3, <2>1
    <2> QED
        BY <1>2, <2>1, <2>2
<1>7. AttemptsContiguous'
    <2>1. ASSUME NEW i \in Jobs, NEW m \in attempts'[i]
          PROVE  1 <= m /\ 1 .. m \subseteq attempts'[i]
        <3>1. CASE m \in attempts[i]
            BY <1>3, <3>1 DEF ExecutionInv, AttemptsContiguous, TypeOK, StoreOK
        <3>2. CASE i = j /\ m = n
            <4>1. jobs[j].attempt_count = 0 \/ jobs[j].attempt_count \in attempts[j]
                BY DEF ExecutionInv, RowsNumbered, Numbered, TypeOK, StoreOK
            <4>2. 1 .. jobs[j].attempt_count \subseteq attempts[j]
                BY <1>2, <4>1 DEF ExecutionInv, AttemptsContiguous
            <4>3. attempts'[j] = attempts[j] \cup {n}
                BY <1>3 DEF TypeOK, StoreOK
            <4> QED
                BY <1>2, <3>2, <4>2, <4>3
        <3> QED
            BY <1>3, <2>1, <3>1, <3>2 DEF TypeOK, StoreOK
    <2> QED
        BY <2>1 DEF AttemptsContiguous
<1>8. \A r \in Job : Numbered(r) => Numbered(r)'
    BY <1>3 DEF Numbered, TypeOK, StoreOK, Job
<1>9. NoRows \in [Jobs -> Job] /\ \A i \in Jobs : NoRows[i].attempt_count = 0
    BY NoRowsType, NoJobType DEF NoRows
<1>10. RowsNumbered'
    <2>1. \A i \in Jobs : Numbered(jobs[i])'
        <3> SUFFICES ASSUME NEW i \in Jobs PROVE Numbered(jobs[i])'
            OBVIOUS
        <3>1. CASE i = j
            BY <1>2, <1>3, <3>1 DEF Numbered, TypeOK, StoreOK
        <3>2. CASE i # j
            BY <1>3, <1>8, <3>2 DEF ExecutionInv, RowsNumbered, Numbered, TypeOK, StoreOK
        <3> QED
            BY <3>1, <3>2
    <2>2. \A o \in Operators : Numbered(op[o].row)'
        BY <1>3, <1>5 DEF ExecutionInv, RowsNumbered, Numbered, TypeOK, StoreOK, OperatorOK, Job
    <2>3. \A v \in Workers, i \in Jobs : Numbered(candidates[v][i])'
        <3> SUFFICES ASSUME NEW v \in Workers, NEW i \in Jobs
                     PROVE  Numbered(candidates[v][i])'
            OBVIOUS
        <3>1. CASE v = w
            BY <1>5, <1>9, <3>1 DEF Numbered, TypeOK, WorkerOK
        <3>2. CASE v # w
            BY <1>3, <1>5, <3>2 DEF ExecutionInv, RowsNumbered, Numbered, TypeOK, StoreOK, WorkerOK
        <3> QED
            BY <3>1, <3>2
    <2> QED
        BY <2>1, <2>2, <2>3 DEF RowsNumbered
<1>11. \A r \in Job : Numbered(r) /\ r.job_id = j => r.attempt_count < n
    BY <1>2, <1>6 DEF Numbered, Job
<1>12. ASSUME NEW v \in Workers, pc'[v] \in ExecutingAt
       PROVE  LatestAttempt(v)'
    <2>1. CASE v = w
        <3>1. claimed'[v] = row
            BY <1>3, <2>1 DEF TypeOK, WorkerOK
        <3>2. n \in attempts'[j] /\ \A m \in attempts'[j] : m <= n
            BY <1>2, <1>3, <1>6 DEF TypeOK, StoreOK
        <3>3. jobs'[j] = row
            BY <1>3 DEF TypeOK, StoreOK
        <3>4. \A o \in Operators : Behind(op[o].row, v)'
            BY <1>2, <1>5, <1>11, <3>1
               DEF Behind, ExecutionInv, RowsNumbered, TypeOK, OperatorOK
        <3>5. \A u \in Workers, i \in Jobs : Behind(candidates[u][i], v)'
            <4> SUFFICES ASSUME NEW u \in Workers, NEW i \in Jobs
                         PROVE  Behind(candidates[u][i], v)'
                OBVIOUS
            <4>1. CASE u = w
                BY <1>2, <1>5, <1>9, <3>1, <4>1 DEF Behind, TypeOK, WorkerOK
            <4>2. CASE u # w
                BY <1>2, <1>5, <1>11, <3>1, <4>2
                   DEF Behind, ExecutionInv, RowsNumbered, TypeOK, WorkerOK
            <4> QED
                BY <4>1, <4>2
        <3> QED
            BY <1>2, <3>1, <3>2, <3>3, <3>4, <3>5 DEF LatestAttempt
    <2>2. CASE v # w
        <3>1. /\ pc[v] \in ExecutingAt /\ claimed'[v] = claimed[v]
              /\ LatestAttempt(v) /\ claimed[v].job_id # j /\ claimed[v].job_id \in Jobs
            BY <1>3, <1>4, <1>5, <1>12, <2>2 DEF ExecutionInv, TypeOK, WorkerOK, Job
        <3>2. /\ jobs'[claimed[v].job_id] = jobs[claimed[v].job_id]
              /\ attempts'[claimed[v].job_id] = attempts[claimed[v].job_id]
            BY <1>3, <3>1 DEF TypeOK, StoreOK
        <3>3. \A u \in Workers, i \in Jobs : Behind(candidates[u][i], v)'
            <4> SUFFICES ASSUME NEW u \in Workers, NEW i \in Jobs
                         PROVE  Behind(candidates[u][i], v)'
                OBVIOUS
            <4>1. CASE u = w
                BY <1>5, <1>9, <3>1, <4>1, UnclaimedRow DEF Behind, TypeOK, WorkerOK
            <4>2. CASE u # w
                BY <1>5, <3>1, <4>2, SMTT(40) DEF LatestAttempt, Behind, TypeOK, WorkerOK
            <4> QED
                BY <4>1, <4>2
        <3> QED
            BY <1>5, <3>1, <3>2, <3>3 DEF LatestAttempt, Behind
    <2> QED
        BY <2>1, <2>2
<1>13. ExclusiveExecution'
    BY <1>2, <1>3, <1>4, <1>5 DEF ExecutionInv, ExclusiveExecution, Executes, TypeOK, WorkerOK
<1> QED
    BY <1>7, <1>10, <1>12, <1>13 DEF ExecutionInv

LEMMA ClaimingExecution ==
    ASSUME ExecutionInv, TypeOK, TypeOK', NEW w \in Workers,
           RunNext(w) \/ Block(w) \/ ReadCheckpoint(w) \/ ClaimLost(w) \/ ClaimConflict(w)
    PROVE  ExecutionInv'
<1>1. CASE RunNext(w)
    <2>1. /\ \A v \in Workers : v # w => candidates'[v] = candidates[v]
          /\ \A j \in Jobs : candidates'[w][j] = NoJob(j)
                \/ (candidates'[w][j] = jobs[j] /\ jobs[j].status # "running")
        <3>1. candidates' = [candidates EXCEPT ![w] =
                [j \in Jobs |-> IF Claimable(jobs[j], clock) THEN jobs[j] ELSE NoJob(j)]]
            BY <1>1 DEF RunNext
        <3>2. \A j \in Jobs : Claimable(jobs[j], clock) => jobs[j].status # "running"
            BY DEF Claimable
        <3>3. candidates'[w] =
                [j \in Jobs |-> IF Claimable(jobs[j], clock) THEN jobs[j] ELSE NoJob(j)]
            BY <3>1 DEF TypeOK, WorkerOK
        <3>4. \A v \in Workers : v # w => candidates'[v] = candidates[v]
            BY <3>1 DEF TypeOK, WorkerOK
        <3>5. ASSUME NEW j \in Jobs
              PROVE  candidates'[w][j] = NoJob(j)
                        \/ (candidates'[w][j] = jobs[j] /\ jobs[j].status # "running")
            BY <3>2, <3>3, Zenon
        <3> QED
            BY <3>4, <3>5
    <2>2. \A v \in Workers, j \in Jobs : candidates'[v][j] = candidates[v][j]
             \/ /\ Numbered(candidates'[v][j])
                /\ \A u \in Workers : pc[u] \in ExecutingAt => Behind(candidates'[v][j], u)
        BY <2>1, RowRead, UnclaimedRow, NoJobType
    <2>3. \A v \in Workers : pc'[v] \in ExecutingAt => pc[v] \in ExecutingAt
        BY <1>1 DEF RunNext, ExecutingAt, TypeOK, WorkerOK
    <2> QED
        BY <1>1, <2>2, <2>3, NoClaim DEF RunNext, store
<1>2. CASE Block(w)
    <2>1. PICK j \in Jobs :
            LET row == candidates[w][j]
            IN  \/ Transition([row EXCEPT !.status = "blocked"],
                              {"ready", "retry_wait"}, FALSE)
                \/ Refused(row, {"ready", "retry_wait"})
        BY <1>2 DEF Block
    <2> DEFINE row == candidates[w][j]
               new == [row EXCEPT !.status = "blocked"]
    <2>2. row \in Job /\ new.job_id = row.job_id /\ new.attempt_count = row.attempt_count
        BY RowStatus DEF Statuses, TypeOK, WorkerOK
    <2>3. Numbered(new) /\ \A v \in Workers : pc[v] \in ExecutingAt => Behind(new, v)
        BY <2>2 DEF ExecutionInv, RowsNumbered, LatestAttempt, Numbered, Behind
    <2>4. \A i \in Jobs : jobs'[i] = jobs[i] \/ jobs'[i] = new
        BY <2>1 DEF Transition, Refused, store, TypeOK, StoreOK
    <2>5. UNCHANGED attempts
        BY <2>1 DEF Transition, Refused, store
    <2> HIDE DEF new
    <2> QED
        BY <1>2, <2>3, <2>4, <2>5, ReturnExecution DEF Block
<1>3. CASE ReadCheckpoint(w)
    <2>1. \A v \in Workers : pc'[v] \in ExecutingAt => pc[v] \in ExecutingAt
        BY <1>3 DEF ReadCheckpoint, ExecutingAt, TypeOK, WorkerOK
    <2> QED
        BY <1>3, <2>1, NoClaim DEF ReadCheckpoint, store
<1>4. CASE ClaimLost(w)
    <2>1. CASE Return(w)
        BY <1>4, <2>1, ReturnExecution DEF ClaimLost, store
    <2>2. CASE ~Return(w)
        <3>1. PICK j \in Jobs :
                /\ pc' = [pc EXCEPT ![w] = "candidate"]
                /\ candidates' = [candidates EXCEPT ![w] =
                                     [candidates[w] EXCEPT ![j] = NoJob(j)]]
                /\ UNCHANGED claimed
            BY <1>4, <2>2 DEF ClaimLost
        <3>2. \A v \in Workers, i \in Jobs :
                candidates'[v][i] = candidates[v][i] \/ candidates'[v][i] = NoJob(i)
            BY <3>1 DEF TypeOK, WorkerOK
        <3>3. \A v \in Workers, i \in Jobs : candidates'[v][i] = candidates[v][i]
                 \/ /\ Numbered(candidates'[v][i])
                    /\ \A u \in Workers : pc[u] \in ExecutingAt => Behind(candidates'[v][i], u)
            BY <3>2, UnclaimedRow, NoJobType
        <3>4. \A v \in Workers : pc'[v] \in ExecutingAt => pc[v] \in ExecutingAt
            BY <3>1 DEF ExecutingAt, TypeOK, WorkerOK
        <3> QED
            BY <1>4, <3>1, <3>3, <3>4, NoClaim DEF ClaimLost, store
    <2> QED
        BY <2>1, <2>2
<1>5. CASE ClaimConflict(w)
    BY <1>5, ReturnExecution DEF ClaimConflict, store
<1> QED
    BY <1>1, <1>2, <1>3, <1>4, <1>5

LEMMA ExecutingExecution ==
    ASSUME ExecutionInv, TypeOK, TypeOK', NEW w \in Workers,
           \/ ConnectorBatch(w) \/ ConnectorCall(w)
           \/ \E error \in Errors : ConnectorFailure(w, error) \/ VerificationFailure(w, error)
           \/ StartVerification(w) \/ VerificationUnsupported(w)
           \/ \E result \in Results : CompleteVerification(w, result)
    PROVE  ExecutionInv'
<1>1. pc[w] \in ExecutingAt /\ \A v \in Workers : v # w => pc'[v] = pc[v]
    BY DEF ConnectorBatch, ConnectorCall, ConnectorFailure, VerificationFailure,
           StartVerification, VerificationUnsupported, CompleteVerification,
           ExecutingAt, TypeOK, WorkerOK
<1>2. UNCHANGED <<jobs, attempts, candidates, claimed, op>>
    BY DEF ConnectorBatch, ConnectorCall, ConnectorFailure, VerificationFailure,
           StartVerification, VerificationUnsupported, CompleteVerification, store
<1> QED
    BY <1>1, <1>2, NoClaim

LEMMA EndingExecution ==
    ASSUME ExecutionInv, TypeOK, TypeOK', NEW w \in Workers,
           SaveCheckpoint(w) \/ Finish(w) \/ HandleError(w)
    PROVE  ExecutionInv'
<1>1. PICK row \in Outcome(w) :
        Transition(row, {"running"}, TRUE) \/ Refused(row, {"running"})
    BY Ending
<1>2. pc[w] \in ExecutingAt /\ Return(w) /\ UNCHANGED op
    BY Ending
<1>3. row.job_id = claimed[w].job_id /\ row.attempt_count = claimed[w].attempt_count
    BY OutcomeType DEF TypeOK
<1>4. Numbered(row)
    BY <1>2, <1>3 DEF ExecutionInv, LatestAttempt, Numbered
<1>5. \A v \in Workers : v # w /\ pc[v] \in ExecutingAt => Behind(row, v)
    <2>1. claimed[w].job_id \in Jobs
        BY DEF TypeOK, WorkerOK, Job
    <2> QED
        BY <1>2, <1>3, <2>1 DEF ExecutionInv, ExclusiveExecution, Executes, Behind
<1>6. UNCHANGED attempts /\ \A i \in Jobs : jobs'[i] = jobs[i] \/ jobs'[i] = row
    BY <1>1 DEF Transition, Refused, store, TypeOK, StoreOK
<1> QED
    BY <1>2, <1>4, <1>5, <1>6, ReturnExecution

LEMMA ExecutionNext == ExecutionInv /\ TypeOK /\ TypeOK' /\ [Next]_vars => ExecutionInv'
<1> SUFFICES ASSUME ExecutionInv, TypeOK, TypeOK', [Next]_vars PROVE ExecutionInv'
    OBVIOUS
<1>1. CASE \E j \in Jobs : Creator(j)
    BY <1>1, CreatorExecution
<1>2. CASE \E j \in Jobs : AuthorityChange(j)
    BY <1>2, NoClaim DEF AuthorityChange, store, worker
<1>3. CASE \E o \in Operators :
            (\E j \in Jobs : ServiceCall(o, j)) \/ OperatorStep(o) \/ OperatorCrash(o)
    BY <1>3, OperatorExecution
<1>4. CASE \E w \in Workers : WorkerStep(w)
    BY <1>4, ClaimExecution, ClaimingExecution, ExecutingExecution, EndingExecution
       DEF WorkerStep
<1>5. CASE \E w \in Workers : WorkerCrash(w)
    BY <1>5, ReturnExecution DEF WorkerCrash, store
<1>6. CASE Tick
    BY <1>6, NoClaim DEF Tick, store, worker
<1>7. CASE UNCHANGED vars
    BY <1>7, NoClaim DEF vars, store, worker
<1> QED
    BY <1>1, <1>2, <1>3, <1>4, <1>5, <1>6, <1>7 DEF Next

\* The inductive invariant holds: attempt numbers have no gaps, and every copy of a
\* row that somebody may still write back is behind the attempt that executes
\* (storage.py claim, job_attempts).
THEOREM ExecutionInvariant == Spec => []ExecutionInv
BY TypeInit, TypeNext, ExecutionInit, ExecutionNext, PTL DEF Spec

\* No two workers ever execute one job, however many workers and operators there
\* are, whether or not operators recover one job at a time, and whatever stale rows
\* they write back (storage.py claim and transition, service.py
\* recover_interrupted).
THEOREM Exclusive == Spec => []ExclusiveExecution
<1>1. ExecutionInv => ExclusiveExecution
    BY DEF ExecutionInv
<1> QED
    BY <1>1, ExecutionInvariant, PTL

(***************************************************************************)
(* The rows: what the stale copies that workers and operators write back   *)
(* can do to a finished job, to an approval, to a checkpoint, to the       *)
(* attempts and to the audit trail, and that the tables and processes      *)
(* implement the leases of JobLease.                                       *)
(***************************************************************************)

(***************************************************************************)
(* Service calls                                                           *)
(***************************************************************************)

\* An operator in the middle of a call holds a row that the call was allowed on when
\* it read it, and only recover_interrupted compares checkpoints.
OperatorInv ==
    \A o \in Operators :
        \/ op[o] = IdleOp
        \/ /\ op[o].kind \in AllKinds
           /\ op[o].step \in {"compare", "write"}
           /\ op[o].step = "compare" => op[o].kind = "recover"
           /\ op[o].row.status \in Allowed(op[o].kind)

LEMMA OperatorInit == Init => OperatorInv
BY DEF Init, OperatorInv

\* Worker, creator and environment steps leave the calls alone.
LEMMA OperatorsOnly ==
    ASSUME [Next]_vars
    PROVE  \/ UNCHANGED op
           \/ \E o \in Operators : OperatorStep(o) \/ OperatorCrash(o)
           \/ \E o \in Operators, j \in Jobs : ServiceCall(o, j)
<1>1. CASE \E j \in Jobs : Creator(j) \/ AuthorityChange(j)
    BY <1>1 DEF Creator, CreateAny, Create, AppendPlanBound, CreatorCrash, AuthorityChange
<1>2. CASE \E w \in Workers : WorkerStep(w)
    <2>1. PICK w \in Workers : WorkerStep(w)
        BY <1>2
    <2>2. CASE SaveCheckpoint(w) \/ Finish(w) \/ HandleError(w)
        BY <2>2, Ending
    <2> QED
        BY <2>1, <2>2 DEF WorkerStep, RunNext, Block, ReadCheckpoint, Claim, ClaimLost,
            ClaimConflict, ConnectorBatch, ConnectorCall, ConnectorFailure,
            VerificationFailure, StartVerification, VerificationUnsupported,
            CompleteVerification
<1>3. CASE \E w \in Workers : WorkerCrash(w)
    BY <1>3 DEF WorkerCrash
<1>4. CASE Tick \/ UNCHANGED vars
    BY <1>4 DEF Tick, vars
<1> QED
    BY <1>1, <1>2, <1>3, <1>4 DEF Next

LEMMA OperatorNext == OperatorInv /\ TypeOK /\ [Next]_vars => OperatorInv'
<1> SUFFICES ASSUME OperatorInv, TypeOK, [Next]_vars PROVE OperatorInv'
    OBVIOUS
<1>1. UNCHANGED op => OperatorInv'
    BY DEF OperatorInv
<1>2. ASSUME NEW o \in Operators,
             (\E j \in Jobs : ServiceCall(o, j)) \/ OperatorStep(o) \/ OperatorCrash(o)
      PROVE  OperatorInv'
    <2>1. CASE \E j \in Jobs, kind \in AllKinds : ReadJob(o, kind, j)
        BY <2>1 DEF ReadJob, OperatorInv, TypeOK, OperatorOK
    <2>2. CASE \E j \in Jobs, approval \in Approvals : ReadForApproval(o, j, approval)
        <3>1. PICK j \in Jobs, approval \in Approvals : ReadForApproval(o, j, approval)
            BY <2>2
        <3>2. [jobs[j] EXCEPT !.approval = approval].status = jobs[j].status
            BY DEF TypeOK, StoreOK, Job
        <3> QED
            BY <3>1, <3>2 DEF ReadForApproval, OperatorInv, AllKinds, TypeOK, OperatorOK
    <2>3. CASE CompareCheckpoint(o)
        <3>1. op[o] # IdleOp
            BY <2>3 DEF CompareCheckpoint, IdleOp
        <3>2. /\ op'[o] = IdleOp \/ op'[o] = [op[o] EXCEPT !.step = "write"]
              /\ \A p \in Operators : p # o => op'[p] = op[p]
            BY <2>3 DEF CompareCheckpoint, TypeOK, OperatorOK
        <3> QED
            BY <3>1, <3>2 DEF OperatorInv, TypeOK, OperatorOK
    <2>4. CASE WriteJob(o)
        BY <2>4 DEF WriteJob, OperatorInv, TypeOK, OperatorOK
    <2>5. CASE OperatorCrash(o)
        BY <2>5 DEF OperatorCrash, OperatorInv, TypeOK, OperatorOK
    <2> QED
        BY <1>2, <2>1, <2>2, <2>3, <2>4, <2>5 DEF ServiceCall, OperatorStep
<1> QED
    BY <1>1, <1>2, OperatorsOnly

(***************************************************************************)
(* The five ways a row is written                                          *)
(***************************************************************************)
Created(j) ==
    /\ jobs[j].status = "absent"
    /\ \E status \in {"planned", "awaiting_approval", "ready"}, operation \in Operations,
          plan \in JobPlans, approval \in Approvals :
            jobs'[j] = NewJob(j, status, operation, plan, approval)

CalledBack(o, j) ==
    /\ WriteJob(o)
    /\ op[o].step = "write"
    /\ op[o].row.job_id = j
    /\ jobs[j].status \in Allowed(op[o].kind)
    /\ jobs'[j] = [op[o].row EXCEPT !.status = Target(op[o].kind)]

Blocked(w, j) ==
    /\ Block(w)
    /\ pc[w] = "candidate"
    /\ NextCandidate(w, j)
    /\ jobs[j].status \in {"ready", "retry_wait"}
    /\ jobs'[j] = [candidates[w][j] EXCEPT !.status = "blocked"]

Taken(w, j) ==
    /\ Claim(w)
    /\ pc[w] = "claim"
    /\ NextCandidate(w, j)
    /\ Claimable(jobs[j], now[w])
    /\ jobs[j].attempt_count + 1 \notin attempts[j]
    /\ jobs'[j] = [jobs[j] EXCEPT !.status = "running",
                                  !.attempt_count = jobs[j].attempt_count + 1,
                                  !.next_retry_at = 0]

Completions == {"completed", "completed_with_warnings"}

Succeeded(w) == pc[w] = "finish" /\ verdict[w] \in {"verified", "verified_with_warnings"}

Ended(w, j) ==
    /\ SaveCheckpoint(w) \/ Finish(w) \/ HandleError(w)
    /\ Executes(w, j)
    /\ jobs[j].status = "running"
    /\ jobs'[j] \in Outcome(w)
    /\ jobs'[j].status \in Completions => Succeeded(w)

\* Only a verified execution completes a job.
LEMMA EndingStatus ==
    ASSUME TypeOK, NEW w \in Workers, SaveCheckpoint(w) \/ Finish(w) \/ HandleError(w)
    PROVE  \E row \in Outcome(w) :
             /\ Transition(row, {"running"}, TRUE) \/ Refused(row, {"running"})
             /\ row.status \in Completions => Succeeded(w)
<1>1. claimed[w] \in Job /\ checkpoint[w] \in Boundaries
    BY DEF TypeOK, WorkerOK
<1>2. CASE SaveCheckpoint(w)
    <2> DEFINE row == [claimed[w] EXCEPT !.status = "ready", !.checkpoint_id = checkpoint[w]]
    <2>1. row.status = "ready" /\ row \in Outcome(w)
        BY <1>1, YieldRowType DEF Outcome
    <2>2. Transition(row, {"running"}, TRUE) \/ Refused(row, {"running"})
        BY <1>2 DEF SaveCheckpoint
    <2> HIDE DEF row
    <2> QED
        BY <2>1, <2>2 DEF Completions
<1>3. CASE Finish(w)
    <2> DEFINE row == [claimed[w] EXCEPT !.status = FinalStatus(verdict[w])]
    <2>1. row.status = FinalStatus(verdict[w]) /\ row \in Outcome(w)
        BY <1>1, FinalStatusType, RowStatus DEF Outcome, Statuses
    <2>2. Transition(row, {"running"}, TRUE) \/ Refused(row, {"running"})
        BY <1>3 DEF Finish
    <2>3. FinalStatus(verdict[w]) \in Completions => Succeeded(w)
        BY <1>3 DEF FinalStatus, Completions, Succeeded, Finish
    <2> HIDE DEF row
    <2> QED
        BY <2>1, <2>2, <2>3
<1>4. CASE HandleError(w)
    <2>1. ASSUME NEW row, row \in Outcome(w), row.status \in {"retry_wait", "failed"},
                 Transition(row, {"running"}, TRUE) \/ Refused(row, {"running"})
          PROVE  \E r \in Outcome(w) :
                    /\ Transition(r, {"running"}, TRUE) \/ Refused(r, {"running"})
                    /\ r.status \in Completions => Succeeded(w)
        BY <2>1 DEF Completions
    <2> DEFINE later == [claimed[w] EXCEPT !.status = "retry_wait",
                            !.next_retry_at = RetryAt(now[w], claimed[w].attempt_count)]
               lost == [claimed[w] EXCEPT !.status = "failed"]
    <2>2. later \in Outcome(w) /\ lost \in Outcome(w)
        BY DEF Outcome
    <2>3. later.status = "retry_wait" /\ lost.status = "failed"
        BY <1>1, ErrorRowType, RowStatus DEF Statuses, TerminalStatuses
    <2>4. \/ Transition(later, {"running"}, TRUE) \/ Refused(later, {"running"})
          \/ Transition(lost, {"running"}, TRUE) \/ Refused(lost, {"running"})
        BY <1>4 DEF HandleError
    <2> HIDE DEF later, lost
    <2> QED
        BY <2>1, <2>2, <2>3, <2>4
<1> QED
    BY <1>2, <1>3, <1>4

\* No transaction writes a job's row in any other way.
LEMMA RowWritten ==
    ASSUME TypeOK, [Next]_vars, NEW j \in Jobs, jobs'[j] # jobs[j]
    PROVE  \/ Created(j)
           \/ \E o \in Operators : CalledBack(o, j)
           \/ \E w \in Workers : Blocked(w, j) \/ Taken(w, j) \/ Ended(w, j)
<1> USE DEF TypeOK
<1>1. CASE \E i \in Jobs : CreateAny(i)
    <2>1. PICK i \in Jobs : CreateAny(i)
        BY <1>1
    <2>2. PICK status \in {"planned", "awaiting_approval", "ready"}, operation \in Operations,
              plan \in JobPlans, approval \in Approvals :
              Create(i, status, operation, plan, approval)
        BY <2>1 DEF CreateAny
    <2> DEFINE row == NewJob(i, status, operation, plan, approval)
    <2>3. jobs' = [jobs EXCEPT ![i] = row] /\ jobs[i].status = "absent"
        BY <2>2 DEF Create
    <2> HIDE DEF row
    <2>4. i = j /\ jobs'[j] = row
        BY <2>3 DEF StoreOK
    <2> QED
        BY <2>3, <2>4 DEF Created, row
<1>2. CASE \E o \in Operators : WriteJob(o)
    <2>1. PICK o \in Operators : WriteJob(o)
        BY <1>2
    <2> DEFINE new == [op[o].row EXCEPT !.status = Target(op[o].kind)]
    <2>2. op[o].row.job_id \in Jobs /\ new.job_id = op[o].row.job_id
        BY TargetType, RowStatus DEF OperatorOK, Job
    <2>3. Transition(new, Allowed(op[o].kind), op[o].kind = "recover")
        BY <2>1 DEF WriteJob, Refused, store
    <2> HIDE DEF new
    <2>4. /\ jobs[new.job_id].status \in Allowed(op[o].kind)
          /\ jobs' = [jobs EXCEPT ![new.job_id] = new]
        BY <2>3 DEF Transition
    <2>5. new.job_id = j /\ jobs'[j] = new
        BY <2>2, <2>4 DEF StoreOK
    <2> QED
        BY <2>1, <2>2, <2>4, <2>5 DEF CalledBack, WriteJob, new
<1>3. CASE \E w \in Workers : Block(w)
    <2>1. PICK w \in Workers : Block(w)
        BY <1>3
    <2>2. PICK i \in Jobs :
            /\ NextCandidate(w, i)
            /\ \/ Transition([candidates[w][i] EXCEPT !.status = "blocked"],
                             {"ready", "retry_wait"}, FALSE)
               \/ Refused(candidates[w][i], {"ready", "retry_wait"})
        BY <2>1 DEF Block
    <2> DEFINE new == [candidates[w][i] EXCEPT !.status = "blocked"]
    <2>3. new.job_id = i
        BY RowStatus DEF WorkerOK, Statuses
    <2>4. Transition(new, {"ready", "retry_wait"}, FALSE)
        BY <2>2 DEF Refused, store
    <2> HIDE DEF new
    <2>5. jobs[i].status \in {"ready", "retry_wait"} /\ jobs' = [jobs EXCEPT ![i] = new]
        BY <2>3, <2>4 DEF Transition
    <2>6. i = j /\ jobs'[j] = new
        BY <2>5 DEF StoreOK
    <2> QED
        BY <2>1, <2>2, <2>5, <2>6 DEF Blocked, Block, new
<1>4. CASE \E w \in Workers : Claim(w)
    <2>1. PICK w \in Workers : Claim(w)
        BY <1>4
    <2>2. PICK i \in Jobs :
            /\ NextCandidate(w, i)
            /\ Claimable(jobs[i], now[w])
            /\ jobs[i].attempt_count + 1 \notin attempts[i]
            /\ jobs' = [jobs EXCEPT ![i] =
                 [jobs[i] EXCEPT !.status = "running",
                                 !.attempt_count = jobs[i].attempt_count + 1,
                                 !.next_retry_at = 0]]
        BY <2>1, Zenon DEF Claim, NewAttempt
    <2>3. i = j
        BY <2>2 DEF StoreOK
    <2> QED
        BY <2>1, <2>2, <2>3 DEF Taken, Claim, StoreOK
<1>5. CASE \E w \in Workers : SaveCheckpoint(w) \/ Finish(w) \/ HandleError(w)
    <2>1. PICK w \in Workers : SaveCheckpoint(w) \/ Finish(w) \/ HandleError(w)
        BY <1>5
    <2>2. PICK row \in Outcome(w) :
            /\ Transition(row, {"running"}, TRUE) \/ Refused(row, {"running"})
            /\ row.status \in Completions => Succeeded(w)
        BY <2>1, EndingStatus
    <2>3. row.job_id = claimed[w].job_id /\ row.job_id \in Jobs
        BY OutcomeType DEF Job
    <2>4. jobs[row.job_id].status = "running" /\ jobs' = [jobs EXCEPT ![row.job_id] = row]
        BY <2>2 DEF Transition, Refused, store
    <2>5. row.job_id = j /\ jobs'[j] = row
        BY <2>3, <2>4 DEF StoreOK
    <2> QED
        BY <2>1, <2>2, <2>3, <2>4, <2>5, Ending DEF Ended, Executes
<1>6. CASE UNCHANGED jobs
    BY <1>6
<1>7. \/ \E i \in Jobs : CreateAny(i)
      \/ \E o \in Operators : WriteJob(o)
      \/ \E w \in Workers : \/ Block(w) \/ Claim(w) \/ SaveCheckpoint(w) \/ Finish(w)
                            \/ HandleError(w)
      \/ UNCHANGED jobs
    <2>1. CASE \E i \in Jobs : Creator(i) \/ AuthorityChange(i)
        BY <2>1 DEF Creator, AppendPlanBound, CreatorCrash, AuthorityChange, store
    <2>2. CASE \E o \in Operators : OperatorStep(o) \/ OperatorCrash(o)
        BY <2>2 DEF OperatorStep, CompareCheckpoint, OperatorCrash, store
    <2>3. CASE \E o \in Operators, i \in Jobs : ServiceCall(o, i)
        BY <2>3 DEF ServiceCall, ReadJob, ReadForApproval, store
    <2>4. CASE \E w \in Workers : WorkerStep(w)
        BY <2>4 DEF WorkerStep, RunNext, ReadCheckpoint, ClaimLost, ClaimConflict,
            ConnectorBatch, ConnectorCall, ConnectorFailure, VerificationFailure,
            StartVerification, VerificationUnsupported, CompleteVerification, store
    <2>5. CASE \E w \in Workers : WorkerCrash(w)
        BY <2>5 DEF WorkerCrash, store
    <2>6. CASE Tick \/ UNCHANGED vars
        BY <2>6 DEF Tick, vars, store
    <2> QED
        BY <2>1, <2>2, <2>3, <2>4, <2>5, <2>6 DEF Next
<1> QED
    BY <1>1, <1>2, <1>3, <1>4, <1>5, <1>6, <1>7

\* What each of them writes.
LEMMA CreatedRow ==
    ASSUME NEW j \in Jobs, Created(j)
    PROVE  jobs'[j].status \in {"planned", "awaiting_approval", "ready"}
BY DEF Created, NewJob

LEMMA CalledBackRow ==
    ASSUME TypeOK, NEW o \in Operators, NEW j \in Jobs, CalledBack(o, j)
    PROVE  /\ jobs'[j].status = Target(op[o].kind)
           /\ jobs'[j].status \in {"ready", "paused", "cancelled"}
           /\ jobs'[j].plan = op[o].row.plan
           /\ jobs'[j].approval = op[o].row.approval
<1>1. Target(op[o].kind) \in {"ready", "paused", "cancelled"}
    BY DEF Target
<1>2. op[o].row \in Job
    BY DEF TypeOK, OperatorOK
<1> QED
    BY <1>1, <1>2 DEF CalledBack, Job

LEMMA BlockedRow ==
    ASSUME TypeOK, NEW w \in Workers, NEW j \in Jobs, Blocked(w, j)
    PROVE  /\ jobs'[j].status = "blocked"
           /\ jobs'[j].plan = candidates[w][j].plan
           /\ jobs'[j].approval = candidates[w][j].approval
<1>1. candidates[w][j] \in Job
    BY DEF TypeOK, WorkerOK
<1> QED
    BY <1>1 DEF Blocked, Job

LEMMA TakenRow ==
    ASSUME TypeOK, NEW w \in Workers, NEW j \in Jobs, Taken(w, j)
    PROVE  /\ jobs'[j].status = "running"
           /\ jobs'[j].plan = jobs[j].plan
           /\ jobs'[j].approval = jobs[j].approval
           /\ jobs'[j].job_id = j
<1>1. jobs[j] \in Job /\ jobs[j].job_id = j
    BY DEF TypeOK, StoreOK
<1> QED
    BY <1>1 DEF Taken, Job

LEMMA EndedRow ==
    ASSUME TypeOK, NEW w \in Workers, NEW j \in Jobs, Ended(w, j)
    PROVE  /\ jobs'[j].status \in {"ready", "retry_wait"} \cup (TerminalStatuses \ {"cancelled"})
           /\ jobs'[j].plan = claimed[w].plan
           /\ jobs'[j].approval = claimed[w].approval
           /\ jobs'[j].operation = claimed[w].operation
<1>1. claimed[w] \in Job /\ jobs'[j] \in Outcome(w)
    BY DEF Ended, TypeOK, WorkerOK
<1>2. FinalStatus(verdict[w]) \in TerminalStatuses \ {"cancelled"}
    BY DEF FinalStatus, TerminalStatuses
<1>3. "failed" \in TerminalStatuses \ {"cancelled"}
    BY DEF TerminalStatuses
<1> QED
    BY <1>1, <1>2, <1>3 DEF Outcome, Job

\* The calls are allowed in no terminal status.
LEMMA AllowedStatuses ==
    ASSUME NEW kind \in AllKinds
    PROVE  /\ Allowed(kind) \cap (TerminalStatuses \cup {"absent"}) = {}
           /\ kind # "recover" => "running" \notin Allowed(kind)
BY DEF Allowed, AllKinds, TerminalStatuses

LEMMA FinishedStays ==
    ASSUME TypeOK, OperatorInv, [Next]_vars, NEW j \in Jobs, jobs[j].status \in TerminalStatuses
    PROVE  jobs'[j] = jobs[j]
<1> SUFFICES ASSUME jobs'[j] # jobs[j] PROVE FALSE
    OBVIOUS
<1>1. ~Created(j)
    BY DEF Created, TerminalStatuses
<1>2. \A o \in Operators : ~CalledBack(o, j)
    <2>1. IdleOp.step = "idle"
        BY DEF IdleOp
    <2> QED
        BY <2>1, AllowedStatuses DEF CalledBack, OperatorInv
<1>3. \A w \in Workers : ~Blocked(w, j) /\ ~Taken(w, j) /\ ~Ended(w, j)
    BY DEF Blocked, Taken, Ended, Claimable, TerminalStatuses
<1> QED
    BY <1>1, <1>2, <1>3, RowWritten

LEMMA OperatorInvariant == Spec => [](TypeOK /\ OperatorInv)
BY TypeInit, TypeNext, OperatorInit, OperatorNext, PTL DEF Spec

\* A completed, failed, cancelled or indeterminate job never changes again, whatever
\* rows were read before it ended and are written back after (storage.py transition).
THEOREM Terminal == Spec => TerminalAbsorbing
<1>1. TypeOK /\ OperatorInv /\ [Next]_vars
        => [\A j \in Jobs : jobs[j].status \in TerminalStatuses => jobs'[j] = jobs[j]]_vars
    BY FinishedStays
<1> QED
    BY <1>1, OperatorInvariant, PTL DEF Spec, TerminalAbsorbing

(***************************************************************************)
(* Durable checkpoints                                                     *)
(***************************************************************************)

\* The boundary a worker read before its claim, or has reached since, is never ahead
\* of the connector's output; a verification succeeded over a complete output only.
DurableBy(w) ==
    /\ \A j \in Jobs : pc[w] = "claim" /\ NextCandidate(w, j) => checkpoint[w] <= output[j]
    /\ pc[w] \in ExecutingAt => checkpoint[w] <= output[claimed[w].job_id]
    /\ Succeeded(w) /\ claimed[w].operation \in Batched => output[claimed[w].job_id] = Items

DurableInv == CheckpointDurable /\ \A w \in Workers : DurableBy(w)

LEMMA DurableInit == Init => DurableInv
<1> SUFFICES ASSUME Init PROVE DurableInv
    OBVIOUS
<1>1. CheckpointDurable
    BY DEF Init, CheckpointDurable, NoRows, NoJob, NewJob
<1>2. \A w \in Workers : DurableBy(w)
    BY DEF Init, DurableBy, ExecutingAt, Succeeded
<1> QED
    BY <1>1, <1>2 DEF DurableInv

\* What the connector has stored stays stored.
LEMMA OutputGrows ==
    ASSUME TypeOK, TypeOK', [Next]_vars, NEW j \in Jobs
    PROVE  output[j] <= output'[j] /\ output'[j] <= Items
<1>0. output[j] \in 0 .. Items /\ output'[j] \in 0 .. Items
    BY DEF TypeOK, EnvOK, Boundaries
<1>1. CASE \E w \in Workers : ConnectorBatch(w)
    <2>1. PICK w \in Workers : ConnectorBatch(w)
        BY <1>1
    <2>2. BatchEnd(checkpoint[w]) \in Boundaries
        BY BatchEndType DEF TypeOK, WorkerOK
    <2>3. output'[j] = output[j] \/ output'[j] = Greater(output[j], BatchEnd(checkpoint[w]))
        BY <2>1 DEF ConnectorBatch, Stored, TypeOK, EnvOK
    <2> QED
        BY <1>0, <2>2, <2>3, BatchAssumption DEF Greater, Boundaries
<1>2. CASE \E w \in Workers, error \in Errors : ConnectorFailure(w, error)
    <2>1. PICK w \in Workers, error \in Errors : ConnectorFailure(w, error)
        BY <1>2
    <2>2. PICK stored \in checkpoint[w] .. BatchEnd(checkpoint[w]) :
              output' = Stored(claimed[w].job_id, stored)
        BY <2>1 DEF ConnectorFailure
    <2>3. stored \in Int
        BY BatchEndType, BatchAssumption DEF TypeOK, WorkerOK, Boundaries
    <2>4. output'[j] = output[j] \/ output'[j] = Greater(output[j], stored)
        BY <2>2 DEF Stored, TypeOK, EnvOK
    <2> QED
        BY <1>0, <2>3, <2>4, BatchAssumption DEF Greater
<1>3. CASE UNCHANGED output
    BY <1>0, <1>3, BatchAssumption
<1>4. \/ \E w \in Workers : ConnectorBatch(w)
      \/ \E w \in Workers, error \in Errors : ConnectorFailure(w, error)
      \/ UNCHANGED output
    <2>1. CASE \E i \in Jobs : Creator(i) \/ AuthorityChange(i)
        BY <2>1 DEF Creator, CreateAny, Create, AppendPlanBound, CreatorCrash,
            AuthorityChange, env
    <2>2. CASE \E o \in Operators :
            (\E i \in Jobs : ServiceCall(o, i)) \/ OperatorStep(o) \/ OperatorCrash(o)
        BY <2>2 DEF ServiceCall, ReadJob, ReadForApproval, OperatorStep, CompareCheckpoint,
            WriteJob, OperatorCrash, env
    <2>3. CASE \E w \in Workers : WorkerStep(w)
        <3>1. PICK w \in Workers : WorkerStep(w)
            BY <2>3
        <3>2. CASE SaveCheckpoint(w) \/ Finish(w) \/ HandleError(w)
            BY <3>2, Ending DEF env
        <3> QED
            BY <3>1, <3>2 DEF WorkerStep, RunNext, Block, ReadCheckpoint, Claim, ClaimLost,
                ClaimConflict, ConnectorCall, VerificationFailure, StartVerification,
                VerificationUnsupported, CompleteVerification, env
    <2>4. CASE \E w \in Workers : WorkerCrash(w)
        BY <2>4 DEF WorkerCrash, env
    <2>5. CASE Tick \/ UNCHANGED vars
        BY <2>5 DEF Tick, vars, env
    <2> QED
        BY <2>1, <2>2, <2>3, <2>4, <2>5 DEF Next
<1> QED
    BY <1>1, <1>2, <1>3, <1>4

\* A checkpoint is written only by a worker that yields, with the boundary it reached.
LEMMA CheckpointWritten ==
    ASSUME TypeOK, [Next]_vars, NEW j \in Jobs
    PROVE  \/ checkpoints'[j] = checkpoints[j]
           \/ \E w \in Workers : /\ Executes(w, j)
                                 /\ jobs[j].status = "running"
                                 /\ checkpoints'[j] = checkpoint[w]
<1>1. CASE \E w \in Workers : SaveCheckpoint(w)
    <2>1. PICK w \in Workers : SaveCheckpoint(w)
        BY <1>1
    <2> DEFINE row == [claimed[w] EXCEPT !.status = "ready", !.checkpoint_id = checkpoint[w]]
    <2>2. row.job_id = claimed[w].job_id
        BY YieldRowType DEF TypeOK, WorkerOK
    <2>3. \/ Transition(row, {"running"}, TRUE)
             /\ checkpoints' = [checkpoints EXCEPT ![row.job_id] = checkpoint[w]]
          \/ Refused(row, {"running"})
        BY <2>1 DEF SaveCheckpoint
    <2> HIDE DEF row
    <2>4. CASE Refused(row, {"running"})
        BY <2>4 DEF Refused, store
    <2>5. CASE row.job_id = j
        BY <2>1, <2>2, <2>3, <2>4, <2>5
           DEF SaveCheckpoint, Executes, ExecutingAt, Transition, TypeOK, StoreOK
    <2>6. CASE row.job_id # j
        BY <2>3, <2>4, <2>6 DEF TypeOK, StoreOK
    <2> QED
        BY <2>5, <2>6
<1>2. CASE UNCHANGED checkpoints
    BY <1>2
<1>3. (\E w \in Workers : SaveCheckpoint(w)) \/ UNCHANGED checkpoints
    <2>1. CASE \E i \in Jobs : Creator(i) \/ AuthorityChange(i)
        BY <2>1 DEF Creator, CreateAny, Create, AppendPlanBound, CreatorCrash,
            AuthorityChange, store
    <2>2. CASE \E o \in Operators :
            (\E i \in Jobs : ServiceCall(o, i)) \/ OperatorStep(o) \/ OperatorCrash(o)
        BY <2>2 DEF ServiceCall, ReadJob, ReadForApproval, OperatorStep, CompareCheckpoint,
            WriteJob, Refused, OperatorCrash, store
    <2>3. CASE \E w \in Workers : WorkerStep(w)
        BY <2>3, ZenonT(60) DEF WorkerStep, RunNext, Block, ReadCheckpoint, Claim, ClaimLost,
            ClaimConflict, ConnectorBatch, ConnectorCall, ConnectorFailure,
            VerificationFailure, StartVerification, VerificationUnsupported,
            CompleteVerification, Finish, HandleError, Refused, store
    <2>4. CASE \E w \in Workers : WorkerCrash(w)
        BY <2>4 DEF WorkerCrash, store
    <2>5. CASE Tick \/ UNCHANGED vars
        BY <2>5 DEF Tick, vars, store
    <2> QED
        BY <2>1, <2>2, <2>3, <2>4, <2>5 DEF Next
<1> QED
    BY <1>1, <1>2, <1>3

\* The locals of run_next in one worker.
Locals(w) == <<pc[w], now[w], candidates[w], checkpoint[w], claimed[w], verdict[w]>>

\* A worker changes its own locals only, and nobody else does.
LEMMA OthersRest ==
    ASSUME TypeOK, [Next]_vars
    PROVE  \/ UNCHANGED worker
           \/ \E w \in Workers : /\ WorkerStep(w) \/ WorkerCrash(w)
                                 /\ \A v \in Workers : v # w => UNCHANGED Locals(v)
<1>1. ASSUME NEW w \in Workers, WorkerStep(w) \/ WorkerCrash(w)
      PROVE  \A v \in Workers : v # w => UNCHANGED Locals(v)
    <2> SUFFICES ASSUME NEW v \in Workers, v # w PROVE UNCHANGED Locals(v)
        OBVIOUS
    <2> USE DEF TypeOK, WorkerOK, Locals
    <2>1. CASE Return(w)
        BY <2>1 DEF Return
    <2>2. CASE RunNext(w) \/ ReadCheckpoint(w) \/ Claim(w)
        BY <2>2 DEF RunNext, ReadCheckpoint, Claim
    <2>3. CASE ClaimLost(w)
        <3>1. PICK j \in Jobs :
                LET rest == [candidates[w] EXCEPT ![j] = NoJob(j)]
                IN  \/ Return(w)
                    \/ /\ pc' = [pc EXCEPT ![w] = "candidate"]
                       /\ candidates' = [candidates EXCEPT ![w] = rest]
                       /\ checkpoint' = [checkpoint EXCEPT ![w] = 0]
                       /\ UNCHANGED <<now, claimed, verdict>>
            BY <2>3, Zenon DEF ClaimLost
        <3> QED
            BY <2>1, <3>1
    <2>4. CASE ConnectorBatch(w) \/ ConnectorCall(w)
        BY <2>4 DEF ConnectorBatch, ConnectorCall
    <2>5. CASE \E error \in Errors : ConnectorFailure(w, error) \/ VerificationFailure(w, error)
        BY <2>5 DEF ConnectorFailure, VerificationFailure
    <2>6. CASE \/ StartVerification(w) \/ VerificationUnsupported(w)
               \/ \E result \in Results : CompleteVerification(w, result)
        BY <2>6 DEF StartVerification, VerificationUnsupported, CompleteVerification
    <2>7. CASE \/ Block(w) \/ ClaimConflict(w) \/ WorkerCrash(w)
               \/ SaveCheckpoint(w) \/ Finish(w) \/ HandleError(w)
        BY <2>1, <2>7, Ending DEF Block, ClaimConflict, WorkerCrash
    <2> QED
        BY <1>1, <2>2, <2>3, <2>4, <2>5, <2>6, <2>7 DEF WorkerStep
<1>2. (\E w \in Workers : WorkerStep(w) \/ WorkerCrash(w)) \/ UNCHANGED worker
    <2>1. CASE \E i \in Jobs : Creator(i) \/ AuthorityChange(i)
        BY <2>1 DEF Creator, CreateAny, Create, AppendPlanBound, CreatorCrash, AuthorityChange
    <2>2. CASE \E o \in Operators :
            (\E i \in Jobs : ServiceCall(o, i)) \/ OperatorStep(o) \/ OperatorCrash(o)
        BY <2>2 DEF ServiceCall, ReadJob, ReadForApproval, OperatorStep, CompareCheckpoint,
            WriteJob, OperatorCrash
    <2>3. CASE Tick \/ UNCHANGED vars
        BY <2>3 DEF Tick, vars
    <2> QED
        BY <2>1, <2>2, <2>3 DEF Next
<1> QED
    BY <1>1, <1>2

\* The candidate that is tried next is one row.
LEMMA OneCandidate ==
    ASSUME NEW w \in Workers, NEW i \in Jobs, NEW j \in Jobs,
           NextCandidate(w, i), NextCandidate(w, j)
    PROVE  i = j
BY JobsAssumption DEF NextCandidate

\* A worker that keeps its locals stays behind the output.
LEMMA DurableRest ==
    ASSUME TypeOK, TypeOK', [Next]_vars, NEW w \in Workers, DurableBy(w), UNCHANGED Locals(w)
    PROVE  DurableBy(w)'
<1>1. /\ pc'[w] = pc[w] /\ candidates'[w] = candidates[w] /\ checkpoint'[w] = checkpoint[w]
      /\ claimed'[w] = claimed[w] /\ verdict'[w] = verdict[w]
    BY DEF Locals
<1>2. \A j \in Jobs : /\ output[j] <= output'[j] /\ output'[j] <= Items
                      /\ output[j] \in Int /\ output'[j] \in Int
    BY OutputGrows, BatchAssumption DEF TypeOK, EnvOK, Boundaries
<1>3. claimed[w].job_id \in Jobs /\ checkpoint[w] \in Int /\ Items \in Int
    BY BatchAssumption DEF TypeOK, WorkerOK, Job, Boundaries
<1>4. \A j \in Jobs : NextCandidate(w, j)' <=> NextCandidate(w, j)
    BY <1>1 DEF NextCandidate
<1> QED
    BY <1>1, <1>2, <1>3, <1>4 DEF DurableBy, Succeeded

\* So does the worker that makes the step.
LEMMA DurableMover ==
    ASSUME TypeOK, TypeOK', [Next]_vars, DurableInv, NEW w \in Workers,
           WorkerStep(w) \/ WorkerCrash(w)
    PROVE  DurableBy(w)'
<1> DEFINE j == claimed[w].job_id
<1>1. /\ j \in Jobs /\ checkpoint[w] \in Boundaries
      /\ output \in [Jobs -> Boundaries] /\ output' \in [Jobs -> Boundaries]
      /\ DurableBy(w) /\ CheckpointDurable
    BY DEF TypeOK, WorkerOK, EnvOK, Job, DurableInv
<1>2. \A i \in Jobs : output[i] <= output'[i] /\ output'[i] <= Items
    BY OutputGrows
<1>3. pc'[w] \in {"idle", "candidate"} => DurableBy(w)'
    BY DEF DurableBy, ExecutingAt, Succeeded
<1>4. CASE Return(w) \/ RunNext(w)
    BY <1>3, <1>4 DEF Return, RunNext, TypeOK, WorkerOK
<1>5. CASE ClaimLost(w)
    <2>1. pc'[w] \in {"idle", "candidate"}
        BY <1>5 DEF ClaimLost, Return, TypeOK, WorkerOK
    <2> QED
        BY <1>3, <2>1
<1>6. CASE ReadCheckpoint(w)
    <2>1. PICK i \in Jobs : NextCandidate(w, i) /\ checkpoint'[w] = checkpoints[i]
        BY <1>6 DEF ReadCheckpoint, TypeOK, WorkerOK
    <2>2. pc'[w] = "claim" /\ UNCHANGED <<candidates, output>>
        BY <1>6 DEF ReadCheckpoint, env, TypeOK, WorkerOK
    <2>3. \A k \in Jobs : NextCandidate(w, k)' => k = i
        BY <2>1, <2>2, OneCandidate DEF NextCandidate
    <2> QED
        BY <1>1, <2>1, <2>2, <2>3 DEF DurableBy, CheckpointDurable, ExecutingAt, Succeeded
<1>7. CASE Claim(w)
    <2>1. PICK i \in Jobs :
            /\ NextCandidate(w, i)
            /\ claimed' = [claimed EXCEPT ![w] =
                 [jobs[i] EXCEPT !.status = "running",
                                 !.attempt_count = jobs[i].attempt_count + 1,
                                 !.next_retry_at = 0]]
        BY <1>7, Zenon DEF Claim
    <2>2. claimed'[w].job_id = i
        BY <2>1 DEF TypeOK, StoreOK, WorkerOK, Job
    <2>3. pc'[w] = "execute" /\ UNCHANGED <<checkpoint, output>> /\ pc[w] = "claim"
        BY <1>7 DEF Claim, env, TypeOK, WorkerOK
    <2> QED
        BY <1>1, <2>1, <2>2, <2>3 DEF DurableBy, Succeeded
<1>8. CASE ConnectorBatch(w)
    <2> DEFINE end == BatchEnd(checkpoint[w])
    <2>1. end \in Boundaries
        BY <1>1, BatchEndType
    <2>2. output'[j] = Greater(output[j], end)
        BY <1>1, <1>8 DEF ConnectorBatch, Stored
    <2>3. checkpoint'[w] = end /\ claimed'[w] = claimed[w] /\ pc'[w] \in {"verify", "yield"}
        BY <1>8 DEF ConnectorBatch, TypeOK, WorkerOK
    <2> HIDE DEF end
    <2>4. end <= output'[j]
        BY <1>1, <2>1, <2>2, BatchAssumption DEF Greater, Boundaries
    <2> QED
        BY <2>3, <2>4 DEF DurableBy, Succeeded
<1>9. CASE \E result \in Results : CompleteVerification(w, result)
    <2>1. PICK result \in Results : CompleteVerification(w, result)
        BY <1>9
    <2>2. /\ pc[w] = "verifying" /\ pc'[w] = "finish" /\ verdict'[w] = result
          /\ UNCHANGED <<checkpoint, claimed, output>>
          /\ result \in Verdicts(j, claimed[w].operation)
        BY <2>1 DEF CompleteVerification, env, TypeOK, WorkerOK
    <2>3. /\ result \in {"verified", "verified_with_warnings"}
          /\ claimed[w].operation \in Batched
          => ~(output[j] < Items)
        BY <2>2 DEF Verdicts
    <2>4. output[j] \in Int /\ output[j] <= Items /\ Items \in Int
        BY <1>1, <1>2, <2>2, BatchAssumption DEF Boundaries
    <2> QED
        BY <1>1, <2>2, <2>3, <2>4 DEF DurableBy, Succeeded, ExecutingAt
<1>10. CASE \/ ConnectorCall(w) \/ StartVerification(w) \/ VerificationUnsupported(w)
            \/ \E error \in Errors : ConnectorFailure(w, error) \/ VerificationFailure(w, error)
    <2>1. /\ pc[w] \in ExecutingAt /\ checkpoint'[w] = checkpoint[w] /\ claimed'[w] = claimed[w]
          /\ pc'[w] # "claim" /\ ~Succeeded(w)'
        BY <1>10 DEF ConnectorCall, StartVerification, VerificationUnsupported,
            ConnectorFailure, VerificationFailure, ExecutingAt, Succeeded, TypeOK, WorkerOK
    <2>2. checkpoint[w] <= output[j] /\ output[j] <= output'[j]
        BY <1>1, <1>2, <2>1 DEF DurableBy
    <2>3. checkpoint[w] <= output'[j]
        BY <1>1, <2>2, BatchAssumption DEF Boundaries
    <2> QED
        BY <2>1, <2>3 DEF DurableBy
<1>11. CASE \/ Block(w) \/ ClaimConflict(w) \/ WorkerCrash(w)
            \/ SaveCheckpoint(w) \/ Finish(w) \/ HandleError(w)
    BY <1>4, <1>11, Ending DEF Block, ClaimConflict, WorkerCrash
<1> QED
    BY <1>4, <1>5, <1>6, <1>7, <1>8, <1>9, <1>10, <1>11 DEF WorkerStep

LEMMA DurableNext ==
    DurableInv /\ OperatorInv /\ TypeOK /\ TypeOK' /\ [Next]_vars => DurableInv'
<1> SUFFICES ASSUME DurableInv, OperatorInv, TypeOK, TypeOK', [Next]_vars PROVE DurableInv'
    OBVIOUS
<1>1. \A w \in Workers : DurableBy(w)'
    <2>1. CASE UNCHANGED worker
        BY <2>1, DurableRest DEF DurableInv, Locals, worker
    <2> QED
        BY <2>1, OthersRest, DurableRest, DurableMover DEF DurableInv
<1>2. ASSUME NEW j \in Jobs
      PROVE  checkpoints'[j] <= output'[j]
    <2>1. output[j] <= output'[j] /\ output[j] \in Int /\ output'[j] \in Int
        BY OutputGrows, BatchAssumption DEF TypeOK, EnvOK, Boundaries
    <2>2. checkpoints'[j] <= output[j] /\ checkpoints'[j] \in Int
        BY CheckpointWritten, BatchAssumption
           DEF DurableInv, CheckpointDurable, DurableBy, Executes, TypeOK, StoreOK, Boundaries
    <2> QED
        BY <2>1, <2>2
<1>3. ASSUME NEW j \in Jobs, jobs'[j].operation \in Batched, jobs'[j].status \in Completions
      PROVE  output'[j] = Items
    <2>1. output[j] <= output'[j] /\ output'[j] <= Items
        BY OutputGrows
    <2>2. output[j] = Items
        <3>1. CASE jobs'[j] = jobs[j]
            BY <1>3, <3>1 DEF DurableInv, CheckpointDurable, Completions
        <3>2. CASE \E w \in Workers : Ended(w, j)
            <4>1. PICK w \in Workers : Ended(w, j)
                BY <3>2
            <4>2. Succeeded(w) /\ claimed[w].job_id = j
                BY <1>3, <4>1 DEF Ended, Executes
            <4>3. jobs'[j].operation = claimed[w].operation
                BY <4>1, EndedRow
            <4> QED
                BY <1>3, <4>2, <4>3 DEF DurableInv, DurableBy
        <3>3. ~Created(j)
            BY <1>3, CreatedRow DEF Completions
        <3>4. \A o \in Operators : ~CalledBack(o, j)
            BY <1>3, CalledBackRow DEF Completions
        <3>5. \A w \in Workers : ~Blocked(w, j) /\ ~Taken(w, j)
            BY <1>3, BlockedRow, TakenRow DEF Completions
        <3> QED
            BY <3>1, <3>2, <3>3, <3>4, <3>5, RowWritten
    <2>3. output'[j] \in Int /\ Items \in Int
        BY BatchAssumption DEF TypeOK, EnvOK, Boundaries
    <2> QED
        BY <2>1, <2>2, <2>3
<1>4. CheckpointDurable'
    BY <1>2, <1>3 DEF CheckpointDurable, Completions
<1> QED
    BY <1>1, <1>4 DEF DurableInv

\* No checkpoint is ever ahead of the connector's durable output, and no batched job
\* completes over a gap, whoever resumes the job, from whatever stale boundary, and
\* even when recoveries overlap (worker.py _execute, storage.py save_checkpoint).
THEOREM Durable == Spec => []CheckpointDurable
<1>1. DurableInv => CheckpointDurable
    BY DEF DurableInv
<1> QED
    BY <1>1, TypeInit, TypeNext, OperatorInit, OperatorNext, DurableInit, DurableNext, PTL
       DEF Spec

(***************************************************************************)
(* Approved execution                                                      *)
(***************************************************************************)

\* The statuses a job reaches only once its approval is settled.
Approved == {"ready", "retry_wait", "paused", "blocked", "running"}

\* A copy of a row read after its approval was settled, which the table still agrees
\* with unless the job has ended.
SamePlan(row) ==
    row.status \in Approved =>
        LET current == jobs[row.job_id]
        IN  \/ current.status \in TerminalStatuses
            \/ /\ current.status \in Approved
               /\ current.plan = row.plan
               /\ current.approval = row.approval

ApprovalBy(w) ==
    /\ \A j \in Jobs :
          /\ SamePlan(candidates[w][j])
          /\ candidates[w][j].status \in {"absent", "ready", "retry_wait"}
          /\ /\ pc[w] = "claim" /\ NextCandidate(w, j)
             /\ candidates[w][j].plan = "approval_required"
             => Matches(candidates[w][j].approval, now[w])
    /\ pc[w] \in ExecutingAt =>
          /\ SamePlan(claimed[w])
          /\ claimed[w].plan = "approval_required" => Matches(claimed[w].approval, now[w])

ApprovalInv ==
    /\ \A o \in Operators : SamePlan(op[o].row)
    /\ \A w \in Workers : ApprovalBy(w)

\* Neither a row of a job that does not exist nor the row just written can disagree.
LEMMA NewRow ==
    ASSUME NEW row, row.status \notin Approved \/ jobs[row.job_id] = row
    PROVE  SamePlan(row)
BY DEF SamePlan

LEMMA NoJobNew == \A j \in Jobs : NoJob(j).status = "absent" /\ SamePlan(NoJob(j))
<1>1. \A j \in Jobs : NoJob(j).status = "absent"
    BY DEF NoJob, NewJob
<1> QED
    BY <1>1, NewRow DEF Approved

LEMMA ApprovalInit == Init => ApprovalInv
<1> SUFFICES ASSUME Init PROVE ApprovalInv
    OBVIOUS
<1>1. \A o \in Operators : SamePlan(op[o].row)
    BY NoJobNew, FirstJobType DEF Init, IdleOp
<1>2. \A w \in Workers : pc[w] = "idle" /\ \A j \in Jobs : candidates[w][j] = NoJob(j)
    BY DEF Init, NoRows
<1> QED
    BY <1>1, <1>2, NoJobNew DEF ApprovalInv, ApprovalBy, ExecutingAt

\* A copy that agreed with the table goes on agreeing, whoever writes the row.
LEMMA SamePlanStays ==
    ASSUME TypeOK, ExecutionInv, OperatorInv, ApprovalInv, [Next]_vars,
           NEW row \in Job, SamePlan(row)
    PROVE  SamePlan(row)'
<1> DEFINE j == row.job_id
<1>1. j \in Jobs
    BY DEF Job
<1> SUFFICES ASSUME row.status \in Approved, jobs'[j] # jobs[j],
                    jobs[j].status \notin TerminalStatuses
             PROVE  \/ jobs'[j].status \in TerminalStatuses
                    \/ /\ jobs'[j].status \in Approved
                       /\ jobs'[j].plan = jobs[j].plan
                       /\ jobs'[j].approval = jobs[j].approval
    BY <1>1, FinishedStays DEF SamePlan
<1>2. jobs[j].status \in Approved
    BY DEF SamePlan
<1>3. ~Created(j)
    BY <1>2 DEF Created, Approved
<1>4. CASE \E o \in Operators : CalledBack(o, j)
    <2>1. PICK o \in Operators : CalledBack(o, j)
        BY <1>4
    <2>2. op[o] # IdleOp /\ op[o].row.job_id = j /\ jobs[j].status \in Allowed(op[o].kind)
        BY <2>1 DEF CalledBack, IdleOp
    <2>3. op[o].kind \in AllKinds /\ op[o].row.status \in Allowed(op[o].kind)
        BY <2>2 DEF OperatorInv
    <2>4. CASE op[o].kind = "cancel"
        BY <1>1, <2>1, <2>4, CalledBackRow DEF Target, TerminalStatuses
    <2>5. CASE op[o].kind = "bind_approval"
        BY <1>2, <2>2, <2>5 DEF Allowed, Approved
    <2>6. CASE op[o].kind \in {"pause", "resume", "recover"}
        <3>1. op[o].row.status \in Approved
            BY <2>3, <2>6 DEF Allowed, Approved
        <3>2. op[o].row.plan = jobs[j].plan /\ op[o].row.approval = jobs[j].approval
            BY <2>2, <3>1 DEF ApprovalInv, SamePlan
        <3>3. Target(op[o].kind) \in Approved
            BY <2>6 DEF Target, Approved
        <3> QED
            BY <1>1, <2>1, <3>2, <3>3, CalledBackRow
    <2> QED
        BY <2>3, <2>4, <2>5, <2>6 DEF AllKinds
<1>5. CASE \E w \in Workers : Blocked(w, j)
    <2>1. PICK w \in Workers : Blocked(w, j)
        BY <1>5
    <2>2. candidates[w][j].status \in Approved /\ SamePlan(candidates[w][j])
        BY <1>1, <2>1 DEF Blocked, NextCandidate, ApprovalInv, ApprovalBy, Approved
    <2>3. candidates[w][j].job_id = j
        BY <1>1 DEF TypeOK, WorkerOK
    <2>4. candidates[w][j].plan = jobs[j].plan /\ candidates[w][j].approval = jobs[j].approval
        BY <2>2, <2>3 DEF SamePlan
    <2> QED
        BY <1>1, <2>1, <2>4, BlockedRow DEF Approved
<1>6. CASE \E w \in Workers : Taken(w, j)
    BY <1>1, <1>6, TakenRow DEF Approved
<1>7. CASE \E w \in Workers : Ended(w, j)
    <2>1. PICK w \in Workers : Ended(w, j)
        BY <1>7
    <2>2. claimed[w].job_id = j /\ claimed[w].status = "running" /\ SamePlan(claimed[w])
        BY <2>1 DEF Ended, Executes, ExecutionInv, LatestAttempt, ApprovalInv, ApprovalBy
    <2>3. claimed[w].plan = jobs[j].plan /\ claimed[w].approval = jobs[j].approval
        BY <2>2 DEF SamePlan, Approved
    <2> QED
        BY <1>1, <2>1, <2>3, EndedRow DEF Approved
<1> QED
    BY <1>1, <1>3, <1>4, <1>5, <1>6, <1>7, RowWritten

\* The rows operators read are rows of the table.
LEMMA ApprovalOperators ==
    ASSUME TypeOK, ExecutionInv, OperatorInv, ApprovalInv, [Next]_vars, NEW o \in Operators
    PROVE  SamePlan(op[o].row)'
<1>0. op[o].row \in Job /\ SamePlan(op[o].row)
    BY DEF ApprovalInv, TypeOK, OperatorOK
<1>1. CASE op'[o].row = op[o].row
    BY <1>0, <1>1, SamePlanStays DEF SamePlan
<1>2. CASE op'[o] = IdleOp
    BY <1>2, FirstJobType, NoJobNew DEF IdleOp, SamePlan, Approved
<1>3. ASSUME NEW p \in Operators, NEW j \in Jobs, NEW kind \in AllKinds, ReadJob(p, kind, j),
             op'[o].row # op[o].row
      PROVE  SamePlan(op[o].row)'
    <2>1. op'[o].row = jobs[j] /\ jobs' = jobs /\ jobs[j].job_id = j
        BY <1>3 DEF ReadJob, store, TypeOK, OperatorOK, StoreOK
    <2> QED
        BY <2>1 DEF SamePlan
<1>4. ASSUME NEW p \in Operators, NEW j \in Jobs, NEW approval \in Approvals,
             ReadForApproval(p, j, approval), op'[o].row # op[o].row
      PROVE  SamePlan(op[o].row)'
    <2>1. op'[o].row = [jobs[j] EXCEPT !.approval = approval]
        BY <1>4 DEF ReadForApproval, TypeOK, OperatorOK
    <2>2. jobs[j].status = "awaiting_approval" /\ jobs[j] \in Job
        BY <1>4 DEF ReadForApproval, Allowed, TypeOK, StoreOK
    <2>3. op'[o].row.status = "awaiting_approval"
        BY <2>1, <2>2 DEF Job
    <2> QED
        BY <2>3 DEF SamePlan, Approved
<1>5. \/ op'[o].row = op[o].row
      \/ op'[o] = IdleOp
      \/ \E p \in Operators, j \in Jobs :
            \/ \E kind \in AllKinds : ReadJob(p, kind, j)
            \/ \E approval \in Approvals : ReadForApproval(p, j, approval)
    <2>1. CASE UNCHANGED op
        BY <2>1
    <2>2. CASE \E p \in Operators : OperatorStep(p) \/ OperatorCrash(p)
        BY <2>2 DEF OperatorStep, CompareCheckpoint, WriteJob, OperatorCrash, TypeOK, OperatorOK
    <2>3. CASE \E p \in Operators, j \in Jobs : ServiceCall(p, j)
        BY <2>3 DEF ServiceCall
    <2> QED
        BY <2>1, <2>2, <2>3, OperatorsOnly
<1> QED
    BY <1>1, <1>2, <1>3, <1>4, <1>5

\* A worker that keeps its locals.
LEMMA ApprovalRest ==
    ASSUME TypeOK, ExecutionInv, OperatorInv, ApprovalInv, [Next]_vars,
           NEW w \in Workers, UNCHANGED Locals(w)
    PROVE  ApprovalBy(w)'
<1>1. /\ pc'[w] = pc[w] /\ candidates'[w] = candidates[w] /\ now'[w] = now[w]
      /\ claimed'[w] = claimed[w] /\ ApprovalBy(w)
    BY DEF Locals, ApprovalInv
<1>2. claimed[w] \in Job /\ \A j \in Jobs : candidates[w][j] \in Job
    BY DEF TypeOK, WorkerOK
<1>3. \A j \in Jobs : SamePlan(candidates[w][j])'
    BY <1>1, <1>2, SamePlanStays DEF SamePlan, ApprovalBy
<1>4. pc[w] \in ExecutingAt => SamePlan(claimed[w])'
    BY <1>1, <1>2, SamePlanStays DEF SamePlan, ApprovalBy
<1>5. \A j \in Jobs : NextCandidate(w, j)' <=> NextCandidate(w, j)
    BY <1>1 DEF NextCandidate
<1> QED
    BY <1>1, <1>3, <1>4, <1>5 DEF ApprovalBy

\* The worker that makes the step: it authorizes the candidate it then claims, and
\* the row it claims has the candidate's plan and approval.
LEMMA ApprovalMover ==
    ASSUME TypeOK, TypeOK', ExecutionInv, OperatorInv, ApprovalInv, [Next]_vars,
           NEW w \in Workers, WorkerStep(w) \/ WorkerCrash(w)
    PROVE  ApprovalBy(w)'
<1>0. /\ ApprovalBy(w) /\ claimed[w] \in Job
      /\ \A j \in Jobs : candidates[w][j] \in Job /\ candidates[w][j].job_id = j
    BY DEF ApprovalInv, TypeOK, WorkerOK
<1>1. ASSUME candidates'[w] = NoRows PROVE \A j \in Jobs :
          /\ SamePlan(candidates[w][j])'
          /\ candidates'[w][j].status = "absent"
    BY <1>1, NoJobNew DEF NoRows, SamePlan, Approved
<1>2. candidates'[w] = candidates[w] => \A j \in Jobs :
          /\ SamePlan(candidates[w][j])'
          /\ candidates'[w][j].status \in {"absent", "ready", "retry_wait"}
    BY <1>0, SamePlanStays DEF SamePlan, ApprovalBy
<1>3. CASE Return(w)
    <2>1. pc'[w] = "idle" /\ candidates'[w] = NoRows
        BY <1>3 DEF Return, TypeOK, WorkerOK
    <2> QED
        BY <1>1, <2>1 DEF ApprovalBy, ExecutingAt
<1>4. CASE RunNext(w)
    <2>1. /\ pc'[w] = "candidate" /\ jobs' = jobs
          /\ candidates'[w] =
                [j \in Jobs |-> IF Claimable(jobs[j], clock) THEN jobs[j] ELSE NoJob(j)]
        BY <1>4 DEF RunNext, store, TypeOK, WorkerOK
    <2>2. ASSUME NEW j \in Jobs
          PROVE  /\ SamePlan(candidates[w][j])'
                 /\ candidates'[w][j].status \in {"absent", "ready", "retry_wait"}
        <3>1. CASE Claimable(jobs[j], clock)
            <4>1. candidates'[w][j] = jobs[j] /\ jobs[j].job_id = j
                BY <2>1, <3>1 DEF TypeOK, StoreOK
            <4> QED
                BY <2>1, <3>1, <4>1 DEF SamePlan, Claimable
        <3>2. CASE ~Claimable(jobs[j], clock)
            <4>1. candidates'[w][j] = NoJob(j)
                BY <2>1, <3>2
            <4> QED
                BY <4>1, NoJobNew DEF SamePlan, Approved
        <3> QED
            BY <3>1, <3>2
    <2> QED
        BY <2>1, <2>2 DEF ApprovalBy, ExecutingAt
<1>5. CASE ReadCheckpoint(w)
    <2>1. PICK i \in Jobs : NextCandidate(w, i) /\ Reauthorized(candidates[w][i], now[w])
        BY <1>5 DEF ReadCheckpoint
    <2>2. pc'[w] = "claim" /\ UNCHANGED <<candidates, now>>
        BY <1>5 DEF ReadCheckpoint, TypeOK, WorkerOK
    <2>3. \A k \in Jobs : NextCandidate(w, k)' => k = i
        BY <2>1, <2>2, OneCandidate DEF NextCandidate
    <2> QED
        BY <1>2, <2>1, <2>2, <2>3 DEF ApprovalBy, Reauthorized, ExecutingAt
<1>6. CASE Claim(w)
    <2>1. PICK i \in Jobs :
            /\ NextCandidate(w, i)
            /\ Claimable(jobs[i], now[w])
            /\ jobs' = [jobs EXCEPT ![i] =
                 [jobs[i] EXCEPT !.status = "running",
                                 !.attempt_count = jobs[i].attempt_count + 1,
                                 !.next_retry_at = 0]]
            /\ claimed' = [claimed EXCEPT ![w] =
                 [jobs[i] EXCEPT !.status = "running",
                                 !.attempt_count = jobs[i].attempt_count + 1,
                                 !.next_retry_at = 0]]
        BY <1>6, Zenon DEF Claim
    <2>2. /\ pc[w] = "claim" /\ pc'[w] = "execute" /\ candidates'[w] = NoRows /\ now' = now
        BY <1>6 DEF Claim, TypeOK, WorkerOK
    <2>3. /\ claimed'[w].job_id = i /\ claimed'[w] = jobs'[i]
          /\ claimed'[w].plan = jobs[i].plan /\ claimed'[w].approval = jobs[i].approval
        BY <2>1 DEF TypeOK, StoreOK, WorkerOK, Job
    <2>4. SamePlan(claimed[w])'
        BY <2>3 DEF SamePlan
    <2>5. jobs[i].plan = candidates[w][i].plan /\ jobs[i].approval = candidates[w][i].approval
        <3>1. candidates[w][i].status \in Approved /\ SamePlan(candidates[w][i])
            BY <1>0, <2>1 DEF NextCandidate, ApprovalBy, Approved
        <3>2. jobs[i].status \notin TerminalStatuses
            BY <2>1 DEF Claimable, TerminalStatuses
        <3> QED
            BY <1>0, <3>1, <3>2 DEF SamePlan
    <2>6. jobs[i].plan = "approval_required" => Matches(jobs[i].approval, now[w])
        BY <1>0, <2>1, <2>2, <2>5 DEF ApprovalBy
    <2> QED
        BY <1>1, <2>2, <2>3, <2>4, <2>6 DEF ApprovalBy
<1>7. CASE ClaimLost(w)
    <2>1. CASE Return(w)
        BY <1>3, <2>1
    <2>2. CASE ~Return(w)
        <3>1. PICK j \in Jobs :
                /\ pc' = [pc EXCEPT ![w] = "candidate"]
                /\ candidates' = [candidates EXCEPT ![w] =
                                     [candidates[w] EXCEPT ![j] = NoJob(j)]]
            BY <1>7, <2>2 DEF ClaimLost
        <3>2. pc'[w] = "candidate" /\ \A i \in Jobs :
                candidates'[w][i] = candidates[w][i] \/ candidates'[w][i] = NoJob(i)
            BY <3>1 DEF TypeOK, WorkerOK
        <3>3. \A i \in Jobs : /\ SamePlan(candidates[w][i])'
                              /\ candidates'[w][i].status \in {"absent", "ready", "retry_wait"}
            <4> SUFFICES ASSUME NEW i \in Jobs
                         PROVE  /\ SamePlan(candidates[w][i])'
                                /\ candidates'[w][i].status \in {"absent", "ready", "retry_wait"}
                OBVIOUS
            <4>1. CASE candidates'[w][i] = candidates[w][i]
                BY <1>0, <4>1, SamePlanStays DEF SamePlan, ApprovalBy
            <4>2. CASE candidates'[w][i] = NoJob(i)
                BY <4>2, NoJobNew DEF SamePlan, Approved
            <4> QED
                BY <3>2, <4>1, <4>2
        <3> QED
            BY <3>2, <3>3 DEF ApprovalBy, ExecutingAt
    <2> QED
        BY <2>1, <2>2
<1>8. CASE \/ ConnectorBatch(w) \/ ConnectorCall(w)
           \/ \E error \in Errors : ConnectorFailure(w, error) \/ VerificationFailure(w, error)
           \/ StartVerification(w) \/ VerificationUnsupported(w)
           \/ \E result \in Results : CompleteVerification(w, result)
    <2>1. /\ pc[w] \in ExecutingAt /\ pc'[w] # "claim"
          /\ UNCHANGED <<candidates, claimed, now>>
        BY <1>8 DEF ConnectorBatch, ConnectorCall, ConnectorFailure, VerificationFailure,
            StartVerification, VerificationUnsupported, CompleteVerification, ExecutingAt,
            TypeOK, WorkerOK
    <2>2. SamePlan(claimed[w])'
        BY <1>0, <2>1, SamePlanStays DEF SamePlan, ApprovalBy
    <2> QED
        BY <1>0, <1>2, <2>1, <2>2 DEF ApprovalBy
<1>9. CASE \/ Block(w) \/ ClaimConflict(w) \/ WorkerCrash(w)
           \/ SaveCheckpoint(w) \/ Finish(w) \/ HandleError(w)
    BY <1>3, <1>9, Ending DEF Block, ClaimConflict, WorkerCrash
<1> QED
    BY <1>3, <1>4, <1>5, <1>6, <1>7, <1>8, <1>9 DEF WorkerStep

LEMMA ApprovalNext ==
    ApprovalInv /\ OperatorInv /\ ExecutionInv /\ TypeOK /\ TypeOK' /\ [Next]_vars => ApprovalInv'
<1> SUFFICES ASSUME ApprovalInv, OperatorInv, ExecutionInv, TypeOK, TypeOK', [Next]_vars
             PROVE  ApprovalInv'
    OBVIOUS
<1>1. \A o \in Operators : SamePlan(op[o].row)'
    BY ApprovalOperators
<1>2. \A w \in Workers : ApprovalBy(w)'
    <2>1. CASE UNCHANGED worker
        BY <2>1, ApprovalRest DEF Locals, worker
    <2> QED
        BY <2>1, OthersRest, ApprovalRest, ApprovalMover
<1> QED
    BY <1>1, <1>2 DEF ApprovalInv

\* A job that requires approval never executes without one that matched when its
\* worker was called, although the worker checks the row it read and claim() takes
\* the row as it is by then (worker.py run_next, policy.py, storage.py claim).
THEOREM ApprovedOnly == Spec => []ApprovedExecution
<1>1. ApprovalInv => ApprovedExecution
    BY DEF ApprovalInv, ApprovalBy, ApprovedExecution
<1> QED
    BY <1>1, TypeInit, TypeNext, ExecutionInit, ExecutionNext, OperatorInit, OperatorNext,
       ApprovalInit, ApprovalNext, PTL DEF Spec

(***************************************************************************)
(* Serial recovery                                                         *)
(***************************************************************************)

\* A recovery under way is the only one of its job, holds the row as the table has
\* it, and once the checkpoints were compared they agree.
RecoveryOf(o, j) ==
    /\ Stranded(j)
    /\ jobs[j] = op[o].row
    /\ \A p \in Operators : Recovering(p, j) => p = o
    /\ op[o].step = "write" =>
          checkpoints[j] # 0 /\ checkpoints[j] = op[o].row.checkpoint_id

RecoveryInv == \A o \in Operators, j \in Jobs : Recovering(o, j) => RecoveryOf(o, j)

\* A worker executes the row the table has.
LeaseInv ==
    /\ RecoveryInv
    /\ \A w \in Workers : pc[w] \in ExecutingAt => jobs[claimed[w].job_id] = claimed[w]

LEMMA LeaseInit == Init => LeaseInv
<1> SUFFICES ASSUME Init PROVE LeaseInv
    OBVIOUS
<1>1. RecoveryInv
    BY DEF Init, RecoveryInv, Recovering, IdleOp
<1> QED
    BY <1>1 DEF Init, LeaseInv, ExecutingAt

\* A running row is written by the worker that executes it or by a recovery.
LEMMA RunningWritten ==
    ASSUME TypeOK, OperatorInv, [Next]_vars, NEW j \in Jobs,
           jobs[j].status = "running", jobs'[j] # jobs[j]
    PROVE  \/ \E w \in Workers : Ended(w, j)
           \/ \E o \in Operators : CalledBack(o, j) /\ op[o].kind = "recover"
<1>1. ~Created(j)
    BY DEF Created
<1>2. \A o \in Operators : CalledBack(o, j) => op[o].kind = "recover"
    <2> SUFFICES ASSUME NEW o \in Operators, CalledBack(o, j) PROVE op[o].kind = "recover"
        OBVIOUS
    <2>1. op[o] # IdleOp /\ "running" \in Allowed(op[o].kind)
        BY DEF CalledBack, IdleOp
    <2>2. op[o].kind \in AllKinds
        BY <2>1 DEF OperatorInv
    <2> QED
        BY <2>1, <2>2, AllowedStatuses
<1>3. \A w \in Workers : ~Blocked(w, j) /\ ~Taken(w, j)
    BY DEF Blocked, Taken, Claimable
<1> QED
    BY <1>1, <1>2, <1>3, RowWritten

\* A worker comes to execute a job by its claim only, and then holds the row it wrote.
LEMMA ExecutesNew ==
    ASSUME TypeOK, [Next]_vars, NEW w \in Workers, pc'[w] \in ExecutingAt
    PROVE  \/ pc[w] \in ExecutingAt /\ claimed'[w] = claimed[w]
           \/ \E j \in Jobs : /\ Claimable(jobs[j], now[w])
                              /\ claimed'[w].job_id = j
                              /\ jobs'[j] = claimed'[w]
<1>1. CASE UNCHANGED Locals(w)
    BY <1>1 DEF Locals
<1>2. CASE WorkerStep(w) \/ WorkerCrash(w)
    <2>1. CASE Claim(w)
        <3>1. PICK i \in Jobs :
                /\ Claimable(jobs[i], now[w])
                /\ jobs' = [jobs EXCEPT ![i] =
                     [jobs[i] EXCEPT !.status = "running",
                                     !.attempt_count = jobs[i].attempt_count + 1,
                                     !.next_retry_at = 0]]
                /\ claimed' = [claimed EXCEPT ![w] =
                     [jobs[i] EXCEPT !.status = "running",
                                     !.attempt_count = jobs[i].attempt_count + 1,
                                     !.next_retry_at = 0]]
            BY <2>1, Zenon DEF Claim
        <3>2. claimed'[w].job_id = i /\ claimed'[w] = jobs'[i]
            BY <3>1 DEF TypeOK, StoreOK, WorkerOK, Job
        <3> QED
            BY <3>1, <3>2
    <2>2. CASE \/ ConnectorBatch(w) \/ ConnectorCall(w)
               \/ \E error \in Errors : ConnectorFailure(w, error) \/ VerificationFailure(w, error)
               \/ StartVerification(w) \/ VerificationUnsupported(w)
               \/ \E result \in Results : CompleteVerification(w, result)
        BY <2>2 DEF ConnectorBatch, ConnectorCall, ConnectorFailure, VerificationFailure,
            StartVerification, VerificationUnsupported, CompleteVerification, ExecutingAt
    <2>3. CASE RunNext(w) \/ ReadCheckpoint(w) \/ ClaimLost(w)
        BY <2>3 DEF RunNext, ReadCheckpoint, ClaimLost, Return, ExecutingAt, TypeOK, WorkerOK
    <2>4. CASE \/ Block(w) \/ ClaimConflict(w) \/ WorkerCrash(w)
               \/ SaveCheckpoint(w) \/ Finish(w) \/ HandleError(w)
        BY <2>4, Ending, Returned DEF Block, ClaimConflict, WorkerCrash
    <2> QED
        BY <1>2, <2>1, <2>2, <2>3, <2>4 DEF WorkerStep
<1> QED
    BY <1>1, <1>2, OthersRest DEF Locals, worker

\* What a step makes of one operator's call.
LEMMA CallMoves ==
    ASSUME TypeOK, [Next]_vars, NEW o \in Operators
    PROVE  \/ op'[o] = op[o]
           \/ op'[o] = IdleOp
           \/ /\ CompareCheckpoint(o)
              /\ op'[o] = [op[o] EXCEPT !.step = "write"]
              /\ checkpoints[op[o].row.job_id] # 0
              /\ checkpoints[op[o].row.job_id] = op[o].row.checkpoint_id
           \/ \E j \in Jobs, kind \in AllKinds :
                /\ ReadJob(o, kind, j)
                /\ op'[o] = [kind |-> kind, row |-> jobs[j],
                             step |-> IF kind = "recover" THEN "compare" ELSE "write"]
                /\ \A p \in Operators : p # o => op'[p] = op[p]
           \/ op'[o].kind = "bind_approval"
<1>1. CASE UNCHANGED op
    BY <1>1
<1>2. CASE \E p \in Operators : WriteJob(p) \/ OperatorCrash(p)
    BY <1>2 DEF WriteJob, OperatorCrash, TypeOK, OperatorOK
<1>3. CASE \E p \in Operators : CompareCheckpoint(p)
    BY <1>3 DEF CompareCheckpoint, TypeOK, OperatorOK
<1>4. CASE \E p \in Operators, j \in Jobs : ServiceCall(p, j)
    <2>1. PICK p \in Operators, j \in Jobs : ServiceCall(p, j)
        BY <1>4
    <2>2. CASE p # o
        BY <2>1, <2>2 DEF ServiceCall, ReadJob, ReadForApproval, TypeOK, OperatorOK
    <2>3. CASE p = o
        BY <2>1, <2>3 DEF ServiceCall, ReadJob, ReadForApproval, TypeOK, OperatorOK
    <2> QED
        BY <2>2, <2>3
<1> QED
    BY <1>1, <1>2, <1>3, <1>4, OperatorsOnly DEF OperatorStep

\* While a recovery of a job is under way, nobody else writes its row, takes it or
\* moves its checkpoint.
LEMMA RecoveryKeeps ==
    ASSUME TypeOK, OperatorInv, LeaseInv, [Next]_vars, NEW o \in Operators,
           op[o].kind = "recover", op'[o].kind = "recover", op'[o].row = op[o].row
    PROVE  LET j == op[o].row.job_id
           IN  /\ jobs'[j] = jobs[j]
               /\ checkpoints'[j] = checkpoints[j]
               /\ Stranded(j)'
<1> DEFINE j == op[o].row.job_id
<1>1. j \in Jobs /\ Stranded(j) /\ jobs[j] = op[o].row
    BY DEF LeaseInv, RecoveryInv, RecoveryOf, Recovering, TypeOK, OperatorOK, Job
<1>2. jobs'[j] = jobs[j]
    <2> SUFFICES ASSUME jobs'[j] # jobs[j] PROVE FALSE
        OBVIOUS
    <2>1. \A w \in Workers : ~Ended(w, j)
        BY <1>1 DEF Stranded, Ended
    <2>2. ASSUME NEW p \in Operators, CalledBack(p, j), op[p].kind = "recover" PROVE FALSE
        <3>1. p = o
            BY <1>1, <2>2 DEF CalledBack, LeaseInv, RecoveryInv, RecoveryOf, Recovering
        <3>2. op'[o] = IdleOp
            BY <2>2, <3>1 DEF CalledBack, WriteJob, TypeOK, OperatorOK
        <3> QED
            BY <3>2 DEF IdleOp
    <2> QED
        BY <1>1, <2>1, <2>2, RunningWritten DEF Stranded
<1>3. checkpoints'[j] = checkpoints[j]
    BY <1>1, CheckpointWritten DEF Stranded
<1>4. \A w \in Workers : ~Executes(w, j)'
    <2> SUFFICES ASSUME NEW w \in Workers, pc'[w] \in ExecutingAt, claimed'[w].job_id = j
                 PROVE  FALSE
        BY DEF Executes
    <2>1. ~(pc[w] \in ExecutingAt /\ claimed'[w] = claimed[w])
        BY <1>1 DEF Stranded, Executes
    <2>2. ~Claimable(jobs[j], now[w])
        BY <1>1 DEF Stranded, Claimable
    <2> QED
        BY <2>1, <2>2, ExecutesNew
<1> QED
    BY <1>1, <1>2, <1>3, <1>4 DEF Stranded

LEMMA RecoveryNext ==
    ASSUME SerialRecovery, TypeOK, OperatorInv, LeaseInv, [Next]_vars
    PROVE  RecoveryInv'
<1> SUFFICES ASSUME NEW o \in Operators, NEW j \in Jobs, Recovering(o, j)'
             PROVE  RecoveryOf(o, j)'
    BY DEF RecoveryInv
<1>0. op'[o].kind = "recover" /\ op'[o].row.job_id = j
    BY DEF Recovering
<1>1. ASSUME NEW i \in Jobs, NEW kind \in AllKinds, ReadJob(o, kind, i),
             op'[o] = [kind |-> kind, row |-> jobs[i],
                       step |-> IF kind = "recover" THEN "compare" ELSE "write"],
             \A p \in Operators : p # o => op'[p] = op[p]
      PROVE  RecoveryOf(o, j)'
    <2>1. kind = "recover" /\ i = j /\ op'[o].row = jobs[j] /\ op'[o].step = "compare"
        BY <1>0, <1>1 DEF TypeOK, StoreOK
    <2>2. Stranded(j) /\ \A p \in Operators : ~Recovering(p, j)
        BY <1>1, <2>1 DEF ReadJob, RecoveryPermitted
    <2>3. jobs' = jobs /\ pc' = pc /\ claimed' = claimed
        BY <1>1 DEF ReadJob, store, worker
    <2>4. \A p \in Operators : Recovering(p, j)' => p = o
        BY <1>1, <2>2 DEF Recovering
    <2>5. Stranded(j)'
        BY <2>2, <2>3 DEF Stranded, Executes
    <2> QED
        BY <2>1, <2>3, <2>4, <2>5 DEF RecoveryOf
<1>2. ASSUME op'[o].kind = op[o].kind, op'[o].row = op[o].row,
             \/ op'[o].step = op[o].step
             \/ checkpoints[j] # 0 /\ checkpoints[j] = op[o].row.checkpoint_id
      PROVE  RecoveryOf(o, j)'
    <2>0. Recovering(o, j)
        BY <1>0, <1>2 DEF Recovering
    <2>1. jobs'[j] = jobs[j] /\ checkpoints'[j] = checkpoints[j] /\ Stranded(j)'
        BY <1>0, <1>2, RecoveryKeeps
    <2>2. RecoveryOf(o, j)
        BY <2>0 DEF LeaseInv, RecoveryInv
    <2>3. ASSUME NEW p \in Operators, Recovering(p, j)' PROVE p = o
        <3>0. op'[p].kind = "recover" /\ op'[p].row.job_id = j
            BY <2>3 DEF Recovering
        <3>1. CASE op'[p].kind = op[p].kind /\ op'[p].row = op[p].row
            BY <2>2, <3>0, <3>1 DEF Recovering, RecoveryOf
        <3>2. ASSUME NEW i \in Jobs, NEW kind \in AllKinds, ReadJob(p, kind, i),
                     op'[p] = [kind |-> kind, row |-> jobs[i],
                               step |-> IF kind = "recover" THEN "compare" ELSE "write"]
              PROVE  FALSE
            <4>1. kind = "recover" /\ i = j
                BY <3>0, <3>2 DEF TypeOK, StoreOK
            <4> QED
                BY <2>0, <3>2, <4>1 DEF ReadJob, RecoveryPermitted
        <3>3. op'[p] # IdleOp /\ op'[p].kind # "bind_approval"
            BY <3>0 DEF IdleOp
        <3>4. op'[p] = [op[p] EXCEPT !.step = "write"] =>
                op'[p].kind = op[p].kind /\ op'[p].row = op[p].row
            BY DEF TypeOK, OperatorOK
        <3> QED
            BY <3>1, <3>2, <3>3, <3>4, CallMoves
    <2> QED
        BY <1>2, <2>1, <2>2, <2>3 DEF RecoveryOf
<1>3. op'[o] # IdleOp /\ op'[o].kind # "bind_approval"
    BY <1>0 DEF IdleOp
<1>4. op'[o] = [op[o] EXCEPT !.step = "write"] =>
        op'[o].kind = op[o].kind /\ op'[o].row = op[o].row
    BY DEF TypeOK, OperatorOK
<1> QED
    BY <1>0, <1>1, <1>2, <1>3, <1>4, CallMoves

LEMMA LeaseNext ==
    ASSUME SerialRecovery, TypeOK, ExecutionInv, OperatorInv, LeaseInv, [Next]_vars
    PROVE  LeaseInv'
<1>1. RecoveryInv'
    BY RecoveryNext
<1>2. ASSUME NEW w \in Workers, pc'[w] \in ExecutingAt
      PROVE  jobs'[claimed'[w].job_id] = claimed'[w]
    <2>1. CASE pc[w] \in ExecutingAt /\ claimed'[w] = claimed[w]
        <3> DEFINE j == claimed[w].job_id
        <3>1. j \in Jobs /\ jobs[j] = claimed[w] /\ jobs[j].status = "running" /\ Executes(w, j)
            BY <2>1 DEF LeaseInv, ExecutionInv, LatestAttempt, Executes, TypeOK, WorkerOK, Job
        <3>2. \A v \in Workers : ~Ended(v, j)
            <4> SUFFICES ASSUME NEW v \in Workers, Ended(v, j) PROVE FALSE
                OBVIOUS
            <4>1. v = w
                BY <3>1 DEF Ended, ExecutionInv, ExclusiveExecution
            <4>2. pc'[w] \notin ExecutingAt
                BY <4>1, Ending, Returned DEF Ended
            <4> QED
                BY <1>2, <4>2
        <3>3. \A o \in Operators : ~(CalledBack(o, j) /\ op[o].kind = "recover")
            BY <3>1 DEF CalledBack, LeaseInv, RecoveryInv, RecoveryOf, Recovering, Stranded
        <3> QED
            BY <2>1, <3>1, <3>2, <3>3, RunningWritten
    <2> QED
        BY <1>2, <2>1, ExecutesNew
<1> QED
    BY <1>1, <1>2 DEF LeaseInv

(***************************************************************************)
(* Attempts and audit trail                                                *)
(***************************************************************************)
TablesInv == OneOpenAttempt /\ AuditAgrees

LEMMA TablesInit == Init => TablesInv
BY DEF Init, TablesInv, OneOpenAttempt, AuditAgrees, NoRows, NoJob, NewJob

\* A transition keeps the attempts and the audit trail in step with the row when it
\* closes an attempt exactly if it ends the execution the row counts.
LEMMA TransitionTables ==
    ASSUME TypeOK, TablesInv, NEW row \in Job, NEW expected, NEW closes \in BOOLEAN,
           Transition(row, expected, closes), row.status # "running",
           closes => row.attempt_count = jobs[row.job_id].attempt_count,
           ~closes => jobs[row.job_id].status # "running"
    PROVE  TablesInv'
<1> DEFINE j == row.job_id
<1>1. j \in Jobs
    BY DEF Job
<1>2. /\ jobs'[j] = row /\ audit'[j] = row.status
      /\ open_attempts'[j] = IF closes THEN open_attempts[j] \ {row.attempt_count}
                             ELSE open_attempts[j]
    BY <1>1 DEF Transition, Log, TypeOK, StoreOK
<1>3. \A i \in Jobs : i # j => /\ jobs'[i] = jobs[i] /\ audit'[i] = audit[i]
                               /\ open_attempts'[i] = open_attempts[i]
    BY <1>1 DEF Transition, Log, TypeOK, StoreOK
<1>4. open_attempts'[j] = {}
    BY <1>1, <1>2 DEF TablesInv, OneOpenAttempt
<1> QED
    BY <1>2, <1>3, <1>4 DEF TablesInv, OneOpenAttempt, AuditAgrees

LEMMA TablesNext ==
    ASSUME TypeOK, TypeOK', ExecutionInv, OperatorInv, LeaseInv, TablesInv, [Next]_vars
    PROVE  TablesInv'
<1>0. UNCHANGED <<jobs, open_attempts, audit>> => TablesInv'
    BY DEF TablesInv, OneOpenAttempt, AuditAgrees
<1>1. CASE \E j \in Jobs : CreateAny(j)
    <2>1. PICK j \in Jobs, status \in {"planned", "awaiting_approval", "ready"},
               operation \in Operations, plan \in JobPlans, approval \in Approvals :
               Create(j, status, operation, plan, approval)
        BY <1>1 DEF CreateAny
    <2> DEFINE row == NewJob(j, status, operation, plan, approval)
    <2>2. /\ jobs[j].status = "absent" /\ jobs' = [jobs EXCEPT ![j] = row]
          /\ audit' = [audit EXCEPT ![j] = status] /\ UNCHANGED open_attempts
          /\ row.status = status
        BY <2>1 DEF Create, NewJob
    <2> HIDE DEF row
    <2>3. /\ jobs'[j] = row /\ audit'[j] = status
          /\ \A i \in Jobs : i # j => jobs'[i] = jobs[i] /\ audit'[i] = audit[i]
        BY <2>2 DEF TypeOK, StoreOK
    <2> QED
        BY <2>2, <2>3 DEF TablesInv, OneOpenAttempt, AuditAgrees
<1>2. CASE \E o \in Operators : WriteJob(o)
    <2>1. PICK o \in Operators : WriteJob(o)
        BY <1>2
    <2> DEFINE kind == op[o].kind
               new == [op[o].row EXCEPT !.status = Target(kind)]
    <2>2. /\ op[o].row \in Job /\ new \in Job /\ new.job_id = op[o].row.job_id
          /\ new.status = Target(kind) /\ new.attempt_count = op[o].row.attempt_count
        BY TargetType, RowStatus DEF TypeOK, OperatorOK
    <2>3. kind \in AllKinds /\ Target(kind) # "running"
        BY <2>1 DEF WriteJob, OperatorInv, IdleOp, Target
    <2>4. CASE Refused(op[o].row, Allowed(kind))
        BY <1>0, <2>4 DEF Refused, store
    <2>5. CASE Transition(new, Allowed(kind), kind = "recover")
        <3>1. kind = "recover" => new.attempt_count = jobs[new.job_id].attempt_count
            BY <2>2 DEF LeaseInv, RecoveryInv, RecoveryOf, Recovering, Job
        <3>2. jobs[new.job_id].status \in Allowed(kind)
            BY <2>5 DEF Transition
        <3>3. kind # "recover" => jobs[new.job_id].status # "running"
            BY <2>3, <3>2, AllowedStatuses
        <3> HIDE DEF new, kind
        <3> DEFINE closes == kind = "recover"
        <3>4. closes \in BOOLEAN
            OBVIOUS
        <3>5. Transition(new, Allowed(kind), closes)
            BY <2>5
        <3> HIDE DEF closes
        <3>6. (closes => new.attempt_count = jobs[new.job_id].attempt_count)
              /\ (~closes => jobs[new.job_id].status # "running")
            BY <3>1, <3>3 DEF closes
        <3> QED
            BY <2>2, <2>3, <3>4, <3>5, <3>6, TransitionTables
    <2> QED
        BY <2>1, <2>4, <2>5 DEF WriteJob
<1>3. CASE \E w \in Workers : Block(w)
    <2>1. PICK w \in Workers, j \in Jobs :
            \/ Transition([candidates[w][j] EXCEPT !.status = "blocked"],
                          {"ready", "retry_wait"}, FALSE)
            \/ Refused(candidates[w][j], {"ready", "retry_wait"})
        BY <1>3 DEF Block
    <2> DEFINE new == [candidates[w][j] EXCEPT !.status = "blocked"]
    <2>2. new \in Job /\ new.status = "blocked"
        <3>1. candidates[w][j] \in Job /\ "blocked" \in Statuses
            BY DEF TypeOK, WorkerOK, Statuses
        <3> QED
            BY <3>1, RowStatus
    <2> HIDE DEF new
    <2>3. CASE Transition(new, {"ready", "retry_wait"}, FALSE)
        <3>1. jobs[new.job_id].status # "running"
            BY <2>3 DEF Transition
        <3> QED
            BY <2>2, <2>3, <3>1, TransitionTables
    <2> QED
        BY <1>0, <2>1, <2>3 DEF Refused, store, new
<1>4. CASE \E w \in Workers : Claim(w)
    <2>1. PICK w \in Workers, j \in Jobs :
            LET n == jobs[j].attempt_count + 1
            IN  /\ Claimable(jobs[j], now[w])
                /\ jobs' = [jobs EXCEPT ![j] =
                     [jobs[j] EXCEPT !.status = "running", !.attempt_count = n,
                                     !.next_retry_at = 0]]
                /\ open_attempts' = [open_attempts EXCEPT ![j] = @ \cup {n}]
                /\ audit' = [audit EXCEPT ![j] = "running"]
        BY <1>4, Zenon DEF Claim, Log
    <2> DEFINE n == jobs[j].attempt_count + 1
    <2>2. jobs'[j].status = "running" /\ jobs'[j].attempt_count = n
        BY <2>1 DEF TypeOK, StoreOK, Job
    <2>3. open_attempts[j] = {} /\ open_attempts'[j] = open_attempts[j] \cup {n}
        BY <2>1 DEF Claimable, TablesInv, OneOpenAttempt, TypeOK, StoreOK
    <2>4. /\ audit'[j] = "running"
          /\ \A i \in Jobs : i # j => /\ jobs'[i] = jobs[i] /\ audit'[i] = audit[i]
                                      /\ open_attempts'[i] = open_attempts[i]
        BY <2>1 DEF TypeOK, StoreOK
    <2> HIDE DEF n
    <2> QED
        BY <2>2, <2>3, <2>4 DEF TablesInv, OneOpenAttempt, AuditAgrees
<1>5. CASE \E w \in Workers : SaveCheckpoint(w) \/ Finish(w) \/ HandleError(w)
    <2>1. PICK w \in Workers : SaveCheckpoint(w) \/ Finish(w) \/ HandleError(w)
        BY <1>5
    <2>2. PICK row \in Outcome(w) :
            Transition(row, {"running"}, TRUE) \/ Refused(row, {"running"})
        BY <2>1, Ending
    <2>3. /\ row \in Job /\ row.job_id = claimed[w].job_id
          /\ row.attempt_count = claimed[w].attempt_count /\ row.status # "running"
        BY OutcomeType DEF TypeOK, TerminalStatuses
    <2>4. jobs[claimed[w].job_id] = claimed[w]
        BY <2>1, Ending DEF LeaseInv
    <2>5. CASE Refused(row, {"running"})
        BY <1>0, <2>5 DEF Refused, store
    <2> QED
        BY <2>2, <2>3, <2>4, <2>5, TransitionTables
<1>6. CASE \E w \in Workers : \/ StartVerification(w)
                              \/ \E result \in Results : CompleteVerification(w, result)
    <2>1. PICK w \in Workers : /\ pc[w] \in ExecutingAt
                               /\ Log(claimed[w].job_id, "running")
                               /\ UNCHANGED <<jobs, open_attempts>>
        BY <1>6 DEF StartVerification, CompleteVerification, ExecutingAt
    <2>2. /\ claimed[w].job_id \in Jobs /\ jobs[claimed[w].job_id] = claimed[w]
          /\ claimed[w].status = "running"
        BY <2>1 DEF LeaseInv, ExecutionInv, LatestAttempt, TypeOK, WorkerOK, Job
    <2> QED
        BY <2>1, <2>2 DEF Log, TablesInv, OneOpenAttempt, AuditAgrees, TypeOK, StoreOK
<1>7. \/ \E j \in Jobs : CreateAny(j)
      \/ \E o \in Operators : WriteJob(o)
      \/ \E w \in Workers : \/ Block(w) \/ Claim(w) \/ SaveCheckpoint(w) \/ Finish(w)
                            \/ HandleError(w) \/ StartVerification(w)
                            \/ \E result \in Results : CompleteVerification(w, result)
      \/ UNCHANGED <<jobs, open_attempts, audit>>
    <2>1. CASE \E i \in Jobs : Creator(i) \/ AuthorityChange(i)
        BY <2>1 DEF Creator, AppendPlanBound, CreatorCrash, AuthorityChange, store
    <2>2. CASE \E o \in Operators :
            (\E i \in Jobs : ServiceCall(o, i)) \/ OperatorStep(o) \/ OperatorCrash(o)
        BY <2>2 DEF ServiceCall, ReadJob, ReadForApproval, OperatorStep, CompareCheckpoint,
            OperatorCrash, store
    <2>3. CASE \E w \in Workers : WorkerStep(w)
        BY <2>3 DEF WorkerStep, RunNext, ReadCheckpoint, ClaimLost, ClaimConflict,
            ConnectorBatch, ConnectorCall, ConnectorFailure, VerificationFailure,
            VerificationUnsupported, store
    <2>4. CASE \E w \in Workers : WorkerCrash(w)
        BY <2>4 DEF WorkerCrash, store
    <2>5. CASE Tick \/ UNCHANGED vars
        BY <2>5 DEF Tick, vars, store
    <2> QED
        BY <2>1, <2>2, <2>3, <2>4, <2>5 DEF Next
<1> QED
    BY <1>0, <1>1, <1>2, <1>3, <1>4, <1>5, <1>6, <1>7

\* The invariants that hold when no job is recovered by two operators at once.
SerialInv == TypeOK /\ ExecutionInv /\ OperatorInv /\ LeaseInv /\ TablesInv

LEMMA SerialInvariant == ASSUME SerialRecovery PROVE Spec => []SerialInv
<1>1. Init => SerialInv
    BY TypeInit, ExecutionInit, OperatorInit, LeaseInit, TablesInit DEF SerialInv
<1>2. SerialInv /\ [Next]_vars => SerialInv'
    BY TypeNext, ExecutionNext, OperatorNext, LeaseNext, TablesNext DEF SerialInv
<1> QED
    BY <1>1, <1>2, PTL DEF Spec

\* When operators do not recover one job concurrently, a running job has exactly the
\* one open attempt its row counts and every other job has none (storage.py claim,
\* transition; service.py recover_interrupted).
THEOREM AttemptsAccounted == ASSUME SerialRecovery PROVE Spec => []OneOpenAttempt
<1>1. SerialInv => OneOpenAttempt
    BY DEF SerialInv, TablesInv
<1> QED
    BY <1>1, SerialInvariant, PTL

\* Under the same condition the audit trail never contradicts the row, although the
\* verification events are appended without reading it (worker.py _execute,
\* storage.py append_event).
THEOREM AuditTruthful == ASSUME SerialRecovery PROVE Spec => []AuditAgrees
<1>1. SerialInv => AuditAgrees
    BY DEF SerialInv, TablesInv
<1> QED
    BY <1>1, SerialInvariant, PTL

\* Under the same condition a job whose worker died is put back only from the stored
\* checkpoint its row names (service.py recover_interrupted).
THEOREM Recovered == ASSUME SerialRecovery PROVE Spec => RecoveredFromCheckpoint
<1>1. ASSUME SerialInv, [Next]_vars, NEW j \in Jobs, Stranded(j), jobs'[j].status # "running"
      PROVE  checkpoints[j] # 0 /\ checkpoints[j] = jobs[j].checkpoint_id
    <2>1. jobs[j].status = "running" /\ jobs'[j] # jobs[j]
        BY <1>1 DEF Stranded
    <2>2. \A w \in Workers : ~Ended(w, j)
        BY <1>1 DEF Ended, Stranded
    <2>3. PICK o \in Operators : CalledBack(o, j) /\ op[o].kind = "recover"
        BY <1>1, <2>1, <2>2, RunningWritten DEF SerialInv
    <2> QED
        BY <1>1, <2>3 DEF CalledBack, SerialInv, LeaseInv, RecoveryInv, RecoveryOf, Recovering
<1>2. SerialInv /\ [Next]_vars =>
        [\A j \in Jobs : Stranded(j) /\ jobs'[j].status # "running"
            => checkpoints[j] # 0 /\ checkpoints[j] = jobs[j].checkpoint_id]_vars
    BY <1>1
<1> QED
    BY <1>2, SerialInvariant, PTL DEF Spec, RecoveredFromCheckpoint

(***************************************************************************)
(* Jobs implements JobLease                                                *)
(***************************************************************************)

\* Exclusive execution makes the lessee of a job the worker that executes it.
LEMMA LesseeIs ==
    ASSUME ExclusiveExecution, NEW j \in Jobs
    PROVE  /\ \A w \in Workers : Executes(w, j) => Lessee[j] = w
           /\ (\A w \in Workers : ~Executes(w, j)) => Lessee[j] = Nobody
<1>1. ASSUME NEW w \in Workers, Executes(w, j) PROVE Lessee[j] = w
    <2>1. Lessee[j] = CHOOSE v \in Workers : Executes(v, j)
        BY <1>1 DEF Lessee
    <2>2. Lessee[j] \in Workers /\ Executes(Lessee[j], j)
        BY <1>1, <2>1
    <2> QED
        BY <1>1, <2>2 DEF ExclusiveExecution
<1>2. (\A w \in Workers : ~Executes(w, j)) => Lessee[j] = Nobody
    BY DEF Lessee
<1> QED
    BY <1>1, <1>2

LEMMA LesseeIsNext ==
    ASSUME ExclusiveExecution', NEW j \in Jobs
    PROVE  /\ \A w \in Workers : Executes(w, j)' => Lessee'[j] = w
           /\ (\A w \in Workers : ~Executes(w, j)') => Lessee'[j] = Nobody
<1>1. ASSUME NEW w \in Workers, Executes(w, j)' PROVE Lessee'[j] = w
    <2>1. Lessee'[j] = CHOOSE v \in Workers : Executes(v, j)'
        BY <1>1 DEF Lessee
    <2>2. PICK u \in Workers : u = Lessee'[j] /\ Executes(u, j)'
        BY <1>1, <2>1
    <2>3. u = w
        BY <1>1, <2>2 DEF ExclusiveExecution
    <2> QED
        BY <2>2, <2>3
<1>2. (\A w \in Workers : ~Executes(w, j)') => Lessee'[j] = Nobody
    BY DEF Lessee
<1> QED
    BY <1>1, <1>2

\* The lessees change where executions begin or end.
LEMMA LesseeMoves ==
    ASSUME ExclusiveExecution, ExclusiveExecution', NEW S \in SUBSET Jobs,
           \A w \in Workers, j \in Jobs \ S : Executes(w, j)' <=> Executes(w, j)
    PROVE  \A j \in Jobs \ S : Lessee'[j] = Lessee[j]
<1> SUFFICES ASSUME NEW j \in Jobs \ S PROVE Lessee'[j] = Lessee[j]
    OBVIOUS
<1>1. CASE \E w \in Workers : Executes(w, j)
    BY <1>1, LesseeIs, LesseeIsNext
<1>2. CASE \A w \in Workers : ~Executes(w, j)
    BY <1>2, LesseeIs, LesseeIsNext
<1> QED
    BY <1>1, <1>2

LEMMA LesseeStays ==
    ASSUME ExclusiveExecution, ExclusiveExecution',
           \A w \in Workers, j \in Jobs : Executes(w, j)' <=> Executes(w, j)
    PROVE  Lessee' = Lessee
<1>1. \A j \in Jobs : Lessee'[j] = Lessee[j]
    <2>1. {} \in SUBSET Jobs /\ Jobs \ {} = Jobs
        OBVIOUS
    <2> QED
        BY <2>1, LesseeMoves, Zenon
<1>2. Lessee = [j \in Jobs |-> Lessee[j]] /\ Lessee' = [j \in Jobs |-> Lessee'[j]]
    BY DEF Lessee
<1> QED
    BY <1>1, <1>2

LEMMA LesseeChanges ==
    ASSUME ExclusiveExecution, ExclusiveExecution', NEW j \in Jobs, NEW value,
           \A w \in Workers, i \in Jobs : i # j => (Executes(w, i)' <=> Executes(w, i)),
           Lessee'[j] = value
    PROVE  Lessee' = [Lessee EXCEPT ![j] = value]
<1>1. \A i \in Jobs : i # j => Lessee'[i] = Lessee[i]
    <2>1. {j} \in SUBSET Jobs /\ \A i \in Jobs : i # j <=> i \in Jobs \ {j}
        OBVIOUS
    <2> QED
        BY <2>1, LesseeMoves, Zenon
<1>2. Lessee = [i \in Jobs |-> Lessee[i]] /\ Lessee' = [i \in Jobs |-> Lessee'[i]]
    BY DEF Lessee
<1> QED
    BY <1>1, <1>2

\* A write of one row moves the status of that job.
LEMMA StatusMoves ==
    ASSUME TypeOK, NEW j \in Jobs, \A i \in Jobs : i # j => jobs'[i] = jobs[i]
    PROVE  /\ JobStatus' = [JobStatus EXCEPT ![j] = jobs'[j].status]
           /\ JobStatus[j] = jobs[j].status
BY DEF JobStatus

\* A worker that leaves run_next ends its execution and no other.
LEMMA ReturnLessee ==
    ASSUME TypeOK, ExclusiveExecution, ExclusiveExecution', NEW w \in Workers, Return(w)
    PROVE  /\ pc[w] \notin ExecutingAt => Lessee' = Lessee
           /\ pc[w] \in ExecutingAt =>
                 /\ Lessee[claimed[w].job_id] = w
                 /\ Lessee' = [Lessee EXCEPT ![claimed[w].job_id] = Nobody]
<1>1. \A v \in Workers, j \in Jobs : Executes(v, j)' <=> (v # w /\ Executes(v, j))
    BY Returned DEF Executes
<1>2. CASE pc[w] \notin ExecutingAt
    BY <1>1, <1>2, LesseeStays DEF Executes
<1>3. CASE pc[w] \in ExecutingAt
    <2>0. PICK j \in Jobs : j = claimed[w].job_id
        BY DEF TypeOK, WorkerOK, Job
    <2>1. Executes(w, j)
        BY <1>3, <2>0 DEF Executes
    <2>2. \A v \in Workers : ~Executes(v, j)'
        BY <1>1, <2>1 DEF ExclusiveExecution
    <2>3. \A v \in Workers, i \in Jobs : i # j => (Executes(v, i)' <=> Executes(v, i))
        BY <1>1, <2>0 DEF Executes
    <2>4. Lessee'[j] = Nobody /\ Lessee[j] = w
        BY <2>1, <2>2, LesseeIs, LesseeIsNext
    <2>5. Lessee' = [Lessee EXCEPT ![j] = Nobody]
        BY <2>3, <2>4, LesseeChanges
    <2> QED
        BY <1>3, <2>0, <2>4, <2>5
<1> QED
    BY <1>2, <1>3

LEMMA LeasesInit == Init => Leases!Init
<1> SUFFICES ASSUME Init PROVE Leases!Init
    OBVIOUS
<1>1. \A w \in Workers, j \in Jobs : ~Executes(w, j)
    BY DEF Init, Executes, ExecutingAt
<1>2. Lessee = [j \in Jobs |-> Nobody]
    BY <1>1 DEF Lessee
<1>3. JobStatus = [j \in Jobs |-> "absent"]
    BY DEF Init, JobStatus, NoRows, NoJob, NewJob
<1> QED
    BY <1>2, <1>3 DEF Leases!Init

LEMMA LeasesNext ==
    ASSUME SerialInv, SerialInv', [Next]_vars
    PROVE  [Leases!Next]_(Leases!leaseVars)
<1> USE DEF SerialInv
<1>0. TypeOK /\ ExclusiveExecution /\ ExclusiveExecution'
    BY DEF ExecutionInv
<1>a. UNCHANGED worker => Lessee' = Lessee
    BY <1>0, LesseeStays DEF worker, Executes
<1>b. jobs' = jobs => JobStatus' = JobStatus
    BY DEF JobStatus
<1>1. CASE \E j \in Jobs : CreateAny(j)
    <2>1. PICK j \in Jobs, status \in {"planned", "awaiting_approval", "ready"},
               operation \in Operations, plan \in JobPlans, approval \in Approvals :
               Create(j, status, operation, plan, approval)
        BY <1>1 DEF CreateAny
    <2> DEFINE row == NewJob(j, status, operation, plan, approval)
    <2>2. /\ jobs[j].status = "absent" /\ jobs' = [jobs EXCEPT ![j] = row]
          /\ UNCHANGED worker /\ row.status = status
        BY <2>1 DEF Create, NewJob
    <2> HIDE DEF row
    <2>3. JobStatus' = [JobStatus EXCEPT ![j] = status] /\ JobStatus[j] = "absent"
        <3>1. jobs'[j].status = status /\ \A i \in Jobs : i # j => jobs'[i] = jobs[i]
            BY <2>2 DEF TypeOK, StoreOK
        <3> QED
            BY <1>0, <2>2, <3>1, StatusMoves
    <2>4. Leases!Submit(j)
        BY <1>a, <2>2, <2>3 DEF Leases!Submit, Leases!Move
    <2> QED
        BY <2>4 DEF Leases!Next
<1>2. CASE \E o \in Operators : WriteJob(o)
    <2>1. PICK o \in Operators : WriteJob(o)
        BY <1>2
    <2> DEFINE kind == op[o].kind
               new == [op[o].row EXCEPT !.status = Target(kind)]
               j == op[o].row.job_id
    <2>2. j \in Jobs /\ new.job_id = j /\ new.status = Target(kind)
        BY TargetType, RowStatus DEF TypeOK, OperatorOK, Job
    <2>3. kind \in AllKinds /\ UNCHANGED worker
        BY <2>1 DEF WriteJob, OperatorInv, IdleOp
    <2>4. CASE Refused(op[o].row, Allowed(kind))
        BY <1>a, <1>b, <2>3, <2>4 DEF Refused, store, Leases!leaseVars
    <2>5. CASE Transition(new, Allowed(kind), kind = "recover")
        <3> HIDE DEF new
        <3>1. jobs[j].status \in Allowed(kind) /\ jobs' = [jobs EXCEPT ![j] = new]
            BY <2>2, <2>5 DEF Transition
        <3>2. JobStatus' = [JobStatus EXCEPT ![j] = Target(kind)] /\ JobStatus[j] \in Allowed(kind)
            <4>1. jobs'[j].status = Target(kind) /\ \A i \in Jobs : i # j => jobs'[i] = jobs[i]
                BY <2>2, <3>1 DEF TypeOK, StoreOK
            <4> QED
                BY <1>0, <2>2, <3>1, <4>1, StatusMoves
        <3>3. CASE kind \in {"bind_approval", "resume"}
            <4>1. Leases!Release(j)
                BY <1>a, <2>3, <3>2, <3>3
                   DEF Leases!Release, Leases!Move, Leases!Held, Allowed, Target
            <4> QED
                BY <2>2, <4>1 DEF Leases!Next
        <3>4. CASE kind = "pause"
            <4>1. Leases!Hold(j)
                BY <1>a, <2>3, <3>2, <3>4
                   DEF Leases!Hold, Leases!Move, Leases!Held, Leases!Waiting, Allowed, Target
            <4> QED
                BY <2>2, <4>1 DEF Leases!Next
        <3>5. CASE kind = "cancel"
            <4>1. Leases!Cancel(j)
                BY <1>a, <2>3, <3>2, <3>5
                   DEF Leases!Cancel, Leases!Move, Leases!Held, Leases!Waiting, Allowed, Target
            <4> QED
                BY <2>2, <4>1 DEF Leases!Next
        <3>6. CASE kind = "recover"
            <4>1. Stranded(j)
                BY <2>2, <3>6 DEF LeaseInv, RecoveryInv, RecoveryOf, Recovering
            <4>2. Lessee[j] = Nobody
                BY <1>0, <2>2, <4>1, LesseeIs DEF Stranded
            <4>3. Leases!Requeue(j)
                BY <1>a, <2>3, <3>2, <3>6, <4>2 DEF Leases!Requeue, Leases!Move, Allowed, Target
            <4> QED
                BY <2>2, <4>3 DEF Leases!Next
        <3> QED
            BY <2>3, <3>3, <3>4, <3>5, <3>6 DEF AllKinds
    <2> QED
        BY <2>1, <2>4, <2>5 DEF WriteJob
<1>3. CASE \E w \in Workers : Block(w)
    <2>1. PICK w \in Workers, j \in Jobs :
            /\ pc[w] = "candidate" /\ Return(w)
            /\ \/ Transition([candidates[w][j] EXCEPT !.status = "blocked"],
                             {"ready", "retry_wait"}, FALSE)
               \/ Refused(candidates[w][j], {"ready", "retry_wait"})
        BY <1>3 DEF Block
    <2> DEFINE new == [candidates[w][j] EXCEPT !.status = "blocked"]
    <2>2. new.job_id = j /\ new.status = "blocked"
        <3>1. candidates[w][j] \in Job /\ candidates[w][j].job_id = j /\ "blocked" \in Statuses
            BY DEF TypeOK, WorkerOK, Statuses
        <3> QED
            BY <3>1, RowStatus
    <2>3. Lessee' = Lessee
        BY <1>0, <2>1, ReturnLessee DEF ExecutingAt
    <2> HIDE DEF new
    <2>4. CASE Transition(new, {"ready", "retry_wait"}, FALSE)
        <3>1. jobs[j].status \in {"ready", "retry_wait"} /\ jobs' = [jobs EXCEPT ![j] = new]
            BY <2>2, <2>4 DEF Transition
        <3>2. /\ JobStatus' = [JobStatus EXCEPT ![j] = "blocked"]
              /\ JobStatus[j] \in {"ready", "retry_wait"}
            <4>1. jobs'[j].status = "blocked" /\ \A i \in Jobs : i # j => jobs'[i] = jobs[i]
                BY <2>2, <3>1 DEF TypeOK, StoreOK
            <4> QED
                BY <1>0, <3>1, <4>1, StatusMoves
        <3>3. Leases!Hold(j)
            BY <2>3, <3>2 DEF Leases!Hold, Leases!Move, Leases!Held, Leases!Waiting
        <3> QED
            BY <3>3 DEF Leases!Next
    <2> QED
        BY <1>b, <2>1, <2>3, <2>4 DEF Refused, store, new, Leases!leaseVars
<1>4. CASE \E w \in Workers : Claim(w)
    <2>1. PICK w \in Workers : Claim(w)
        BY <1>4
    <2>2. PICK j \in Jobs :
            /\ Claimable(jobs[j], now[w])
            /\ jobs[j].attempt_count + 1 \notin attempts[j]
            /\ jobs' = [jobs EXCEPT ![j] =
                 [jobs[j] EXCEPT !.status = "running",
                                 !.attempt_count = jobs[j].attempt_count + 1,
                                 !.next_retry_at = 0]]
            /\ claimed' = [claimed EXCEPT ![w] =
                 [jobs[j] EXCEPT !.status = "running",
                                 !.attempt_count = jobs[j].attempt_count + 1,
                                 !.next_retry_at = 0]]
        BY <2>1, Zenon DEF Claim, NewAttempt
    <2> DEFINE row == [jobs[j] EXCEPT !.status = "running",
                                      !.attempt_count = jobs[j].attempt_count + 1,
                                      !.next_retry_at = 0]
    <2>3. row.status = "running" /\ row.job_id = j
        BY DEF TypeOK, StoreOK, Job
    <2>4. jobs' = [jobs EXCEPT ![j] = row] /\ claimed' = [claimed EXCEPT ![w] = row]
        BY <2>2
    <2> HIDE DEF row
    <2>5. pc[w] \notin ExecutingAt /\ pc' = [pc EXCEPT ![w] = "execute"] /\ "execute" \in ExecutingAt
        BY <2>1 DEF Claim, ExecutingAt
    <2>6. \A v \in Workers : ~Executes(v, j)
        BY <2>2, ClaimsUnexecuted DEF Executes
    <2>7. /\ Executes(w, j)'
          /\ \A v \in Workers, i \in Jobs : i # j => (Executes(v, i)' <=> Executes(v, i))
        BY <2>3, <2>4, <2>5 DEF Executes, TypeOK, WorkerOK
    <2>8. Lessee' = [Lessee EXCEPT ![j] = w] /\ Lessee[j] = Nobody
        BY <1>0, <2>6, <2>7, LesseeIs, LesseeIsNext, LesseeChanges
    <2>9. \A i \in Jobs : Lessee[i] # w
        <3> SUFFICES ASSUME NEW i \in Jobs PROVE Lessee[i] # w
            OBVIOUS
        <3>1. ~Executes(w, i)
            BY <2>5 DEF Executes
        <3> QED
            BY <1>0, <3>1, LesseeIs, NobodyAssumption
    <2>10. /\ JobStatus' = [JobStatus EXCEPT ![j] = "running"]
           /\ JobStatus[j] \in {"ready", "retry_wait"}
        <3>1. jobs'[j].status = "running" /\ \A i \in Jobs : i # j => jobs'[i] = jobs[i]
            BY <2>3, <2>4 DEF TypeOK, StoreOK
        <3> QED
            BY <1>0, <2>2, <3>1, StatusMoves DEF Claimable
    <2>11. Leases!Lease(j, w)
        BY <2>8, <2>9, <2>10 DEF Leases!Lease, Leases!Move, Leases!Waiting
    <2> QED
        BY <2>11 DEF Leases!Next
<1>5. CASE \E w \in Workers : SaveCheckpoint(w) \/ Finish(w) \/ HandleError(w)
    <2>1. PICK w \in Workers : SaveCheckpoint(w) \/ Finish(w) \/ HandleError(w)
        BY <1>5
    <2> DEFINE j == claimed[w].job_id
    <2>2. PICK row \in Outcome(w) :
            Transition(row, {"running"}, TRUE) \/ Refused(row, {"running"})
        BY <2>1, Ending
    <2>3. pc[w] \in ExecutingAt /\ Return(w)
        BY <2>1, Ending
    <2>4. /\ j \in Jobs /\ row.job_id = j
          /\ row.status \in {"ready", "retry_wait"} \cup (TerminalStatuses \ {"cancelled"})
        <3>1. claimed[w] \in Job
            BY DEF TypeOK, WorkerOK
        <3>2. FinalStatus(verdict[w]) \in TerminalStatuses \ {"cancelled"}
            BY DEF FinalStatus, TerminalStatuses
        <3>3. "failed" \in TerminalStatuses \ {"cancelled"}
            BY DEF TerminalStatuses
        <3> QED
            BY <3>1, <3>2, <3>3 DEF Outcome, Job
    <2>5. jobs[j].status = "running"
        BY <2>3 DEF LeaseInv, ExecutionInv, LatestAttempt
    <2>6. jobs' = [jobs EXCEPT ![j] = row]
        BY <2>2, <2>4, <2>5 DEF Transition, Refused
    <2>7. JobStatus' = [JobStatus EXCEPT ![j] = row.status] /\ JobStatus[j] = "running"
        <3>1. jobs'[j] = row /\ \A i \in Jobs : i # j => jobs'[i] = jobs[i]
            BY <2>4, <2>6 DEF TypeOK, StoreOK
        <3> QED
            BY <1>0, <2>4, <2>5, <3>1, StatusMoves
    <2>8. Lessee[j] = w /\ Lessee' = [Lessee EXCEPT ![j] = Nobody]
        BY <1>0, <2>3, ReturnLessee
    <2>9. row.status \in Leases!Waiting \cup Leases!Finished
        BY <2>4 DEF Leases!Waiting, Leases!Finished, TerminalStatuses
    <2>10. Leases!End(j, w)
        BY <2>7, <2>8, <2>9 DEF Leases!End, Leases!Move
    <2> QED
        BY <2>4, <2>10 DEF Leases!Next
<1>6. CASE \E w \in Workers : WorkerCrash(w)
    <2>1. PICK w \in Workers : Return(w) /\ jobs' = jobs
        BY <1>6 DEF WorkerCrash, store
    <2>2. CASE pc[w] \notin ExecutingAt
        BY <1>0, <1>b, <2>1, <2>2, ReturnLessee DEF Leases!leaseVars
    <2>3. CASE pc[w] \in ExecutingAt
        <3>1. claimed[w].job_id \in Jobs
            BY DEF TypeOK, WorkerOK, Job
        <3>2. Leases!Abandon(claimed[w].job_id, w)
            BY <1>0, <1>b, <2>1, <2>3, ReturnLessee DEF Leases!Abandon
        <3> QED
            BY <3>1, <3>2 DEF Leases!Next
    <2> QED
        BY <2>2, <2>3
<1>7. CASE \E w \in Workers : RunNext(w) \/ ReadCheckpoint(w) \/ ClaimLost(w) \/ ClaimConflict(w)
    <2>1. PICK w \in Workers :
            RunNext(w) \/ ReadCheckpoint(w) \/ ClaimLost(w) \/ ClaimConflict(w)
        BY <1>7
    <2>2. jobs' = jobs /\ pc[w] \notin ExecutingAt
        BY <2>1 DEF RunNext, ReadCheckpoint, ClaimLost, ClaimConflict, store, ExecutingAt
    <2>3. CASE Return(w)
        BY <1>0, <1>b, <2>2, <2>3, ReturnLessee DEF Leases!leaseVars
    <2>4. CASE ~Return(w)
        <3>1. /\ pc' \in {[pc EXCEPT ![w] = "candidate"], [pc EXCEPT ![w] = "claim"]}
              /\ UNCHANGED claimed
            BY <2>1, <2>4 DEF RunNext, ReadCheckpoint, ClaimLost, ClaimConflict
        <3>2. \A v \in Workers, i \in Jobs : Executes(v, i)' <=> Executes(v, i)
            BY <2>2, <3>1 DEF Executes, ExecutingAt, TypeOK, WorkerOK
        <3> QED
            BY <1>0, <1>b, <2>2, <3>2, LesseeStays DEF Leases!leaseVars
    <2> QED
        BY <2>3, <2>4
<1>8. CASE \E w \in Workers :
           \/ ConnectorBatch(w) \/ ConnectorCall(w)
           \/ \E error \in Errors : ConnectorFailure(w, error) \/ VerificationFailure(w, error)
           \/ StartVerification(w) \/ VerificationUnsupported(w)
           \/ \E result \in Results : CompleteVerification(w, result)
    <2>1. PICK w \in Workers : /\ jobs' = jobs /\ claimed' = claimed
                               /\ pc[w] \in ExecutingAt /\ pc'[w] \in ExecutingAt
                               /\ \A v \in Workers : v # w => pc'[v] = pc[v]
        BY <1>8 DEF ConnectorBatch, ConnectorCall, ConnectorFailure, VerificationFailure,
            StartVerification, VerificationUnsupported, CompleteVerification, store,
            ExecutingAt, TypeOK, WorkerOK
    <2>2. \A v \in Workers, i \in Jobs : Executes(v, i)' <=> Executes(v, i)
        BY <2>1 DEF Executes
    <2> QED
        BY <1>0, <1>b, <2>1, <2>2, LesseeStays DEF Leases!leaseVars
<1>9. CASE jobs' = jobs /\ UNCHANGED worker
    BY <1>9, <1>a, <1>b DEF Leases!leaseVars
<1>10. \/ \E j \in Jobs : CreateAny(j)
       \/ \E o \in Operators : WriteJob(o)
       \/ \E w \in Workers : WorkerStep(w) \/ WorkerCrash(w)
       \/ jobs' = jobs /\ UNCHANGED worker
    <2>1. CASE \E i \in Jobs : Creator(i) \/ AuthorityChange(i)
        BY <2>1 DEF Creator, AppendPlanBound, CreatorCrash, AuthorityChange, store
    <2>2. CASE \E o \in Operators :
            (\E i \in Jobs : ServiceCall(o, i)) \/ OperatorStep(o) \/ OperatorCrash(o)
        BY <2>2 DEF ServiceCall, ReadJob, ReadForApproval, OperatorStep, CompareCheckpoint,
            OperatorCrash, store
    <2>3. CASE Tick \/ UNCHANGED vars
        BY <2>3 DEF Tick, vars, store
    <2> QED
        BY <2>1, <2>2, <2>3 DEF Next
<1>11. CASE \E w \in Workers : WorkerStep(w)
    BY <1>3, <1>4, <1>5, <1>7, <1>8, <1>11 DEF WorkerStep
<1> QED
    BY <1>1, <1>2, <1>6, <1>9, <1>10, <1>11

\* Workers, operators and crashes, interleaved at any transaction, behave towards a
\* reader of the statuses like exclusive leases, when operators do not recover one job
\* concurrently (storage.py, service.py, worker.py).
THEOREM LeasesImplemented == ASSUME SerialRecovery PROVE Spec => ImplementsLeases
<1>1. SerialInv /\ SerialInv' /\ [Next]_vars => [Leases!Next]_(Leases!leaseVars)
    BY LeasesNext
<1> QED
    BY <1>1, LeasesInit, SerialInvariant, PTL DEF Spec, ImplementsLeases, Leases!Spec
=============================================================================
