-------------------------------- MODULE Jobs --------------------------------
(***************************************************************************)
(* The persistent job engine of src/edn/jobs: the SQLite job store         *)
(* (storage.py), the lifecycle service operators call (service.py) and the *)
(* one-shot local worker (worker.py).                                      *)
(*                                                                         *)
(* Every call on the store is one BEGIN IMMEDIATE transaction and is one   *)
(* action here.  The service and the worker READ a row in one transaction  *)
(* and WRITE a whole row, computed from what they read, in another one; a  *)
(* write compares only the status column with a set of expected statuses.  *)
(* What other processes do between the two is what this module explores.   *)
(*                                                                         *)
(* Connectors, the capability registry, the policy evaluator and the clock *)
(* are the environment.                                                    *)
(***************************************************************************)
EXTENDS Integers, FiniteSets

CONSTANTS
    Jobs,           \* job ids, numbered in the order (created_at, job_id)
    Workers,        \* processes that call LocalJobWorker.run_next
    Operators,      \* processes that call JobService
    Operations,     \* the operations jobs are created for
    JobPlans,       \* the plans jobs are created with
    OperatorKinds,  \* the service calls the operators make
    Items,          \* items a batched job has to process
    BatchSize,      \* items one connector call processes
    MaxAttempts,    \* RetryPolicy.max_attempts
    BaseDelay,      \* RetryPolicy.base_delay_seconds
    Horizon,        \* bound: the last instant the clock distinguishes
    MaxCrashes,     \* bound: processes that die in the middle of a call
    SerialRecovery  \* TRUE: operators do not recover one job concurrently

AllOperations == {"ingest", "discover", "sync", "search", "inspect", "act"}
AllPlans == {"none", "plan", "approval_required"}
AllKinds == {"bind_approval", "pause", "cancel", "resume", "recover"}

ASSUME JobsAssumption == Jobs \subseteq Nat /\ Jobs # {}
ASSUME OperationsAssumption == Operations \subseteq AllOperations
ASSUME PlansAssumption == JobPlans \subseteq AllPlans
ASSUME KindsAssumption == OperatorKinds \subseteq AllKinds
ASSUME BatchAssumption == Items \in Nat \ {0} /\ BatchSize \in Nat \ {0}
ASSUME RetryAssumption == MaxAttempts \in Nat \ {0} /\ BaseDelay \in Nat
ASSUME HorizonAssumption == Horizon \in Nat \ {0}
ASSUME CrashAssumption == MaxCrashes \in Nat
ASSUME SerialAssumption == SerialRecovery \in BOOLEAN

VARIABLES
    jobs,           \* table jobs: the current row of each job
    checkpoints,    \* table checkpoints: the durable boundary, 0 for no row
    attempts,       \* table job_attempts: the attempt numbers inserted
    open_attempts,  \* the attempts among them whose outcome is NULL
    audit,          \* table audit_events: the status its latest event announces
    plan_bound,     \* jobs with a plan_bound event
    creating,       \* jobs whose creator still has to append plan_bound
    pc,             \* control state of each worker
    now,            \* the instant each worker was called with
    candidates,     \* the rows claimable() returned that are still to be tried
    checkpoint,     \* the boundary a worker resumes from, then the one it reached
    claimed,        \* the row a worker's claim returned
    verdict,        \* what the connector reported last to a worker
    op,             \* the service call each operator is in
    authorized,     \* environment: jobs that registry, policy and configuration admit
    clock,          \* environment: wall clock
    output,         \* environment: durable items the connector has stored
    acted,          \* environment: times the connector performed an action
    crashes

store == <<jobs, checkpoints, attempts, open_attempts, audit, plan_bound, creating>>
worker == <<pc, now, candidates, checkpoint, claimed, verdict>>
env == <<authorized, clock, output, acted>>
vars == <<store, worker, op, env, crashes>>

(***************************************************************************)
(* models.py                                                               *)
(***************************************************************************)
TerminalStatuses ==
    {"completed", "completed_with_warnings", "failed", "cancelled", "indeterminate"}

\* "absent" is not a JobStatus: it is a job_id the jobs table has no row for.
Statuses == TerminalStatuses \cup
    {"absent", "planned", "awaiting_approval", "ready", "running", "paused",
     "retry_wait", "blocked"}

\* An approval is its expiry: 0 stands for no approval or for one bound to
\* another plan, hash or scope; Horizon + 1 for one that does not expire.
Approvals == 0 .. Horizon + 1

\* A checkpoint's id is a hash of the job's correlation id and the number of
\* durable items, so that number is the id here; 0 is None.
Boundaries == 0 .. Items

Job == [job_id : Jobs, status : Statuses, operation : AllOperations,
        plan : AllPlans, approval : Approvals, attempt_count : Nat,
        checkpoint_id : Boundaries, next_retry_at : 0 .. Horizon]

NewJob(j, status, operation, plan, approval) ==
    [job_id |-> j, status |-> status, operation |-> operation, plan |-> plan,
     approval |-> approval, attempt_count |-> 0, checkpoint_id |-> 0,
     next_retry_at |-> 0]

NoJob(j) == NewJob(j, "absent", "search", "none", 0)

\* ApprovalBinding.matches
Matches(approval, time) == time < approval

\* The instant a retry is due: exponential backoff after the attempt's number,
\* cut off at the last instant of the model.
RetryAt(time, attempt) ==
    LET due == time + BaseDelay * 2^(attempt - 1)
    IN  IF due \in 0 .. Horizon THEN due ELSE Horizon

(***************************************************************************)
(* storage.py: the transactions                                            *)
(***************************************************************************)

\* _insert_event, for an event that carries statuses.
Log(j, new) == audit' = [audit EXCEPT ![j] = new]

\* mutant: a retry that is due is never picked up
ClaimableReadyOnly(row, time) == row.status = "ready"

Claimable(row, time) ==
    \/ row.status = "ready"
    \/ row.status = "retry_wait" /\ row.next_retry_at <= time

\* mutant: no primary key on job_attempts
NewAttemptUnchecked(j, n) == TRUE

\* PRIMARY KEY (job_id, attempt_number) of job_attempts
NewAttempt(j, n) == n \notin attempts[j]

\* mutant: the status column is not compared
TransitionUnchecked(row, expected, closes) ==
    LET j == row.job_id
    IN  /\ jobs' = [jobs EXCEPT ![j] = row]
        /\ open_attempts' = [open_attempts EXCEPT
                ![j] = IF closes THEN @ \ {row.attempt_count} ELSE @]
        /\ Log(j, row.status)
        /\ UNCHANGED <<attempts, plan_bound, creating>>

\* mutant: the attempt is left open
TransitionLeavesAttempt(row, expected, closes) ==
    LET j == row.job_id
    IN  /\ jobs[j].status \in expected
        /\ jobs' = [jobs EXCEPT ![j] = row]
        /\ Log(j, row.status)
        /\ UNCHANGED <<attempts, open_attempts, plan_bound, creating>>

\* transition(): compare the status column, write the caller's whole row, close
\* the attempt that row names, append the event.
Transition(row, expected, closes) ==
    LET j == row.job_id
    IN  /\ jobs[j].status \in expected
        /\ jobs' = [jobs EXCEPT ![j] = row]
        /\ open_attempts' = [open_attempts EXCEPT
                ![j] = IF closes THEN @ \ {row.attempt_count} ELSE @]
        /\ Log(j, row.status)
        /\ UNCHANGED <<attempts, plan_bound, creating>>

\* mutant: the event outlives the rolled back transition
RefusedAfterEvent(row, expected) ==
    /\ jobs[row.job_id].status \notin expected
    /\ Log(row.job_id, row.status)
    /\ UNCHANGED <<jobs, checkpoints, attempts, open_attempts, plan_bound, creating>>

\* transition() raised RuntimeError and rolled back.
Refused(row, expected) ==
    /\ jobs[row.job_id].status \notin expected
    /\ UNCHANGED store

(***************************************************************************)
(* Processes                                                               *)
(***************************************************************************)
ExecutingAt == {"execute", "yield", "verify", "verifying", "finish", "failed"}

\* Worker w has claimed job j and has not yet written its outcome.
Executes(w, j) == pc[w] \in ExecutingAt /\ claimed[w].job_id = j

Stranded(j) == jobs[j].status = "running" /\ \A w \in Workers : ~Executes(w, j)

NoRows == [j \in Jobs |-> NoJob(j)]
FirstJob == CHOOSE j \in Jobs : TRUE
IdleOp == [kind |-> "none", step |-> "idle", row |-> NoJob(FirstJob)]

Recovering(o, j) == op[o].kind = "recover" /\ op[o].row.job_id = j

\* run_next returns or raises: the call's locals are gone.
Return(w) ==
    /\ pc' = [pc EXCEPT ![w] = "idle"]
    /\ now' = [now EXCEPT ![w] = 0]
    /\ candidates' = [candidates EXCEPT ![w] = NoRows]
    /\ checkpoint' = [checkpoint EXCEPT ![w] = 0]
    /\ claimed' = [claimed EXCEPT ![w] = NoJob(FirstJob)]
    /\ verdict' = [verdict EXCEPT ![w] = "none"]

\* The first row, in claimable()'s order, that w has not tried yet.
NextCandidate(w, j) ==
    /\ candidates[w][j].status # "absent"
    /\ \A i \in Jobs : candidates[w][i].status # "absent" => j <= i

(***************************************************************************)
(* JobService.create: the row and job_created in one transaction, then     *)
(* plan_bound in a transaction of its own.                                 *)
(***************************************************************************)
Create(j, status, operation, plan, approval) ==
    /\ jobs[j].status = "absent"
    /\ status = "awaiting_approval" => plan # "none"
    /\ jobs' = [jobs EXCEPT ![j] = NewJob(j, status, operation, plan, approval)]
    /\ audit' = [audit EXCEPT ![j] = status]
    /\ creating' = IF plan = "none" THEN creating ELSE creating \cup {j}
    /\ UNCHANGED <<checkpoints, attempts, open_attempts, plan_bound,
                   worker, op, env, crashes>>

AppendPlanBound(j) ==
    /\ j \in creating
    /\ plan_bound' = plan_bound \cup {j}
    /\ creating' = creating \ {j}
    /\ UNCHANGED <<jobs, checkpoints, attempts, open_attempts, audit,
                   worker, op, env, crashes>>

CreatorCrash(j) ==
    /\ j \in creating
    /\ crashes < MaxCrashes
    /\ creating' = creating \ {j}
    /\ crashes' = crashes + 1
    /\ UNCHANGED <<jobs, checkpoints, attempts, open_attempts, audit,
                   plan_bound, worker, op, env>>

(***************************************************************************)
(* JobService: bind_approval, pause, cancel, resume, recover_interrupted.  *)
(* Each reads the row (recover_interrupted the checkpoint too), returns    *)
(* early when it is not allowed, and then writes that row back.            *)
(***************************************************************************)
\* mutant: pause is allowed while the job runs
AllowedWhileRunning(kind) ==
    CASE kind = "bind_approval" -> {"awaiting_approval"}
      [] kind = "pause" -> {"ready", "retry_wait", "running"}
      [] kind = "cancel" -> {"planned", "awaiting_approval", "ready", "paused",
                             "retry_wait", "blocked"}
      [] kind = "resume" -> {"paused", "blocked"}
      [] kind = "recover" -> {"running"}

Allowed(kind) ==
    CASE kind = "bind_approval" -> {"awaiting_approval"}
      [] kind = "pause" -> {"ready", "retry_wait"}
      [] kind = "cancel" -> {"planned", "awaiting_approval", "ready", "paused",
                             "retry_wait", "blocked"}
      [] kind = "resume" -> {"paused", "blocked"}
      [] kind = "recover" -> {"running"}

Target(kind) ==
    CASE kind = "pause" -> "paused"
      [] kind = "cancel" -> "cancelled"
      [] OTHER -> "ready"

\* Operators recover stranded jobs only ("If a process terminates after claim,
\* an operator may call recover_interrupted"); the code cannot see whether the
\* worker is alive.
RecoveryPermitted(j) ==
    /\ Stranded(j)
    /\ SerialRecovery => \A p \in Operators : ~Recovering(p, j)

ReadJob(o, kind, j) ==
    /\ op[o].step = "idle"
    /\ kind \in OperatorKinds \ {"bind_approval"}
    /\ jobs[j].status \in Allowed(kind)
    /\ kind = "recover" => RecoveryPermitted(j)
    /\ op' = [op EXCEPT ![o] =
                 [kind |-> kind, step |-> IF kind = "recover" THEN "compare" ELSE "write",
                  row |-> jobs[j]]]
    /\ UNCHANGED <<store, worker, env, crashes>>

ReadForApproval(o, j, approval) ==
    /\ op[o].step = "idle"
    /\ "bind_approval" \in OperatorKinds
    /\ jobs[j].status \in Allowed("bind_approval")
    /\ jobs[j].plan # "none"
    /\ Matches(approval, clock)
    /\ op' = [op EXCEPT ![o] = [kind |-> "bind_approval", step |-> "write",
                                row |-> [jobs[j] EXCEPT !.approval = approval]]]
    /\ UNCHANGED <<store, worker, env, crashes>>

\* mutant: a job without any checkpoint is recovered too
CompareCheckpointOrNone(o) ==
    /\ op[o].step = "compare"
    /\ op' = [op EXCEPT ![o] =
                  IF checkpoints[op[o].row.job_id] = op[o].row.checkpoint_id
                  THEN [@ EXCEPT !.step = "write"]
                  ELSE IdleOp]
    /\ UNCHANGED <<store, worker, env, crashes>>

\* recover_interrupted's second read: the row's checkpoint must be the stored one.
CompareCheckpoint(o) ==
    /\ op[o].step = "compare"
    /\ LET durable == checkpoints[op[o].row.job_id]
       IN  op' = [op EXCEPT ![o] =
                     IF durable # 0 /\ durable = op[o].row.checkpoint_id
                     THEN [@ EXCEPT !.step = "write"]
                     ELSE IdleOp]
    /\ UNCHANGED <<store, worker, env, crashes>>

WriteJob(o) ==
    /\ op[o].step = "write"
    /\ LET kind == op[o].kind
           row  == op[o].row
       IN  \/ /\ Transition([row EXCEPT !.status = Target(kind)], Allowed(kind),
                            kind = "recover")
              /\ UNCHANGED checkpoints
           \/ Refused(row, Allowed(kind))
    /\ op' = [op EXCEPT ![o] = IdleOp]
    /\ UNCHANGED <<worker, env, crashes>>

OperatorCrash(o) ==
    /\ op[o].step # "idle"
    /\ crashes < MaxCrashes
    /\ op' = [op EXCEPT ![o] = IdleOp]
    /\ crashes' = crashes + 1
    /\ UNCHANGED <<store, worker, env>>

(***************************************************************************)
(* LocalJobWorker.run_next                                                 *)
(***************************************************************************)
RunNext(w) ==
    /\ pc[w] = "idle"
    /\ \E j \in Jobs : Claimable(jobs[j], clock)
    /\ pc' = [pc EXCEPT ![w] = "candidate"]
    /\ now' = [now EXCEPT ![w] = clock]
    /\ candidates' = [candidates EXCEPT ![w] =
            [j \in Jobs |-> IF Claimable(jobs[j], clock) THEN jobs[j] ELSE NoJob(j)]]
    /\ UNCHANGED <<store, checkpoint, claimed, verdict, op, env, crashes>>

\* mutant: an approval that has expired is still good
ReauthorizedIgnoringExpiry(row, time) ==
    /\ row.job_id \in authorized
    /\ row.plan = "approval_required" => row.approval # 0

\* The connector and configuration checks of run_next and reauthorize_job, made
\* on the candidate row as it was read.
Reauthorized(row, time) ==
    /\ row.job_id \in authorized
    /\ row.plan = "approval_required" => Matches(row.approval, time)

\* The first candidate may not run: _block writes it back and run_next returns.
Block(w) ==
    /\ pc[w] = "candidate"
    /\ \E j \in Jobs :
        LET row == candidates[w][j]
        IN  /\ NextCandidate(w, j)
            /\ ~Reauthorized(row, now[w])
            /\ \/ /\ Transition([row EXCEPT !.status = "blocked"],
                                {"ready", "retry_wait"}, FALSE)
                  /\ UNCHANGED checkpoints
               \/ Refused(row, {"ready", "retry_wait"})
    /\ Return(w)
    /\ UNCHANGED <<op, env, crashes>>

\* The checkpoint is read before the claim.
ReadCheckpoint(w) ==
    /\ pc[w] = "candidate"
    /\ \E j \in Jobs :
        /\ NextCandidate(w, j)
        /\ Reauthorized(candidates[w][j], now[w])
        /\ checkpoint' = [checkpoint EXCEPT ![w] = checkpoints[j]]
    /\ pc' = [pc EXCEPT ![w] = "claim"]
    /\ UNCHANGED <<store, now, candidates, claimed, verdict, op, env, crashes>>

\* claim(): the current row, whatever the candidate was, becomes running and
\* its attempt is inserted.
Claim(w) ==
    /\ pc[w] = "claim"
    /\ \E j \in Jobs :
        LET n   == jobs[j].attempt_count + 1
            row == [jobs[j] EXCEPT !.status = "running", !.attempt_count = n,
                                   !.next_retry_at = 0]
        IN  /\ NextCandidate(w, j)
            /\ Claimable(jobs[j], now[w])
            /\ NewAttempt(j, n)
            /\ jobs' = [jobs EXCEPT ![j] = row]
            /\ attempts' = [attempts EXCEPT ![j] = @ \cup {n}]
            /\ open_attempts' = [open_attempts EXCEPT ![j] = @ \cup {n}]
            /\ Log(j, "running")
            /\ claimed' = [claimed EXCEPT ![w] = row]
    /\ pc' = [pc EXCEPT ![w] = "execute"]
    /\ candidates' = [candidates EXCEPT ![w] = NoRows]
    /\ UNCHANGED <<checkpoints, plan_bound, creating, now, checkpoint, verdict, op,
                   env, crashes>>

\* claim() returned None: try the next of the candidates read before.
ClaimLost(w) ==
    /\ pc[w] = "claim"
    /\ \E j \in Jobs :
        /\ NextCandidate(w, j)
        /\ ~Claimable(jobs[j], now[w])
        /\ LET rest == [candidates[w] EXCEPT ![j] = NoJob(j)]
           IN  IF rest = NoRows
               THEN Return(w)
               ELSE /\ pc' = [pc EXCEPT ![w] = "candidate"]
                    /\ candidates' = [candidates EXCEPT ![w] = rest]
                    /\ checkpoint' = [checkpoint EXCEPT ![w] = 0]
                    /\ UNCHANGED <<now, claimed, verdict>>
    /\ UNCHANGED <<store, op, env, crashes>>

\* The attempt number exists already: the primary key of job_attempts aborts the
\* transaction and the IntegrityError leaves run_next.
ClaimConflict(w) ==
    /\ pc[w] = "claim"
    /\ \E j \in Jobs :
        /\ NextCandidate(w, j)
        /\ Claimable(jobs[j], now[w])
        /\ ~NewAttempt(j, jobs[j].attempt_count + 1)
    /\ Return(w)
    /\ UNCHANGED <<store, op, env, crashes>>

(***************************************************************************)
(* _execute: the connector call, its durable effects and its result.       *)
(***************************************************************************)
Batched == {"ingest", "discover"}
Errors == {"transient", "permanent"}
Greater(a, b) == IF a < b THEN b ELSE a

\* The end of the batch that starts at a boundary.
BatchEnd(from) == IF from + BatchSize < Items THEN from + BatchSize ELSE Items

\* mutant: the connector's transaction is rolled back
StoredNothing(j, end) == output

\* The connector's output once it holds the items up to a boundary.
Stored(j, end) == [output EXCEPT ![j] = Greater(@, end)]

\* A whole batch is stored (items already stored are stored again, idempotently).
ConnectorBatch(w) ==
    LET j   == claimed[w].job_id
        end == BatchEnd(checkpoint[w])
    IN  /\ pc[w] = "execute"
        /\ claimed[w].operation \in Batched
        /\ output' = Stored(j, end)
        /\ checkpoint' = [checkpoint EXCEPT ![w] = end]
        /\ pc' = [pc EXCEPT ![w] = IF end = Items THEN "verify" ELSE "yield"]
        /\ UNCHANGED <<store, now, candidates, claimed, verdict, op,
                       authorized, clock, acted, crashes>>

\* sync, search, inspect and act are complete after one call.  An action without
\* a bound plan is an error before the connector is called.
ConnectorCall(w) ==
    LET j == claimed[w].job_id
    IN  /\ pc[w] = "execute"
        /\ claimed[w].operation \notin Batched
        /\ claimed[w].operation = "act" => claimed[w].plan # "none"
        /\ acted' = [acted EXCEPT ![j] = IF claimed[w].operation = "act" THEN @ + 1 ELSE @]
        /\ pc' = [pc EXCEPT ![w] = "verify"]
        /\ UNCHANGED <<store, now, candidates, checkpoint, claimed, verdict, op,
                       authorized, clock, output, crashes>>

\* The call raises a ConnectorError, possibly after part of the batch is stored.
ConnectorFailure(w, error) ==
    LET j == claimed[w].job_id
    IN  /\ pc[w] = "execute"
        /\ claimed[w].operation = "act" /\ claimed[w].plan = "none" => error = "permanent"
        /\ \E stored \in checkpoint[w] .. BatchEnd(checkpoint[w]) :
              /\ claimed[w].operation \notin Batched => stored = checkpoint[w]
              /\ output' = Stored(j, stored)
        /\ verdict' = [verdict EXCEPT ![w] = error]
        /\ pc' = [pc EXCEPT ![w] = "failed"]
        /\ UNCHANGED <<store, now, candidates, checkpoint, claimed, op,
                       authorized, clock, acted, crashes>>

\* save_checkpoint(): the checkpoint is upserted in the transaction that returns
\* the job to ready.
SaveCheckpoint(w) ==
    LET row == [claimed[w] EXCEPT !.status = "ready", !.checkpoint_id = checkpoint[w]]
    IN  /\ pc[w] = "yield"
        /\ \/ /\ Transition(row, {"running"}, TRUE)
              /\ checkpoints' = [checkpoints EXCEPT ![row.job_id] = checkpoint[w]]
           \/ Refused(row, {"running"})
        /\ Return(w)
        /\ UNCHANGED <<op, env, crashes>>

\* append_event(verification_started): no comparison with the row.
StartVerification(w) ==
    /\ pc[w] = "verify"
    /\ Log(claimed[w].job_id, "running")
    /\ pc' = [pc EXCEPT ![w] = "verifying"]
    /\ UNCHANGED <<jobs, checkpoints, attempts, open_attempts, plan_bound, creating,
                   now, candidates, checkpoint, claimed, verdict, op, env, crashes>>

Results == {"verified", "verified_with_warnings", "verification_failed", "indeterminate"}

\* What connector.verify may report: success only over a complete output.
Verdicts(j, operation) ==
    IF operation \in Batched /\ output[j] < Items
    THEN {"verification_failed", "indeterminate"}
    ELSE Results

\* connector.verify, then append_event(verification_completed).
CompleteVerification(w, result) ==
    /\ pc[w] = "verifying"
    /\ result \in Verdicts(claimed[w].job_id, claimed[w].operation)
    /\ Log(claimed[w].job_id, "running")
    /\ verdict' = [verdict EXCEPT ![w] = result]
    /\ pc' = [pc EXCEPT ![w] = "finish"]
    /\ UNCHANGED <<jobs, checkpoints, attempts, open_attempts, plan_bound, creating,
                   now, candidates, checkpoint, claimed, op, env, crashes>>

\* connector.verify raises a ConnectorError.
VerificationFailure(w, error) ==
    /\ pc[w] = "verifying"
    /\ verdict' = [verdict EXCEPT ![w] = error]
    /\ pc' = [pc EXCEPT ![w] = "failed"]
    /\ UNCHANGED <<store, now, candidates, checkpoint, claimed, op, env, crashes>>

\* The connector does not implement verify.
VerificationUnsupported(w) ==
    /\ pc[w] = "verify"
    /\ verdict' = [verdict EXCEPT ![w] = "indeterminate"]
    /\ pc' = [pc EXCEPT ![w] = "finish"]
    /\ UNCHANGED <<store, now, candidates, checkpoint, claimed, op, env, crashes>>

\* mutant: a verification result is written as a job status
FinalStatusUnmapped(result) ==
    CASE result = "verified" -> "completed"
      [] result = "verified_with_warnings" -> "completed_with_warnings"
      [] OTHER -> result

\* The status a verified or unverifiable execution ends in.
FinalStatus(result) ==
    CASE result = "verified" -> "completed"
      [] result = "verified_with_warnings" -> "completed_with_warnings"
      [] OTHER -> "indeterminate"

Finish(w) ==
    LET row == [claimed[w] EXCEPT !.status = FinalStatus(verdict[w])]
    IN  /\ pc[w] = "finish"
        /\ \/ Transition(row, {"running"}, TRUE) /\ UNCHANGED checkpoints
           \/ Refused(row, {"running"})
        /\ Return(w)
        /\ UNCHANGED <<op, env, crashes>>

\* _handle_connector_error
Retryable(row, error) == error = "transient" /\ row.attempt_count < MaxAttempts

HandleError(w) ==
    LET row == IF Retryable(claimed[w], verdict[w])
               THEN [claimed[w] EXCEPT !.status = "retry_wait",
                        !.next_retry_at = RetryAt(now[w], claimed[w].attempt_count)]
               ELSE [claimed[w] EXCEPT !.status = "failed"]
    IN  /\ pc[w] = "failed"
        /\ \/ Transition(row, {"running"}, TRUE) /\ UNCHANGED checkpoints
           \/ Refused(row, {"running"})
        /\ Return(w)
        /\ UNCHANGED <<op, env, crashes>>

\* The process dies, or an exception that is no ConnectorError leaves run_next.
WorkerCrash(w) ==
    /\ pc[w] # "idle"
    /\ crashes < MaxCrashes
    /\ crashes' = crashes + 1
    /\ Return(w)
    /\ UNCHANGED <<store, op, env>>

(***************************************************************************)
(* Environment and specification                                           *)
(***************************************************************************)

\* A capability, policy, connector or configuration changes.
AuthorityChange(j) ==
    /\ authorized' = IF j \in authorized THEN authorized \ {j} ELSE authorized \cup {j}
    /\ UNCHANGED <<store, worker, op, clock, output, acted, crashes>>

Tick ==
    /\ clock < Horizon
    /\ clock' = clock + 1
    /\ UNCHANGED <<store, worker, op, authorized, output, acted, crashes>>

Init ==
    /\ jobs = NoRows
    /\ checkpoints = [j \in Jobs |-> 0]
    /\ attempts = [j \in Jobs |-> {}]
    /\ open_attempts = [j \in Jobs |-> {}]
    /\ audit = [j \in Jobs |-> "absent"]
    /\ plan_bound = {}
    /\ creating = {}
    /\ pc = [w \in Workers |-> "idle"]
    /\ now = [w \in Workers |-> 0]
    /\ candidates = [w \in Workers |-> NoRows]
    /\ checkpoint = [w \in Workers |-> 0]
    /\ claimed = [w \in Workers |-> NoJob(FirstJob)]
    /\ verdict = [w \in Workers |-> "none"]
    /\ op = [o \in Operators |-> IdleOp]
    /\ authorized = Jobs
    /\ clock = 1
    /\ output = [j \in Jobs |-> 0]
    /\ acted = [j \in Jobs |-> 0]
    /\ crashes = 0

CreateAny(j) ==
    \E status \in {"planned", "awaiting_approval", "ready"}, operation \in Operations,
       plan \in JobPlans, approval \in Approvals :
        /\ plan # "approval_required" => approval = 0
        /\ Create(j, status, operation, plan, approval)

Creator(j) == CreateAny(j) \/ AppendPlanBound(j) \/ CreatorCrash(j)

ServiceCall(o, j) ==
    \/ \E kind \in AllKinds : ReadJob(o, kind, j)
    \/ \E approval \in Approvals : ReadForApproval(o, j, approval)

OperatorStep(o) == CompareCheckpoint(o) \/ WriteJob(o)

\* What a worker does from the call of run_next on, when it does not die.
WorkerStep(w) ==
    \/ RunNext(w) \/ Block(w) \/ ReadCheckpoint(w)
    \/ Claim(w) \/ ClaimLost(w) \/ ClaimConflict(w)
    \/ ConnectorBatch(w) \/ ConnectorCall(w)
    \/ \E error \in Errors : ConnectorFailure(w, error) \/ VerificationFailure(w, error)
    \/ SaveCheckpoint(w) \/ StartVerification(w) \/ VerificationUnsupported(w)
    \/ \E result \in Results : CompleteVerification(w, result)
    \/ Finish(w) \/ HandleError(w)

Next ==
    \/ \E j \in Jobs : Creator(j) \/ AuthorityChange(j)
    \/ \E o \in Operators : OperatorStep(o) \/ OperatorCrash(o)
    \/ \E o \in Operators, j \in Jobs : ServiceCall(o, j)
    \/ \E w \in Workers : WorkerStep(w) \/ WorkerCrash(w)
    \/ Tick

Spec == Init /\ [][Next]_vars

(***************************************************************************)
(* Properties                                                              *)
(***************************************************************************)

StoreOK ==
    /\ jobs \in [Jobs -> Job]
    /\ \A j \in Jobs : jobs[j].job_id = j
    /\ checkpoints \in [Jobs -> Boundaries]
    /\ attempts \in [Jobs -> SUBSET Nat]
    /\ open_attempts \in [Jobs -> SUBSET Nat]
    /\ audit \in [Jobs -> Statuses]
    /\ plan_bound \in SUBSET Jobs
    /\ creating \in SUBSET Jobs

WorkerOK ==
    /\ pc \in [Workers -> {"idle", "candidate", "claim"} \cup ExecutingAt]
    /\ now \in [Workers -> 0 .. Horizon]
    /\ candidates \in [Workers -> [Jobs -> Job]]
    /\ \A w \in Workers, j \in Jobs : candidates[w][j].job_id = j
    /\ checkpoint \in [Workers -> Boundaries]
    /\ claimed \in [Workers -> Job]
    /\ verdict \in [Workers -> {"none"} \cup Errors \cup Results]

OperatorOK ==
    op \in [Operators -> [kind : {"none"} \cup AllKinds,
                          step : {"idle", "compare", "write"}, row : Job]]

EnvOK ==
    /\ authorized \in SUBSET Jobs
    /\ clock \in 1 .. Horizon
    /\ output \in [Jobs -> Boundaries]
    /\ acted \in [Jobs -> Nat]
    /\ crashes \in Nat

\* The type of every table, of every process's locals and of the environment.
TypeOK == StoreOK /\ WorkerOK /\ OperatorOK /\ EnvOK

\* No two workers execute one job at the same time (storage.py claim,
\* service.py recover_interrupted), although neither the claim nor the final
\* transition names the worker that owns the job.
ExclusiveExecution ==
    \A v, w \in Workers, j \in Jobs : Executes(v, j) /\ Executes(w, j) => v = w

\* The inductive invariant behind ExclusiveExecution.  Attempt numbers are what
\* fences workers off: they are inserted without gaps, every row anyone can still
\* write back has a number that was inserted, and while a worker executes a job
\* its attempt is the latest one and every other copy of the job's row is behind
\* it, so that claiming the job again would insert a number twice.
AttemptsContiguous ==
    \A j \in Jobs : \A n \in attempts[j] : 1 <= n /\ 1 .. n \subseteq attempts[j]

Numbered(row) == row.attempt_count = 0 \/ row.attempt_count \in attempts[row.job_id]

RowsNumbered ==
    /\ \A j \in Jobs : Numbered(jobs[j])
    /\ \A o \in Operators : Numbered(op[o].row)
    /\ \A w \in Workers, j \in Jobs : Numbered(candidates[w][j])

Behind(row, w) ==
    row.job_id = claimed[w].job_id => row.attempt_count < claimed[w].attempt_count

LatestAttempt(w) ==
    LET j == claimed[w].job_id
        n == claimed[w].attempt_count
    IN  /\ n \in attempts[j]
        /\ \A m \in attempts[j] : m <= n
        /\ jobs[j] = claimed[w] \/ Behind(jobs[j], w)
        /\ claimed[w].status = "running"
        /\ \A o \in Operators : Behind(op[o].row, w)
        /\ \A v \in Workers, i \in Jobs : Behind(candidates[v][i], w)

ExecutionInv ==
    /\ AttemptsContiguous
    /\ RowsNumbered
    /\ \A w \in Workers : pc[w] \in ExecutingAt => LatestAttempt(w)
    /\ ExclusiveExecution

\* A job whose plan requires approval executes only with an approval that matched
\* when its worker was called, although the worker authorizes the row it read and
\* claim() returns the row as it is later (worker.py run_next, storage.py claim).
ApprovedExecution ==
    \A w \in Workers :
        pc[w] \in ExecutingAt /\ claimed[w].plan = "approval_required"
            => Matches(claimed[w].approval, now[w])

\* The audit trail's latest status is the status of the job's row, although
\* verification events are appended without looking at the row
\* (worker.py _execute, storage.py append_event).
AuditAgrees == \A j \in Jobs : audit[j] = jobs[j].status

\* The job_attempts table has exactly one open attempt for a running job, the one
\* its row counts, and none for any other job: every attempt is closed once, by
\* the worker that made it or by recover_interrupted.
OneOpenAttempt ==
    \A j \in Jobs :
        open_attempts[j] = IF jobs[j].status = "running"
                           THEN {jobs[j].attempt_count} ELSE {}

\* A checkpoint never runs ahead of what the connector has stored, so that work
\* resumed from it leaves no gap, whoever resumes it and however stale the
\* boundary it read; a completed batched job has stored all its items.
CheckpointDurable ==
    \A j \in Jobs :
        /\ checkpoints[j] <= output[j]
        /\ /\ jobs[j].operation \in Batched
           /\ jobs[j].status \in {"completed", "completed_with_warnings"}
           => output[j] = Items

\* The row of a job in a terminal status never changes again, whatever stale rows
\* workers and operators still hold (TERMINAL_STATUSES, storage.py transition).
TerminalAbsorbing ==
    [][\A j \in Jobs : jobs[j].status \in TerminalStatuses => jobs'[j] = jobs[j]]_vars

\* A running job nobody executes leaves that status only when its row names the
\* stored checkpoint: a job without a durable boundary is never replayed
\* (service.py recover_interrupted).
RecoveredFromCheckpoint ==
    [][\A j \in Jobs :
          Stranded(j) /\ jobs'[j].status # "running"
              => checkpoints[j] # 0 /\ checkpoints[j] = jobs[j].checkpoint_id]_vars

(***************************************************************************)
(* The tables and processes implement exclusive leases: a job's lessee is  *)
(* the worker that executes it.                                            *)
(***************************************************************************)
Nobody == "nobody"

ASSUME NobodyAssumption == Nobody \notin Workers

JobStatus == [j \in Jobs |-> jobs[j].status]

Lessee ==
    [j \in Jobs |-> IF \E w \in Workers : Executes(w, j)
                   THEN CHOOSE w \in Workers : Executes(w, j)
                   ELSE Nobody]

Leases == INSTANCE JobLease WITH status <- JobStatus, lessee <- Lessee

\* Workers, operators and crashes, interleaved at any transaction, look to a
\* reader of the statuses like leases that are taken, ended by their lessee,
\* abandoned and requeued (storage.py, service.py, worker.py).
ImplementsLeases == Leases!Spec

(***************************************************************************)
(* Liveness.  A worker that was called runs to the end of the call unless  *)
(* it dies; the command line calls run_next again while a job is waiting;  *)
(* an operator attends to stranded jobs; time passes.                      *)
(***************************************************************************)
Fairness ==
    /\ \A w \in Workers : WF_vars(WorkerStep(w))
    /\ \A o \in Operators : WF_vars(OperatorStep(o))
    /\ \A o \in Operators, j \in Jobs : WF_vars(ReadJob(o, "recover", j))
    /\ WF_vars(Tick)

FairSpec == Spec /\ Fairness

\* No worker executes j, and recover_interrupted refuses it: no checkpoint, or
\* another one than the row names.
Unrecoverable(j) ==
    Stranded(j) /\ (checkpoints[j] = 0 \/ checkpoints[j] # jobs[j].checkpoint_id)

\* A job that waits or runs ends: it reaches a terminal status, an operator or a
\* worker holds it, or its worker died before the first checkpoint.  Retries,
\* batches, crashes and recoveries cannot go on for ever or wait for one another
\* (worker.py _handle_connector_error, _execute; service.py recover_interrupted).
JobSettles ==
    \A j \in Jobs :
        jobs[j].status \in {"ready", "retry_wait", "running"} ~>
            \/ jobs[j].status \in TerminalStatuses \cup {"paused", "blocked"}
            \/ Unrecoverable(j)

(***************************************************************************)
(* A statement of the documentation that the code does not keep.           *)
(***************************************************************************)

\* "verification failure [is] not retried": an action the connector has performed
\* is not performed again (worker.py run_next, _handle_connector_error).
ActPerformedOnce == \A j \in Jobs : acted[j] <= 1
=============================================================================
