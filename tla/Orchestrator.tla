---------------------------- MODULE Orchestrator ----------------------------
(***************************************************************************)
(* Governed autonomous development: src/edn/development/orchestrator.py    *)
(* with the roadmap, the authority policy, the persisted development state *)
(* and the review of every attempt.                                        *)
(*                                                                         *)
(* One orchestrator writes the state file at a time.  It may die at any    *)
(* point; the next run starts from the file.  Builder, validator and       *)
(* reviewer are protocols and answer anything.  The audit sink is only     *)
(* appended to and is left out.                                            *)
(***************************************************************************)
EXTENDS Integers, FiniteSets

CONSTANTS
    TaskIds,               \* numbers, in the order in which the ids sort
    MaxTasks,              \* RunLimits.max_tasks
    MaxRepairCycles,       \* RunLimits.max_repair_cycles
    RepeatedFailureLimit,  \* RunLimits.repeated_failure_limit
    MaxRuns                \* bound: runs started

ASSUME RunLimitsAssumption ==
    /\ TaskIds \subseteq Nat \ {0} /\ IsFiniteSet(TaskIds)
    /\ MaxTasks \in Nat \ {0} /\ MaxRepairCycles \in Nat \ {0}
    /\ RepeatedFailureLimit \in Nat \ {0} /\ MaxRuns \in Nat

VARIABLES
    roadmap,      \* intelligence-core-roadmap.json
    development,  \* intelligence-core-development-state.json
    run,          \* the run in progress
    report,       \* the RunReport of the last run, and what that run met
    runs,         \* runs started
    checkpoints   \* the verdicts on checkpoints that were carried out

orchestratorVars == <<roadmap, development, run, report, runs, checkpoints>>

NoTask == 0

(***************************************************************************)
(* The authority policy.                                                   *)
(***************************************************************************)
AllowedActions == {"repository.write"}
OwnerRequiredActions == {"data.source.add"}
ProhibitedActions == {"history.rewrite"}
ActionNames == AllowedActions \cup OwnerRequiredActions \cup ProhibitedActions \cup {"undeclared"}

\* DevelopmentAuthorityPolicy.evaluate
Evaluate(actions) ==
    CASE \/ actions = {}
         \/ ~ actions \subseteq AllowedActions \cup OwnerRequiredActions \cup ProhibitedActions
                                               -> "indeterminate"
      [] OTHER -> IF actions \cap ProhibitedActions # {} THEN "prohibited"
                  ELSE IF actions \cap OwnerRequiredActions # {} THEN "owner_required" ELSE "allowed"

\* A checkpoint: where the commit is pushed, and which of the eight preconditions hold.
Preconditions == {"completed_reviewed_increment", "increment_only_changes", "validation_passed",
    "commit_message_matches_increment", "hooks_and_validation_enabled", "contains_no_secrets",
    "audit_state_recording_planned", "verify_head_equals_upstream_after_push"}

CheckpointRequest == [branch : {"feature/a", "main", "release/a", "topic"}, upstream_remote : {"origin", "fork"},
    target_remote : {"origin", "fork"}, upstream_branch : {"feature/a", "feature/b"},
    target_branch : {"feature/a", "feature/b"}, operations : {"checkpoint", "force"},
    preconditions : SUBSET Preconditions]

Conforming == [branch |-> "feature/a", upstream_remote |-> "origin", target_remote |-> "origin",
    upstream_branch |-> "feature/a", target_branch |-> "feature/a", operations |-> "checkpoint",
    preconditions |-> Preconditions]

CheckpointRequests ==
    {Conforming} \cup {[Conforming EXCEPT !.branch = b] : b \in {"main", "release/a", "topic"}}
    \cup {[Conforming EXCEPT !.upstream_remote = "fork", !.target_remote = r] : r \in {"origin", "fork"}}
    \cup {[Conforming EXCEPT !.target_remote = "fork"], [Conforming EXCEPT !.operations = "force"]}
    \cup {[Conforming EXCEPT !.upstream_branch = "feature/b"], [Conforming EXCEPT !.target_branch = "feature/b"]}
    \cup {[Conforming EXCEPT !.preconditions = Preconditions \ {p}] : p \in Preconditions}

BranchAuthorised(branch) == branch \in {"feature/a", "feature/b"}

UpstreamMatches(request) ==
    /\ request.upstream_remote = "origin" /\ request.target_remote = request.upstream_remote
    /\ request.upstream_branch = request.branch /\ request.target_branch = request.branch

\* evaluate_git_checkpoint
CheckpointAllowed(request) ==
    /\ request.operations # "force"
    /\ BranchAuthorised(request.branch)
    /\ UpstreamMatches(request)
    /\ request.preconditions = Preconditions

(***************************************************************************)
(* Roadmap and selection.                                                  *)
(***************************************************************************)
TaskStatuses == {"pending", "active", "completed", "blocked", "deferred"}

Task == [prerequisites : SUBSET TaskIds, actions : SUBSET ActionNames, tests : BOOLEAN,
         status : TaskStatuses, successor : TaskIds \cup {NoTask}]

DevelopmentState == [completed : SUBSET TaskIds, next : TaskIds \cup {NoTask}]

EligibleTasks(state, excluded) ==
    {t \in TaskIds \ excluded : /\ roadmap[t].status = "pending"
                                /\ roadmap[t].prerequisites \subseteq state.completed}

\* sorted with the recommended increment first, then by id
Before(state, t, u) ==
    \/ t = state.next /\ u # state.next
    \/ (t = state.next <=> u = state.next) /\ t < u

FirstOf(state, tasks) ==
    IF tasks = {} THEN NoTask ELSE CHOOSE t \in tasks : \A u \in tasks \ {t} : Before(state, t, u)

\* _select: the first task that policy allows, and the first one refused before it.
Selected(state, excluded) ==
    FirstOf(state, {t \in EligibleTasks(state, excluded) : Evaluate(roadmap[t].actions) = "allowed"})

RefusedBefore(state, excluded) ==
    LET task == Selected(state, excluded)
    IN {t \in EligibleTasks(state, excluded) :
            Evaluate(roadmap[t].actions) # "allowed" /\ (task = NoTask \/ Before(state, t, task))}

Escalation(state, excluded) == FirstOf(state, RefusedBefore(state, excluded))

Or(task, otherwise) == IF task # NoTask THEN task ELSE otherwise

(***************************************************************************)
(* Runs.                                                                   *)
(***************************************************************************)
Signatures == {"same", "other", "review_failure"}

\* refused is every task this run was refused, by policy or by a reviewer.
Run == [phase : {"idle", "loop", "execute", "save"}, state : DevelopmentState,
        completed : SUBSET TaskIds, excluded : SUBSET TaskIds,
        pending : TaskIds \cup {NoTask}, task : TaskIds \cup {NoTask},
        cycle : 0 .. MaxRepairCycles, failures : [Signatures -> 0 .. RepeatedFailureLimit],
        refused : SUBSET TaskIds]

NoFailures == [s \in Signatures |-> 0]

NoRun == [phase |-> "idle", state |-> [completed |-> {}, next |-> NoTask], completed |-> {}, excluded |-> {},
          pending |-> NoTask, task |-> NoTask, cycle |-> 0, failures |-> NoFailures, refused |-> {}]

StopReasons == {"none", "unexpected_repository_state", "elapsed_budget_exhausted", "owner_authority_required",
                "no_eligible_task", "task_budget_reached"}

Report == [reason : StopReasons, escalation : TaskIds \cup {NoTask}, completed : SUBSET TaskIds,
           refused : SUBSET TaskIds]

Stop(reason, escalation, refused) ==
    /\ run' = NoRun
    /\ report' = [reason |-> reason, escalation |-> escalation, completed |-> run.completed,
                  refused |-> refused]
    /\ UNCHANGED <<roadmap, development, runs, checkpoints>>

\* DevelopmentRoadmap.load refuses unknown prerequisites; ids are the keys here.
Roadmaps ==
    LET tasks(t) == [prerequisites : SUBSET (TaskIds \ {t}), tests : {TRUE}, status : {"pending"},
                     successor : TaskIds \cup {NoTask},
                     actions : {{}, {"repository.write"}, {"repository.write", "data.source.add"},
                                {"history.rewrite"}, {"undeclared"}}]
        routine == [prerequisites |-> {}, tests |-> TRUE, status |-> "pending", successor |-> NoTask,
                    actions |-> {"repository.write"}]
        choices == (UNION {tasks(t) : t \in TaskIds}) \cup {[routine EXCEPT !.tests = FALSE],
                    [routine EXCEPT !.status = "deferred"], [routine EXCEPT !.status = "completed"]}
    IN {r \in [TaskIds -> choices] : \A t \in TaskIds : t \notin r[t].prerequisites}

OrchestratorInit ==
    /\ roadmap \in Roadmaps
    /\ development = [completed |-> {}, next |-> NoTask]
    /\ run = NoRun
    /\ report = [reason |-> "none", escalation |-> NoTask, completed |-> {}, refused |-> {}]
    /\ runs = 0
    /\ checkpoints = {}

\* validate_repository: the branch is the recorded one and no path is dirty but expected ones.
RepositoryExpected(snapshot) == snapshot.branch = "recorded" /\ snapshot.dirty \subseteq {"expected"}

Snapshot == [branch : {"recorded", "other"}, dirty : SUBSET {"expected", "stray"}]

StartRun(snapshot) ==
    /\ run.phase = "idle" /\ runs < MaxRuns
    /\ RepositoryExpected(snapshot)
    /\ run' = [NoRun EXCEPT !.phase = "loop", !.state = development]
    /\ runs' = runs + 1
    /\ UNCHANGED <<roadmap, development, report, checkpoints>>

RefuseRun(snapshot) ==
    /\ run.phase = "idle"
    /\ ~ RepositoryExpected(snapshot)
    /\ Stop("unexpected_repository_state", NoTask, {})

TaskBudgetReached ==
    /\ run.phase = "loop" /\ Cardinality(run.completed) >= MaxTasks
    /\ Stop("task_budget_reached", run.pending, run.refused)

MayGoOn == run.phase = "loop" /\ Cardinality(run.completed) < MaxTasks

\* A mutant: the report of a run that ran out of time forgets the pending escalation.
ElapsedBudgetExhaustedSilent ==
    /\ MayGoOn
    /\ Stop("elapsed_budget_exhausted", NoTask, run.refused)

ElapsedBudgetExhausted ==
    /\ MayGoOn
    /\ Stop("elapsed_budget_exhausted", run.pending, run.refused)

NothingSelected ==
    LET escalation == Escalation(run.state, run.excluded)
    IN /\ MayGoOn
       /\ Selected(run.state, run.excluded) = NoTask
       /\ Stop(IF escalation # NoTask THEN "owner_authority_required" ELSE "no_eligible_task",
               Or(escalation, run.pending),
               run.refused \cup RefusedBefore(run.state, run.excluded))

\* A mutant: a task that was given up may be selected again.
SelectTaskAgain ==
    LET task == Selected(run.state, run.excluded)
    IN /\ MayGoOn
       /\ task # NoTask
       /\ run' = [run EXCEPT !.phase = "execute", !.task = task, !.cycle = 0, !.failures = NoFailures,
                    !.pending = Or(@, Escalation(run.state, run.excluded)),
                    !.refused = @ \cup RefusedBefore(run.state, run.excluded)]
       /\ UNCHANGED <<roadmap, development, report, runs, checkpoints>>

\* The loop of run selects the next task and never considers it again in this run.
SelectTask ==
    LET task == Selected(run.state, run.excluded)
    IN /\ MayGoOn
       /\ task # NoTask
       /\ run' = [run EXCEPT !.phase = "execute", !.task = task, !.cycle = 0, !.failures = NoFailures,
                    !.pending = Or(@, Escalation(run.state, run.excluded)),
                    !.excluded = @ \cup {task},
                    !.refused = @ \cup RefusedBefore(run.state, run.excluded)]
       /\ UNCHANGED <<roadmap, development, report, runs, checkpoints>>

\* BaselineReviewer; another reviewer may find more, never less.
BaselineReview(task, passed) ==
    IF ~ passed THEN "repair" ELSE IF ~ roadmap[task].tests THEN "owner_required" ELSE "pass"

OwnerFinding ==
    /\ run.phase = "execute"
    /\ Stop("owner_authority_required", run.task, run.refused \cup {run.task})

AttemptPassed ==
    /\ run.phase = "execute"
    /\ BaselineReview(run.task, TRUE) = "pass"
    /\ run' = [run EXCEPT !.phase = "save"]
    /\ UNCHANGED <<roadmap, development, report, runs, checkpoints>>

\* The task at hand is passed over and the loop of run goes on.
PassOver ==
    run' = [run EXCEPT !.phase = "loop", !.task = NoTask, !.cycle = 0, !.failures = NoFailures]

\* The builder recommended no commit: the None it answers reads as a task given up, and
\* work that passed validation and review is not recorded as completed.
PassedUnrecommended ==
    /\ run.phase = "execute"
    /\ BaselineReview(run.task, TRUE) = "pass"
    /\ PassOver
    /\ UNCHANGED <<roadmap, development, report, runs, checkpoints>>

\* A mutant: one more cycle than the limits allow.
GivesUpLate(signature) ==
    run.failures[signature] + 1 > RepeatedFailureLimit \/ run.cycle > MaxRepairCycles

\* The builder, the validator or the reviewer was not content: repair, or give the task up.
GivesUp(signature) ==
    run.failures[signature] + 1 >= RepeatedFailureLimit \/ run.cycle >= MaxRepairCycles

AttemptFailed(signature) ==
    /\ run.phase = "execute"
    /\ IF GivesUp(signature) THEN PassOver
       ELSE run' = [run EXCEPT !.cycle = @ + 1, !.failures[signature] = @ + 1]
    /\ UNCHANGED <<roadmap, development, report, runs, checkpoints>>

\* _complete_state, then the state file is replaced in one step.
SaveState ==
    LET state == [completed |-> run.state.completed \cup {run.task}, next |-> roadmap[run.task].successor]
    IN /\ run.phase = "save"
       /\ development' = state
       /\ run' = [run EXCEPT !.phase = "loop", !.state = state, !.completed = @ \cup {run.task},
                             !.task = NoTask, !.cycle = 0, !.failures = NoFailures]
       /\ UNCHANGED <<roadmap, report, runs, checkpoints>>

RunDies ==
    /\ run.phase # "idle"
    /\ run' = NoRun
    /\ UNCHANGED <<roadmap, development, report, runs, checkpoints>>

\* The shell adapter asks before it commits and pushes what a run has prepared.
Checkpoint(request) ==
    /\ run.phase = "idle" /\ report.completed # {}
    /\ CheckpointAllowed(request)
    /\ checkpoints' = checkpoints \cup {request}
    /\ UNCHANGED <<roadmap, development, run, report, runs>>

RunStep ==
    \/ TaskBudgetReached \/ ElapsedBudgetExhausted \/ NothingSelected \/ SelectTask
    \/ AttemptPassed \/ PassedUnrecommended \/ OwnerFinding \/ SaveState
    \/ \E signature \in Signatures : AttemptFailed(signature)

OrchestratorNext ==
    \/ \E snapshot \in Snapshot : StartRun(snapshot) \/ RefuseRun(snapshot)
    \/ RunStep
    \/ RunDies
    \/ \E request \in CheckpointRequests : Checkpoint(request)

(***************************************************************************)
(* Properties.                                                             *)
(***************************************************************************)
OrchestratorTypeOK ==
    /\ roadmap \in [TaskIds -> Task]
    /\ development \in DevelopmentState
    /\ run \in Run
    /\ report \in Report
    /\ runs \in 0 .. MaxRuns
    /\ checkpoints \subseteq CheckpointRequest

\* A task that policy or a reviewer refused is never passed over in silence: whatever
\* the run went on to do and however it stopped, its report carries an escalation, and
\* the one it carries is of a task it was refused (run, _select, _execute_task).
EscalationVisible ==
    /\ report.refused # {} => report.escalation # NoTask
    /\ report.escalation # NoTask => report.escalation \in report.refused

\* What was committed and pushed went to the exact upstream of a feature branch, with
\* every precondition (evaluate_git_checkpoint).
CheckpointConfined ==
    \A c \in checkpoints :
        /\ c.branch = "feature/a" /\ c.operations = "checkpoint"
        /\ {c.upstream_remote, c.target_remote} = {"origin"}
        /\ {c.upstream_branch, c.target_branch} = {c.branch}
        /\ \A p \in Preconditions : p \in c.preconditions

\* What a run may still do: the tasks it has not selected, and for the task at hand the
\* repair cycles that are left.
WorkLeft(r) ==
    Cardinality(TaskIds \ r.excluded) * (MaxRepairCycles + 3)
      + CASE r.phase = "execute" -> 2 + MaxRepairCycles - r.cycle
          [] r.phase = "save" -> 1
          [] OTHER -> 0

\* Every run ends, whatever builder and reviewer answer and whatever fails again and
\* again: each step of a run that does not stop it leaves it less to do, so a run has
\* at most as many steps as its first state has work (the limits of run, _execute_task).
RunDescends ==
    [][run.phase # "idle" /\ run'.phase # "idle" => WorkLeft(run') < WorkLeft(run)]_run
=============================================================================
