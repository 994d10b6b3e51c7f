--------------------------- MODULE DailyOperations ---------------------------
(***************************************************************************)
(* The daily scheduler of src/edn/intelligence/operations.py: one schedule *)
(* row, one run row per scheduled instant, and callers that tick, retry,   *)
(* mark a run missed or recover an interrupted one.                        *)
(*                                                                         *)
(* Each call of the store is a transaction of its own and is one action;   *)
(* a caller keeps the schedule it read at the start and writes all of it   *)
(* back at the end.  Slot s is the s-th scheduled instant and is due when  *)
(* the clock has reached s.  completed stands for completed_with_gaps too: *)
(* nothing in the scheduler tells them apart.  Audit events, which nothing *)
(* reads back, are left out.                                               *)
(***************************************************************************)
EXTENDS Integers

CONSTANTS
    Callers,      \* processes that use the scheduler
    Calls,        \* the calls they make
    Horizon,      \* bound: the last slot that becomes due
    MaxFailures,  \* bound: attempts of a slot whose runner may fail
    MaxCrashes    \* bound: processes that die in the middle of a call

AllCalls == {"tick", "retry", "mark_missed", "recover"}

ASSUME CallsAssumption == Calls \subseteq AllCalls
ASSUME HorizonAssumption == Horizon \in Nat
ASSUME FailuresAssumption == MaxFailures \in Nat
ASSUME CrashAssumption == MaxCrashes \in Nat

VARIABLES
    schedule,  \* table daily_schedules: its one row
    runs,      \* table daily_runs: the row of each slot
    calls,     \* the call each caller is in and the rows it holds
    clock,     \* environment: the slots that are due
    crashes

vars == <<schedule, runs, calls, clock, crashes>>

Slots == 1 .. Horizon + 1
Instants == 0 .. Horizon

Statuses == {"absent", "running", "completed", "failed", "missed"}

\* next is next_expected_run, 0 before the schedule is initialised; success is
\* last_successful_run, 0 for None.
Schedule == [next : 0 .. Horizon + 1, success : Instants]

Run == [status : Statuses, attempt : Nat, completed_at : Instants]

NoRun == [status |-> "absent", attempt |-> 0, completed_at |-> 0]

Steps == {"idle", "lookup", "claim", "reclaim", "interrupt", "reread", "attempted",
          "runner", "store", "refresh", "advance"}

Call == [kind : {"none"} \cup AllCalls, step : Steps, now : Instants, slot : Slots,
         schedule : Schedule, run : Run]

\* mutant: the first run is a day late
InitialisedLate ==
    IF schedule.next = 0 THEN [schedule EXCEPT !.next = clock + 2] ELSE schedule

\* DailySchedule.initialise, then INSERT OR IGNORE: the first instant after now,
\* unless there is a schedule already.
Initialised ==
    IF schedule.next = 0 THEN [schedule EXCEPT !.next = clock + 1] ELSE schedule

NoCall == [kind |-> "none", step |-> "idle", now |-> 0, slot |-> 1,
           schedule |-> [next |-> 0, success |-> 0], run |-> NoRun]

\* A caller goes on, returns or raises.
Goto(c, step) == calls' = [calls EXCEPT ![c].step = step]
Leave(c) == calls' = [calls EXCEPT ![c] = NoCall]

\* c has made the slot's row running and has not yet stored the outcome.
ExecutingAt == {"reread", "attempted", "runner", "store"}
Executes(c, s) == calls[c].step \in ExecutingAt /\ calls[c].slot = s

(***************************************************************************)
(* tick and mark_missed begin with the schedule.                           *)
(***************************************************************************)

\* mutant: a run begins one instant before it is due
StartEarly(c, kind) ==
    /\ calls[c].step = "idle"
    /\ kind \in Calls \cap {"tick", "mark_missed"}
    /\ schedule' = Initialised
    /\ IF clock + 1 < Initialised.next
       THEN UNCHANGED calls
       ELSE calls' = [calls EXCEPT ![c] =
                [kind |-> kind, step |-> "lookup", now |-> clock,
                 slot |-> Initialised.next, schedule |-> Initialised, run |-> NoRun]]
    /\ UNCHANGED <<runs, clock, crashes>>

Start(c, kind) ==
    /\ calls[c].step = "idle"
    /\ kind \in Calls \cap {"tick", "mark_missed"}
    /\ schedule' = Initialised
    /\ IF clock < Initialised.next
       THEN UNCHANGED calls
       ELSE calls' = [calls EXCEPT ![c] =
                [kind |-> kind, step |-> "lookup", now |-> clock,
                 slot |-> Initialised.next, schedule |-> Initialised, run |-> NoRun]]
    /\ UNCHANGED <<runs, clock, crashes>>

\* mutant: a completed run does not catch the schedule up
LookupNoCatchUp(c) ==
    /\ calls[c].step = "lookup"
    /\ IF runs[calls[c].slot].status = "absent" THEN Goto(c, "claim") ELSE Leave(c)
    /\ UNCHANGED <<schedule, runs, clock, crashes>>

\* mutant: any existing run catches the schedule up
LookupCatchUpAlways(c) ==
    /\ calls[c].step = "lookup"
    /\ LET existing == runs[calls[c].slot]
       IN  IF existing.status = "absent" THEN Goto(c, "claim")
           ELSE calls' = [calls EXCEPT ![c].step = "advance", ![c].run = existing]
    /\ UNCHANGED <<schedule, runs, clock, crashes>>

\* get_run_for_schedule_time: an existing run ends the call; tick catches the
\* schedule up when that run is completed.
Lookup(c) ==
    /\ calls[c].step = "lookup"
    /\ LET existing == runs[calls[c].slot]
       IN  CASE existing.status = "absent" -> Goto(c, "claim")
             [] existing.status = "completed" /\ calls[c].kind = "tick" ->
                    calls' = [calls EXCEPT ![c].step = "advance", ![c].run = existing]
             [] OTHER -> Leave(c)
    /\ UNCHANGED <<schedule, runs, clock, crashes>>

\* mutant: the claim is an upsert
ClaimRunUpsert(c) ==
    LET run == [status |-> "running", attempt |-> 1, completed_at |-> 0]
    IN  /\ calls[c].step = "claim"
        /\ runs' = [runs EXCEPT ![calls[c].slot] = run]
        /\ calls' = [calls EXCEPT ![c].run = run, ![c].step = "attempted"]
        /\ UNCHANGED <<schedule, clock, crashes>>

\* claim_run, an INSERT: a row that exists by now is an IntegrityError, and tick
\* returns that row while mark_missed raises.
ClaimRun(c) ==
    LET call == calls[c]
        run  == IF call.kind = "tick"
                THEN [status |-> "running", attempt |-> 1, completed_at |-> 0]
                ELSE [status |-> "missed", attempt |-> 1, completed_at |-> call.now]
    IN  /\ call.step = "claim"
        /\ IF runs[call.slot].status = "absent"
           THEN /\ runs' = [runs EXCEPT ![call.slot] = run]
                /\ calls' = [calls EXCEPT ![c].run = run,
                        ![c].step = IF call.kind = "tick" THEN "attempted" ELSE "advance"]
           ELSE /\ Leave(c)
                /\ UNCHANGED runs
        /\ UNCHANGED <<schedule, clock, crashes>>

(***************************************************************************)
(* retry and recover_interrupted begin with the run.                       *)
(***************************************************************************)
Retry(c, s) ==
    /\ calls[c].step = "idle"
    /\ "retry" \in Calls
    /\ runs[s].status = "failed"
    /\ calls' = [calls EXCEPT ![c] = [NoCall EXCEPT !.kind = "retry", !.step = "reclaim",
                    !.now = clock, !.slot = s, !.run = runs[s]]]
    /\ UNCHANGED <<schedule, runs, clock, crashes>>

\* "the owner must stop the prior process before invoking this local recovery
\* operation": the call is made for a running row nobody executes.
Recover(c, s) ==
    /\ calls[c].step = "idle"
    /\ "recover" \in Calls
    /\ runs[s].status = "running"
    /\ \A d \in Callers : ~Executes(d, s)
    /\ calls' = [calls EXCEPT ![c] = [NoCall EXCEPT !.kind = "recover", !.step = "interrupt",
                    !.now = clock, !.slot = s, !.run = runs[s]]]
    /\ UNCHANGED <<schedule, runs, clock, crashes>>

\* mutant: only the status column is compared
UnchangedStatus(s, previous) == runs[s].status = previous.status

\* UPDATE ... WHERE payload_json = the row the caller has read.
Unchanged(s, previous) == runs[s] = previous

\* transition_run of retry: the next attempt is running.
ClaimRetry(c) ==
    LET call == calls[c]
        run  == [status |-> "running", attempt |-> call.run.attempt + 1, completed_at |-> 0]
    IN  /\ call.step = "reclaim"
        /\ IF Unchanged(call.slot, call.run)
           THEN /\ runs' = [runs EXCEPT ![call.slot] = run]
                /\ calls' = [calls EXCEPT ![c].run = run, ![c].step = "reread"]
           ELSE Leave(c) /\ UNCHANGED runs
        /\ UNCHANGED <<schedule, clock, crashes>>

\* transition_run of recover_interrupted: the attempt has failed.
Interrupt(c) ==
    LET call == calls[c]
    IN  /\ call.step = "interrupt"
        /\ runs' = IF Unchanged(call.slot, call.run)
                   THEN [runs EXCEPT ![call.slot].status = "failed",
                                     ![call.slot].completed_at = call.now]
                   ELSE runs
        /\ Leave(c)
        /\ UNCHANGED <<schedule, clock, crashes>>

\* retry reads the schedule before each of its two writes of it.
ReadSchedule(c) ==
    /\ calls[c].step \in {"reread", "refresh"}
    /\ calls' = [calls EXCEPT ![c].schedule = schedule,
            ![c].step = IF @ = "reread" THEN "attempted" ELSE "advance"]
    /\ UNCHANGED <<schedule, runs, clock, crashes>>

(***************************************************************************)
(* The rest of tick and retry.                                             *)
(***************************************************************************)

\* save_schedule with last_attempted_run: the whole row the caller has.
SaveAttempted(c) ==
    /\ calls[c].step = "attempted"
    /\ schedule' = calls[c].schedule
    /\ Goto(c, "runner")
    /\ UNCHANGED <<runs, clock, crashes>>

RunnerOutcome(c, status) ==
    /\ calls[c].step = "runner"
    /\ calls' = [calls EXCEPT ![c].step = "store", ![c].run =
            [@ EXCEPT !.status = status, !.completed_at = calls[c].now]]
    /\ UNCHANGED <<schedule, runs, clock, crashes>>

RunnerReturns(c) == RunnerOutcome(c, "completed")

RunnerFails(c) == calls[c].run.attempt <= MaxFailures /\ RunnerOutcome(c, "failed")

\* save_run, also in _fail: an upsert that compares nothing.
SaveRun(c) ==
    LET call == calls[c]
    IN  /\ call.step = "store"
        /\ runs' = [runs EXCEPT ![call.slot] = call.run]
        /\ IF call.run.status = "failed" THEN Leave(c)
           ELSE Goto(c, IF call.kind = "tick" THEN "advance" ELSE "refresh")
        /\ UNCHANGED <<schedule, clock, crashes>>

\* mutant: a missed run counts as a success
SaveAdvancedSuccess(c) ==
    /\ calls[c].step = "advance"
    /\ schedule' = [next |-> calls[c].slot + 1, success |-> calls[c].run.completed_at]
    /\ Leave(c)
    /\ UNCHANGED <<runs, clock, crashes>>

\* save_schedule of the caller's schedule, advanced past the slot.
SaveAdvanced(c) ==
    LET call == calls[c]
    IN  /\ call.step = "advance"
        /\ schedule' = [next |-> call.slot + 1,
                        success |-> IF call.kind = "mark_missed" THEN call.schedule.success
                                    ELSE call.run.completed_at]
        /\ Leave(c)
        /\ UNCHANGED <<runs, clock, crashes>>

Crash(c) ==
    /\ calls[c].step # "idle"
    /\ crashes < MaxCrashes
    /\ crashes' = crashes + 1
    /\ Leave(c)
    /\ UNCHANGED <<schedule, runs, clock>>

NextInstant ==
    /\ clock < Horizon
    /\ clock' = clock + 1
    /\ UNCHANGED <<schedule, runs, calls, crashes>>

Init ==
    /\ schedule = [next |-> 0, success |-> 0]
    /\ runs = [s \in Slots |-> NoRun]
    /\ calls = [c \in Callers |-> NoCall]
    /\ clock = 0
    /\ crashes = 0

\* What a caller does once it is in a call, other than the runner's outcome.
Step(c) ==
    \/ Lookup(c) \/ ClaimRun(c) \/ ClaimRetry(c) \/ Interrupt(c) \/ ReadSchedule(c)
    \/ SaveAttempted(c) \/ SaveRun(c) \/ SaveAdvanced(c)

Next ==
    \/ \E c \in Callers :
        \/ \E kind \in Calls : Start(c, kind)
        \/ \E s \in Slots : Retry(c, s) \/ Recover(c, s)
        \/ Step(c) \/ RunnerReturns(c) \/ RunnerFails(c) \/ Crash(c)
    \/ NextInstant

Spec == Init /\ [][Next]_vars

(***************************************************************************)
(* Properties                                                              *)
(***************************************************************************)

\* The type of the two tables, of the callers' locals and of the clock.
TypeOK ==
    /\ schedule \in Schedule
    /\ runs \in [Slots -> Run]
    /\ calls \in [Callers -> Call]
    /\ clock \in Instants
    /\ crashes \in Nat

\* Nothing happens to a slot before it is due: neither a tick nor a mark_missed nor
\* a stale schedule creates a run ahead of the clock (operations.py tick).
NothingEarly ==
    /\ \A s \in Slots : runs[s].status # "absent" => s <= clock
    /\ \A c \in Callers : calls[c].step # "idle" => calls[c].slot <= clock

\* Two callers never produce the brief of one slot at the same time, although
\* save_run compares nothing and a recovery may act on a row read long ago
\* (operations.py claim_run, transition_run).
ExclusiveRun ==
    \A c, d \in Callers, s \in Slots : Executes(c, s) /\ Executes(d, s) => c = d

\* The inductive invariant behind ExclusiveRun and ResultStable: the row of a slot
\* that is being executed is its executor's, and a recovery or retry that was
\* overtaken holds an attempt number the row has left behind.
ExecutorOwnsRow(c) ==
    calls[c].step \in ExecutingAt =>
        /\ runs[calls[c].slot].status = "running"
        /\ runs[calls[c].slot].attempt = calls[c].run.attempt

RecoveryBehind(c) ==
    calls[c].step = "interrupt" =>
        /\ calls[c].run.status = "running"
        /\ runs[calls[c].slot].status # "absent"
        /\ calls[c].run.attempt <= runs[calls[c].slot].attempt
        /\ \A d \in Callers : Executes(d, calls[c].slot)
              => calls[c].run.attempt < runs[calls[c].slot].attempt

RetryHoldsFailure(c) == calls[c].step = "reclaim" => calls[c].run.status = "failed"

OutcomeKnown(c) == calls[c].step = "store" => calls[c].run.status \in {"completed", "failed"}

OwnershipInv ==
    /\ \A c \in Callers : ExecutorOwnsRow(c) /\ RecoveryBehind(c)
    /\ \A c \in Callers : RetryHoldsFailure(c) /\ OutcomeKnown(c)
    /\ ExclusiveRun

\* A recorded result is final: a completed or missed run never changes again ("never
\* overwrites the previous result"; operations.py save_run, transition_run).
ResultStable ==
    [][\A s \in Slots : runs[s].status \in {"completed", "missed"} => runs'[s] = runs[s]]_vars

\* The schedule never skips a slot: since the first recorded run, every slot the
\* schedule has passed is completed or missed, whatever stale schedules callers
\* write back (operations.py tick, retry, mark_missed, save_schedule).
SlotsAccounted ==
    \A r, s \in Slots :
        r <= s /\ s < schedule.next /\ runs[r].status # "absent"
            => runs[s].status \in {"completed", "missed"}

\* The inductive invariant behind it.  The slots anybody may still put into the
\* schedule are the frontier; between any two of them every slot has its result.
Done(s) == runs[s].status \in {"completed", "missed"}

OnFrontier(n) ==
    \/ n = schedule.next
    \/ runs[n].status # "absent"
    \/ \E c \in Callers : calls[c].step # "idle" /\ n \in {calls[c].slot, calls[c].schedule.next}

FrontierDone ==
    \A m, n, s \in Slots : OnFrontier(m) /\ OnFrontier(n) /\ m <= s /\ s < n => Done(s)

FrontierCalls(c) ==
    /\ calls[c].step \in {"refresh", "advance"} => Done(calls[c].slot)
    /\ calls[c].step \in {"lookup", "claim", "attempted"} => calls[c].schedule.next # 0
    /\ calls[c].step \notin {"idle", "lookup", "claim"} => runs[calls[c].slot].status # "absent"

NothingScheduled ==
    schedule.next = 0 =>
        /\ \A s \in Slots : runs[s].status = "absent"
        /\ \A c \in Callers : calls[c].step = "idle"

FrontierInv == FrontierDone /\ NothingScheduled /\ \A c \in Callers : FrontierCalls(c)

\* last_successful_run is the completion of a completed run: no failed or missed
\* attempt moves it (operations.py tick, retry, _fail, mark_missed).
LastSuccessReal ==
    schedule.success = 0 \/
    \E s \in Slots : runs[s].status = "completed" /\ runs[s].completed_at = schedule.success

(***************************************************************************)
(* Liveness.  A call that began is carried on unless its process dies; the *)
(* owner keeps ticking, retries failed runs and recovers interrupted ones; *)
(* time passes.  Callers are between calls again and again, never always,  *)
(* so the calls need strong fairness.                                      *)
(***************************************************************************)
Fairness ==
    /\ \A c \in Callers : WF_vars(Step(c) \/ RunnerReturns(c))
    /\ SF_vars(\E c \in Callers : Start(c, "tick"))
    /\ SF_vars(\E c \in Callers, s \in Slots : Retry(c, s))
    /\ SF_vars(\E c \in Callers, s \in Slots : Recover(c, s))
    /\ WF_vars(NextInstant)

FairSpec == Spec /\ Fairness

\* The schedule waits for a slot whose run was recorded as missed.
StalledOnMissed ==
    schedule.next \in Slots /\ runs[schedule.next].status = "missed"

\* A slot that is due is passed, or the schedule is stalled on a missed run:
\* failures, crashes, recoveries and stale schedules cannot hold it for ever
\* (operations.py tick, retry, recover_interrupted).
ScheduleAdvances ==
    \A s \in Slots :
        schedule.next \in 1 .. s /\ s <= clock ~> schedule.next > s \/ StalledOnMissed

\* "mark_missed() records one explicit missed run and advances only one cadence": a
\* slot that is due is passed, missed or not (operations.py mark_missed).
MissedAdvances ==
    \A s \in Slots : schedule.next \in 1 .. s /\ s <= clock ~> schedule.next > s
=============================================================================
