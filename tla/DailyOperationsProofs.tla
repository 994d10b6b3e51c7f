------------------------ MODULE DailyOperationsProofs ------------------------
(***************************************************************************)
(* Proofs about the daily scheduler: its types, that a slot is executed by *)
(* one caller at a time, that results are final and that the schedule      *)
(* skips no slot, for every number of callers, slots, failures and crashes.*)
(***************************************************************************)
EXTENDS DailyOperations, TLAPS

\* Type correctness: one lemma for the rows, one step per action.
LEMMA NoCallType == NoCall \in Call /\ NoRun \in Run /\ 1 \in Slots
BY HorizonAssumption DEF NoCall, Call, NoRun, Run, Statuses, Slots, Instants, Schedule,
    Steps, AllCalls

LEMMA LeaveType == ASSUME TypeOK, NEW c \in Callers, Leave(c) PROVE calls' \in [Callers -> Call]
BY NoCallType DEF TypeOK, Leave

LEMMA GotoType ==
    ASSUME TypeOK, NEW c \in Callers, NEW step \in Steps, Goto(c, step)
    PROVE  calls' \in [Callers -> Call]
BY DEF TypeOK, Goto, Call

LEMMA StartType ==
    ASSUME TypeOK, NEW c \in Callers, NEW kind \in Calls, Start(c, kind)
    PROVE  TypeOK'
<1>1. Initialised \in Schedule
    BY HorizonAssumption DEF Initialised, TypeOK, Schedule, Instants
<1>2. clock >= Initialised.next => Initialised.next \in Slots
    BY <1>1, HorizonAssumption DEF Initialised, TypeOK, Schedule, Instants, Slots
<1>3. clock >= Initialised.next =>
        [kind |-> kind, step |-> "lookup", now |-> clock,
         slot |-> Initialised.next, schedule |-> Initialised, run |-> NoRun] \in Call
    BY <1>1, <1>2, NoCallType, CallsAssumption DEF TypeOK, Call, Steps
<1>4. clock < Initialised.next \/ clock >= Initialised.next
    BY <1>1, HorizonAssumption DEF TypeOK, Schedule, Instants
<1>5. calls' \in [Callers -> Call]
    BY <1>1, <1>3, <1>4 DEF Start, TypeOK, Instants, Schedule
<1> QED
    BY <1>1, <1>5 DEF Start, TypeOK

LEMMA LookupType == ASSUME TypeOK, NEW c \in Callers, Lookup(c) PROVE TypeOK'
<1> DEFINE existing == runs[calls[c].slot]
<1>1. existing \in Run
    BY DEF TypeOK, Call
<1>2. CASE existing.status = "absent"
    BY <1>2, GotoType DEF Lookup, TypeOK, Steps
<1>3. CASE existing.status = "completed" /\ calls[c].kind = "tick"
    <2>1. calls' = [calls EXCEPT ![c].step = "advance", ![c].run = existing]
        BY <1>3 DEF Lookup
    <2>2. calls' \in [Callers -> Call]
        BY <1>1, <2>1, ZenonT(60) DEF TypeOK, Call, Steps
    <2> QED
        BY <2>2 DEF Lookup, TypeOK
<1>4. CASE /\ existing.status # "absent"
           /\ ~(existing.status = "completed" /\ calls[c].kind = "tick")
    BY <1>4, LeaveType DEF Lookup, TypeOK
<1> QED
    BY <1>2, <1>3, <1>4

LEMMA ClaimRunType == ASSUME TypeOK, NEW c \in Callers, ClaimRun(c) PROVE TypeOK'
<1> DEFINE run == IF calls[c].kind = "tick"
                  THEN [status |-> "running", attempt |-> 1, completed_at |-> 0]
                  ELSE [status |-> "missed", attempt |-> 1, completed_at |-> calls[c].now]
           step == IF calls[c].kind = "tick" THEN "attempted" ELSE "advance"
<1>1. run \in Run /\ step \in Steps
    BY HorizonAssumption DEF TypeOK, Call, Run, Statuses, Instants, Steps
<1>2. CASE runs[calls[c].slot].status = "absent"
    <2>1. /\ runs' = [runs EXCEPT ![calls[c].slot] = run]
          /\ calls' = [calls EXCEPT ![c].run = run, ![c].step = step]
        BY <1>2 DEF ClaimRun
    <2> HIDE DEF run, step
    <2>2. runs' \in [Slots -> Run] /\ calls' \in [Callers -> Call]
        BY <1>1, <2>1 DEF TypeOK, Call
    <2> QED
        BY <2>2 DEF ClaimRun, TypeOK
<1>3. CASE runs[calls[c].slot].status # "absent"
    BY <1>3, LeaveType DEF ClaimRun, TypeOK
<1> QED
    BY <1>2, <1>3

LEMMA BeginType ==
    ASSUME TypeOK, NEW c \in Callers, NEW s \in Slots, Retry(c, s) \/ Recover(c, s)
    PROVE  TypeOK'
<1>1. ASSUME NEW kind \in AllCalls, NEW step \in Steps
      PROVE  [NoCall EXCEPT !.kind = kind, !.step = step, !.now = clock, !.slot = s,
                            !.run = runs[s]] \in Call
    BY NoCallType DEF TypeOK, Call
<1>2. calls' \in [Callers -> Call]
    BY <1>1 DEF Retry, Recover, TypeOK, AllCalls, Steps
<1> QED
    BY <1>2 DEF Retry, Recover, TypeOK

LEMMA ClaimRetryType == ASSUME TypeOK, NEW c \in Callers, ClaimRetry(c) PROVE TypeOK'
<1> DEFINE run == [status |-> "running", attempt |-> calls[c].run.attempt + 1,
                   completed_at |-> 0]
<1>1. run \in Run
    BY HorizonAssumption DEF TypeOK, Call, Run, Statuses, Instants
<1>2. CASE Unchanged(calls[c].slot, calls[c].run)
    <2>1. /\ runs' = [runs EXCEPT ![calls[c].slot] = run]
          /\ calls' = [calls EXCEPT ![c].run = run, ![c].step = "reread"]
        BY <1>2 DEF ClaimRetry
    <2> HIDE DEF run
    <2>2. runs' \in [Slots -> Run] /\ calls' \in [Callers -> Call]
        BY <1>1, <2>1, ZenonT(60) DEF TypeOK, Call, Steps
    <2> QED
        BY <2>2 DEF ClaimRetry, TypeOK
<1>3. CASE ~Unchanged(calls[c].slot, calls[c].run)
    BY <1>3, LeaveType DEF ClaimRetry, TypeOK
<1> QED
    BY <1>2, <1>3

LEMMA InterruptType == ASSUME TypeOK, NEW c \in Callers, Interrupt(c) PROVE TypeOK'
<1>1. runs' \in [Slots -> Run]
    BY DEF Interrupt, TypeOK, Call, Run, Statuses
<1>2. calls' \in [Callers -> Call]
    BY LeaveType DEF Interrupt
<1> QED
    BY <1>1, <1>2 DEF Interrupt, TypeOK

LEMMA ScheduleType ==
    ASSUME TypeOK, NEW c \in Callers, ReadSchedule(c) \/ SaveAttempted(c)
    PROVE  TypeOK'
<1>1. CASE ReadSchedule(c)
    BY <1>1 DEF ReadSchedule, TypeOK, Call, Steps
<1>2. CASE SaveAttempted(c)
    BY <1>2, GotoType DEF SaveAttempted, TypeOK, Call, Steps
<1> QED
    BY <1>1, <1>2

LEMMA OutcomeType ==
    ASSUME TypeOK, NEW c \in Callers, NEW status \in Statuses, RunnerOutcome(c, status)
    PROVE  TypeOK'
<1> DEFINE run == [calls[c].run EXCEPT !.status = status, !.completed_at = calls[c].now]
<1>1. run \in Run
    BY DEF TypeOK, Call, Run
<1>2. calls' = [calls EXCEPT ![c].step = "store", ![c].run = run]
    BY DEF RunnerOutcome
<1> HIDE DEF run
<1>3. calls' \in [Callers -> Call]
    BY <1>1, <1>2, ZenonT(60) DEF TypeOK, Call, Steps
<1> QED
    BY <1>3 DEF RunnerOutcome, TypeOK

LEMMA SaveRunType == ASSUME TypeOK, NEW c \in Callers, SaveRun(c) PROVE TypeOK'
<1>1. runs' \in [Slots -> Run]
    BY DEF SaveRun, TypeOK, Call
<1>2. Leave(c) \/ Goto(c, "advance") \/ Goto(c, "refresh")
    BY DEF SaveRun
<1>3. calls' \in [Callers -> Call]
    BY <1>2, LeaveType, GotoType DEF Steps
<1> QED
    BY <1>1, <1>3 DEF SaveRun, TypeOK

LEMMA SaveAdvancedType ==
    ASSUME TypeOK, NothingEarly, NEW c \in Callers, SaveAdvanced(c)
    PROVE  TypeOK'
<1>1. calls[c].slot + 1 \in 0 .. Horizon + 1
    BY HorizonAssumption DEF SaveAdvanced, NothingEarly, TypeOK, Call, Slots, Instants
<1>2. schedule' \in Schedule
    BY <1>1 DEF SaveAdvanced, TypeOK, Call, Schedule, Run
<1> QED
    BY <1>2, LeaveType DEF SaveAdvanced, TypeOK

\* Nothing is early: a slot enters a call when it is due, and only from a call a row.
LEMMA EarlyNext ==
    ASSUME TypeOK, NothingEarly, [Next]_vars
    PROVE  NothingEarly'
<1>1. ASSUME NEW c \in Callers, NEW kind \in Calls, Start(c, kind)
      PROVE  NothingEarly'
    <2>1. Initialised.next \in Int
        BY HorizonAssumption DEF Initialised, TypeOK, Schedule, Instants
    <2>2. CASE clock < Initialised.next
        BY <1>1, <2>2 DEF Start, NothingEarly
    <2>3. CASE ~(clock < Initialised.next)
        <3>1. \A d \in Callers : d # c => calls'[d] = calls[d]
            BY <1>1, <2>3 DEF Start, TypeOK
        <3>2. calls'[c].slot = Initialised.next
            BY <1>1, <2>3 DEF Start, TypeOK
        <3> QED
            BY <1>1, <2>1, <2>3, <3>1, <3>2, HorizonAssumption
            DEF Start, NothingEarly, TypeOK, Instants
    <2> QED
        BY <2>2, <2>3
<1>2. ASSUME NEW c \in Callers, NEW s \in Slots, Retry(c, s) \/ Recover(c, s)
      PROVE  NothingEarly'
    <2>1. /\ \A d \in Callers : d # c => calls'[d] = calls[d]
          /\ calls'[c].slot = s
        BY <1>2 DEF Retry, Recover, TypeOK, NoCall
    <2> QED
        BY <1>2, <2>1 DEF Retry, Recover, NothingEarly, TypeOK
<1>3. ASSUME NEW c \in Callers, Step(c) \/ RunnerReturns(c) \/ RunnerFails(c) \/ Crash(c)
      PROVE  NothingEarly'
    <2>1. /\ clock' = clock
          /\ calls[c].step # "idle"
        BY <1>3 DEF Step, Lookup, ClaimRun, ClaimRetry, Interrupt, ReadSchedule,
            SaveAttempted, SaveRun, SaveAdvanced, RunnerReturns, RunnerFails,
            RunnerOutcome, Crash
    <2>2. \A d \in Callers : d # c => calls'[d] = calls[d]
        BY <1>3 DEF Step, Lookup, ClaimRun, ClaimRetry, Interrupt, ReadSchedule,
            SaveAttempted, SaveRun, SaveAdvanced, RunnerReturns, RunnerFails,
            RunnerOutcome, Crash, Goto, Leave, TypeOK
    <2>3. calls'[c].step = "idle" \/ calls'[c].slot = calls[c].slot
        BY <1>3 DEF Step, Lookup, ClaimRun, ClaimRetry, Interrupt, ReadSchedule,
            SaveAttempted, SaveRun, SaveAdvanced, RunnerReturns, RunnerFails,
            RunnerOutcome, Crash, Goto, Leave, NoCall, TypeOK, Call
    <2>4. \A s \in Slots : s # calls[c].slot => runs'[s] = runs[s]
        BY <1>3 DEF Step, Lookup, ClaimRun, ClaimRetry, Interrupt, ReadSchedule,
            SaveAttempted, SaveRun, SaveAdvanced, RunnerReturns, RunnerFails,
            RunnerOutcome, Crash, TypeOK
    <2> QED
        BY <2>1, <2>2, <2>3, <2>4 DEF NothingEarly
<1>4. CASE NextInstant
    BY <1>4, HorizonAssumption DEF NextInstant, NothingEarly, TypeOK, Slots, Instants, Call
<1>5. CASE UNCHANGED vars
    BY <1>5 DEF vars, NothingEarly
<1> QED
    BY <1>1, <1>2, <1>3, <1>4, <1>5 DEF Next

LEMMA TypeNext ==
    ASSUME TypeOK, NothingEarly, [Next]_vars
    PROVE  TypeOK'
<1>1. ASSUME NEW c \in Callers, Step(c) PROVE TypeOK'
    BY <1>1, LookupType, ClaimRunType, ClaimRetryType, InterruptType, ScheduleType,
        SaveRunType, SaveAdvancedType DEF Step
<1>2. ASSUME NEW c \in Callers, RunnerReturns(c) \/ RunnerFails(c) PROVE TypeOK'
    BY <1>2, OutcomeType DEF RunnerReturns, RunnerFails, Statuses
<1>3. ASSUME NEW c \in Callers, Crash(c) PROVE TypeOK'
    BY <1>3, LeaveType DEF Crash, TypeOK
<1>4. CASE NextInstant
    BY <1>4, HorizonAssumption DEF NextInstant, TypeOK, Instants
<1>5. CASE UNCHANGED vars
    BY <1>5 DEF vars, TypeOK
<1> QED
    BY <1>1, <1>2, <1>3, <1>4, <1>5, StartType, BeginType DEF Next

\* The scheduler's tables and locals keep their types and nothing is early: no call
\* creates or changes a run before its slot is due (operations.py tick, mark_missed).
THEOREM TypeCorrect == Spec => [](TypeOK /\ NothingEarly)
<1>1. Init => TypeOK /\ NothingEarly
    BY NoCallType, HorizonAssumption
    DEF Init, TypeOK, NothingEarly, Schedule, Instants, NoCall, NoRun
<1>2. TypeOK /\ NothingEarly /\ [Next]_vars => (TypeOK /\ NothingEarly)'
    BY TypeNext, EarlyNext
<1> QED
    BY <1>1, <1>2, PTL DEF Spec

\* Ownership.  A step of c that changes no run, and makes c neither an executor nor
\* the holder of a run to recover or retry, preserves the invariant.
LEMMA QuietStep ==
    ASSUME TypeOK, OwnershipInv, NEW c \in Callers, runs' = runs,
           \A d \in Callers : d # c => calls'[d] = calls[d],
           calls'[c].step \notin {"interrupt", "reclaim"},
           calls'[c].step \in ExecutingAt =>
               /\ calls[c].step \in ExecutingAt
               /\ calls'[c].slot = calls[c].slot
               /\ calls'[c].run.attempt = calls[c].run.attempt,
           calls'[c].step = "store" => calls'[c].run.status \in {"completed", "failed"}
    PROVE  OwnershipInv'
<1>1. \A d \in Callers, s \in Slots : Executes(d, s)' => Executes(d, s)
    BY DEF Executes
<1>2. ExclusiveRun'
    BY <1>1 DEF OwnershipInv, ExclusiveRun
<1>3. ASSUME NEW d \in Callers PROVE ExecutorOwnsRow(d)'
    <2>1. CASE d = c
        BY <2>1 DEF OwnershipInv, ExecutorOwnsRow
    <2>2. CASE d # c
        BY <2>2 DEF OwnershipInv, ExecutorOwnsRow
    <2> QED
        BY <2>1, <2>2
<1>4. ASSUME NEW d \in Callers PROVE RecoveryBehind(d)'
    <2>1. CASE d = c
        BY <2>1 DEF RecoveryBehind
    <2>2. CASE d # c
        <3>1. calls'[d] = calls[d] /\ calls[d].slot \in Slots
            BY <2>2 DEF TypeOK, Call
        <3>2. RecoveryBehind(d)
            BY DEF OwnershipInv
        <3> QED
            BY <1>1, <3>1, <3>2 DEF RecoveryBehind
    <2> QED
        BY <2>1, <2>2
<1>5. ASSUME NEW d \in Callers PROVE RetryHoldsFailure(d)' /\ OutcomeKnown(d)'
    BY DEF OwnershipInv, RetryHoldsFailure, OutcomeKnown
<1> QED
    BY <1>2, <1>3, <1>4, <1>5 DEF OwnershipInv

LEMMA Left ==
    ASSUME TypeOK, NEW c \in Callers, Leave(c)
    PROVE  /\ calls'[c].step = "idle"
           /\ \A d \in Callers : d # c => calls'[d] = calls[d]
BY DEF TypeOK, Leave, NoCall

LEMMA QuietOwnership ==
    ASSUME TypeOK, OwnershipInv, NEW c \in Callers,
           \/ \E kind \in Calls : Start(c, kind)
           \/ Lookup(c) \/ ReadSchedule(c) \/ SaveAttempted(c) \/ SaveAdvanced(c)
           \/ RunnerReturns(c) \/ RunnerFails(c) \/ Crash(c)
    PROVE  OwnershipInv'
<1>1. CASE \E kind \in Calls : Start(c, kind)
    <2>1. PICK kind \in Calls : Start(c, kind)
        BY <1>1
    <2>2. calls' = calls \/ calls'[c].step = "lookup"
        BY <2>1 DEF Start, TypeOK
    <2>3. \A d \in Callers : d # c => calls'[d] = calls[d]
        BY <2>1 DEF Start, TypeOK
    <2> QED
        BY <2>1, <2>2, <2>3, QuietStep DEF Start, ExecutingAt
<1>2. CASE Lookup(c)
    <2>1. /\ calls'[c].step \in {"claim", "advance", "idle"}
          /\ \A d \in Callers : d # c => calls'[d] = calls[d]
        BY <1>2 DEF Lookup, Goto, Leave, NoCall, TypeOK, Call
    <2> QED
        BY <1>2, <2>1, QuietStep DEF Lookup, ExecutingAt
<1>3. CASE ReadSchedule(c)
    <2>1. /\ calls'[c].step \in {"attempted", "advance"}
          /\ calls[c].step \in {"reread", "refresh"}
          /\ calls[c].step = "refresh" => calls'[c].step = "advance"
          /\ calls'[c].slot = calls[c].slot
          /\ calls'[c].run = calls[c].run
          /\ \A d \in Callers : d # c => calls'[d] = calls[d]
        BY <1>3 DEF ReadSchedule, TypeOK, Call
    <2> QED
        BY <1>3, <2>1, QuietStep DEF ReadSchedule, ExecutingAt
<1>4. CASE SaveAttempted(c)
    <2>1. /\ calls'[c].step = "runner"
          /\ calls[c].step = "attempted"
          /\ calls'[c].slot = calls[c].slot
          /\ calls'[c].run = calls[c].run
          /\ \A d \in Callers : d # c => calls'[d] = calls[d]
        BY <1>4 DEF SaveAttempted, Goto, TypeOK, Call
    <2> QED
        BY <1>4, <2>1, QuietStep DEF SaveAttempted, ExecutingAt
<1>5. CASE SaveAdvanced(c) \/ Crash(c)
    BY <1>5, Left, QuietStep DEF SaveAdvanced, Crash, ExecutingAt
<1>6. ASSUME NEW status \in {"completed", "failed"}, RunnerOutcome(c, status)
      PROVE  OwnershipInv'
    <2>1. /\ calls'[c].step = "store"
          /\ calls[c].step = "runner"
          /\ calls'[c].slot = calls[c].slot
          /\ calls'[c].run.attempt = calls[c].run.attempt
          /\ calls'[c].run.status = status
          /\ \A d \in Callers : d # c => calls'[d] = calls[d]
        BY <1>6 DEF RunnerOutcome, TypeOK, Call, Run
    <2> QED
        BY <1>6, <2>1, QuietStep DEF RunnerOutcome, ExecutingAt
<1> QED
    BY <1>1, <1>2, <1>3, <1>4, <1>5, <1>6 DEF RunnerReturns, RunnerFails

LEMMA BeginOwnership ==
    ASSUME TypeOK, OwnershipInv, NEW c \in Callers, NEW s \in Slots,
           Retry(c, s) \/ Recover(c, s)
    PROVE  OwnershipInv'
<1>1. /\ runs' = runs
      /\ calls'[c].slot = s
      /\ calls'[c].run = runs[s]
      /\ \A d \in Callers : d # c => calls'[d] = calls[d]
    BY DEF Retry, Recover, TypeOK, NoCall
<1>2. \/ calls'[c].step = "reclaim" /\ runs[s].status = "failed"
      \/ /\ calls'[c].step = "interrupt"
         /\ runs[s].status = "running"
         /\ \A d \in Callers : ~Executes(d, s)
    BY DEF Retry, Recover, TypeOK, NoCall
<1>3. \A d \in Callers, t \in Slots : Executes(d, t)' => Executes(d, t)
    BY <1>1, <1>2 DEF Executes, ExecutingAt
<1>4. ExclusiveRun'
    BY <1>3 DEF OwnershipInv, ExclusiveRun
<1>5. ASSUME NEW d \in Callers
      PROVE  ExecutorOwnsRow(d)' /\ RetryHoldsFailure(d)' /\ OutcomeKnown(d)'
    BY <1>1, <1>2 DEF OwnershipInv, ExecutorOwnsRow, RetryHoldsFailure, OutcomeKnown, ExecutingAt
<1>6. ASSUME NEW d \in Callers PROVE RecoveryBehind(d)'
    <2>1. CASE d = c
        BY <1>1, <1>2, <1>3, <2>1 DEF RecoveryBehind, TypeOK, Run
    <2>2. CASE d # c
        <3>1. calls'[d] = calls[d] /\ calls[d].slot \in Slots
            BY <1>1, <2>2 DEF TypeOK, Call
        <3>2. RecoveryBehind(d)
            BY DEF OwnershipInv
        <3> QED
            BY <1>1, <1>3, <3>1, <3>2 DEF RecoveryBehind
    <2> QED
        BY <2>1, <2>2
<1> QED
    BY <1>4, <1>5, <1>6 DEF OwnershipInv

\* Claiming, interrupting and storing: each changes the row of c's slot only, and
\* only when nobody else executes it.
LEMMA RowStep ==
    ASSUME TypeOK, TypeOK', OwnershipInv, NEW c \in Callers, NEW s \in Slots,
           calls[c].slot = s,
           \A t \in Slots : t # s => runs'[t] = runs[t],
           \A d \in Callers : d # c => calls'[d] = calls[d],
           \A d \in Callers : d # c => ~Executes(d, s),
           calls'[c].step \notin {"interrupt", "reclaim", "store"},
           calls'[c].step \in ExecutingAt =>
               /\ calls'[c].slot = s
               /\ runs'[s].status = "running"
               /\ runs'[s].attempt = calls'[c].run.attempt,
           \A d \in Callers : d # c /\ calls[d].step = "interrupt" /\ calls[d].slot = s =>
               /\ runs'[s].status # "absent"
               /\ calls[d].run.attempt <= runs'[s].attempt
               /\ Executes(c, s)' => calls[d].run.attempt < runs'[s].attempt
    PROVE  OwnershipInv'
<1>1. \A d \in Callers, t \in Slots : d # c => (Executes(d, t)' <=> Executes(d, t))
    BY DEF Executes
<1>2. \A t \in Slots : Executes(c, t)' => t = s
    BY DEF Executes
<1>3. ExclusiveRun'
    BY <1>1, <1>2 DEF OwnershipInv, ExclusiveRun
<1>4. ASSUME NEW d \in Callers PROVE ExecutorOwnsRow(d)'
    <2>1. CASE d = c
        BY <2>1 DEF ExecutorOwnsRow
    <2>2. CASE d # c
        <3>1. calls'[d] = calls[d] /\ calls[d].slot \in Slots /\ ExecutorOwnsRow(d)
            BY <2>2 DEF OwnershipInv, TypeOK, Call
        <3>2. calls[d].step \in ExecutingAt => calls[d].slot # s
            BY <2>2 DEF Executes
        <3> QED
            BY <3>1, <3>2 DEF ExecutorOwnsRow
    <2> QED
        BY <2>1, <2>2
<1>5. ASSUME NEW d \in Callers PROVE RecoveryBehind(d)'
    <2>1. CASE d = c
        BY <2>1 DEF RecoveryBehind
    <2>2. CASE d # c
        <3>1. calls'[d] = calls[d] /\ calls[d].slot \in Slots /\ RecoveryBehind(d)
            BY <2>2 DEF OwnershipInv, TypeOK, Call
        <3>2. CASE calls[d].slot = s
            BY <1>1, <2>2, <3>1, <3>2 DEF RecoveryBehind
        <3>3. CASE calls[d].slot # s
            BY <1>1, <1>2, <3>1, <3>3 DEF RecoveryBehind
        <3> QED
            BY <3>2, <3>3
    <2> QED
        BY <2>1, <2>2
<1>6. ASSUME NEW d \in Callers PROVE RetryHoldsFailure(d)' /\ OutcomeKnown(d)'
    BY DEF OwnershipInv, RetryHoldsFailure, OutcomeKnown
<1> QED
    BY <1>3, <1>4, <1>5, <1>6 DEF OwnershipInv

LEMMA ClaimRunOwnership ==
    ASSUME TypeOK, TypeOK', OwnershipInv, NEW c \in Callers, ClaimRun(c)
    PROVE  OwnershipInv'
<1>1. PICK s \in Slots : s = calls[c].slot
    BY DEF TypeOK, Call
<1>2. CASE runs[s].status # "absent"
    BY <1>1, <1>2, Left, QuietStep DEF ClaimRun, ExecutingAt
<1>3. CASE runs[s].status = "absent"
    <2>1. /\ runs' = [runs EXCEPT ![s] =
                IF calls[c].kind = "tick"
                THEN [status |-> "running", attempt |-> 1, completed_at |-> 0]
                ELSE [status |-> "missed", attempt |-> 1, completed_at |-> calls[c].now]]
          /\ calls' = [calls EXCEPT ![c].run =
                IF calls[c].kind = "tick"
                THEN [status |-> "running", attempt |-> 1, completed_at |-> 0]
                ELSE [status |-> "missed", attempt |-> 1, completed_at |-> calls[c].now],
                ![c].step = IF calls[c].kind = "tick" THEN "attempted" ELSE "advance"]
        BY <1>1, <1>3 DEF ClaimRun
    <2>2. /\ \A t \in Slots : t # s => runs'[t] = runs[t]
          /\ \A d \in Callers : d # c => calls'[d] = calls[d]
          /\ calls'[c].slot = s
          /\ runs'[s] = calls'[c].run
          /\ calls'[c].step \in {"attempted", "advance"}
          /\ calls'[c].step = "attempted" => runs'[s].status = "running"
        BY <1>1, <2>1 DEF TypeOK, Call
    <2>3. \A d \in Callers : ~Executes(d, s)
        BY <1>3 DEF OwnershipInv, ExecutorOwnsRow, Executes
    <2>4. \A d \in Callers : ~(calls[d].step = "interrupt" /\ calls[d].slot = s)
        BY <1>3 DEF OwnershipInv, RecoveryBehind
    <2> QED
        BY <1>1, <2>2, <2>3, <2>4, RowStep DEF ExecutingAt
<1> QED
    BY <1>2, <1>3

LEMMA ClaimRetryOwnership ==
    ASSUME TypeOK, TypeOK', OwnershipInv, NEW c \in Callers, ClaimRetry(c)
    PROVE  OwnershipInv'
<1>1. PICK s \in Slots : s = calls[c].slot
    BY DEF TypeOK, Call
<1>2. CASE ~Unchanged(s, calls[c].run)
    BY <1>1, <1>2, Left, QuietStep DEF ClaimRetry, ExecutingAt
<1>3. CASE Unchanged(s, calls[c].run)
    <2>1. runs[s] = calls[c].run /\ runs[s].status = "failed"
        BY <1>3 DEF Unchanged, OwnershipInv, RetryHoldsFailure, ClaimRetry
    <2>2. /\ runs' = [runs EXCEPT ![s] =
                [status |-> "running", attempt |-> calls[c].run.attempt + 1, completed_at |-> 0]]
          /\ calls' = [calls EXCEPT ![c].run =
                [status |-> "running", attempt |-> calls[c].run.attempt + 1, completed_at |-> 0],
                ![c].step = "reread"]
        BY <1>1, <1>3 DEF ClaimRetry
    <2>3. /\ \A t \in Slots : t # s => runs'[t] = runs[t]
          /\ \A d \in Callers : d # c => calls'[d] = calls[d]
          /\ calls'[c].slot = s
          /\ runs'[s] = calls'[c].run
          /\ calls'[c].step = "reread"
          /\ runs'[s].status = "running"
          /\ runs'[s].attempt = runs[s].attempt + 1
        BY <1>1, <2>1, <2>2 DEF TypeOK, Call
    <2>4. \A d \in Callers : ~Executes(d, s)
        BY <2>1 DEF OwnershipInv, ExecutorOwnsRow, Executes
    <2>5. \A d \in Callers : calls[d].step = "interrupt" /\ calls[d].slot = s
            => calls[d].run.attempt < runs'[s].attempt
        BY <1>1, <2>3 DEF OwnershipInv, RecoveryBehind, TypeOK, Run, Call
    <2>6. \A d \in Callers : calls[d].run.attempt \in Nat /\ runs'[s].attempt \in Nat
        BY <1>1 DEF TypeOK, Call, Run
    <2>7. \A d \in Callers : calls[d].step = "interrupt" /\ calls[d].slot = s
            => calls[d].run.attempt <= runs'[s].attempt
        BY <2>5, <2>6
    <2> QED
        BY <1>1, <2>3, <2>4, <2>5, <2>7, RowStep DEF ExecutingAt
<1> QED
    BY <1>2, <1>3

LEMMA InterruptOwnership ==
    ASSUME TypeOK, TypeOK', OwnershipInv, NEW c \in Callers, Interrupt(c)
    PROVE  OwnershipInv'
<1>1. PICK s \in Slots : s = calls[c].slot
    BY DEF TypeOK, Call
<1>2. CASE ~Unchanged(s, calls[c].run)
    BY <1>1, <1>2, Left, QuietStep DEF Interrupt, ExecutingAt
<1>3. CASE Unchanged(s, calls[c].run)
    <2>1. runs[s] = calls[c].run /\ runs[s].attempt \in Nat
        BY <1>1, <1>3 DEF Unchanged, TypeOK, Run
    <2>2. \A d \in Callers : ~Executes(d, s)
        BY <1>1, <2>1 DEF OwnershipInv, RecoveryBehind, Interrupt
    <2>3. /\ \A t \in Slots : t # s => runs'[t] = runs[t]
          /\ runs'[s].status = "failed"
          /\ runs'[s].attempt = runs[s].attempt
        BY <1>1, <1>3 DEF Interrupt, TypeOK, Run
    <2>4. /\ calls'[c].step = "idle"
          /\ \A d \in Callers : d # c => calls'[d] = calls[d]
        BY Left DEF Interrupt
    <2>5. \A d \in Callers : calls[d].step = "interrupt" /\ calls[d].slot = s
            => calls[d].run.attempt <= runs'[s].attempt
        BY <2>3 DEF OwnershipInv, RecoveryBehind
    <2>6. ~Executes(c, s)'
        BY <2>4 DEF Executes, ExecutingAt
    <2> QED
        BY <1>1, <2>2, <2>3, <2>4, <2>5, <2>6, RowStep DEF ExecutingAt
<1> QED
    BY <1>2, <1>3

LEMMA SaveRunOwnership ==
    ASSUME TypeOK, TypeOK', OwnershipInv, NEW c \in Callers, SaveRun(c)
    PROVE  OwnershipInv'
<1>1. PICK s \in Slots : s = calls[c].slot
    BY DEF TypeOK, Call
<1>2. /\ \A t \in Slots : t # s => runs'[t] = runs[t]
      /\ runs'[s] = calls[c].run
    BY <1>1 DEF SaveRun, TypeOK
<1>3. Executes(c, s) /\ calls[c].run.status \in {"completed", "failed"}
      /\ runs[s].attempt = calls[c].run.attempt
    BY <1>1 DEF SaveRun, Executes, ExecutingAt, OwnershipInv, OutcomeKnown, ExecutorOwnsRow
<1>4. /\ calls'[c].step \in {"idle", "advance", "refresh"}
      /\ \A d \in Callers : d # c => calls'[d] = calls[d]
    BY DEF SaveRun, Leave, Goto, NoCall, TypeOK, Call
<1>5. \A d \in Callers : d # c => ~Executes(d, s)
    BY <1>1, <1>3 DEF OwnershipInv, ExclusiveRun
<1>6. \A d \in Callers : calls[d].step = "interrupt" /\ calls[d].slot = s
        => calls[d].run.attempt <= runs'[s].attempt
    BY <1>2, <1>3 DEF OwnershipInv, RecoveryBehind
<1>7. ~Executes(c, s)'
    BY <1>4 DEF Executes, ExecutingAt
<1>8. runs'[s].status # "absent"
    BY <1>2, <1>3
<1> QED
    BY <1>1, <1>2, <1>4, <1>5, <1>6, <1>7, <1>8, RowStep DEF ExecutingAt

LEMMA OwnershipNext ==
    ASSUME TypeOK, TypeOK', OwnershipInv, [Next]_vars
    PROVE  OwnershipInv'
<1>1. CASE NextInstant
    BY <1>1 DEF NextInstant, OwnershipInv, ExclusiveRun, Executes, ExecutorOwnsRow,
        RecoveryBehind, RetryHoldsFailure, OutcomeKnown
<1>2. CASE UNCHANGED vars
    BY <1>2 DEF vars, OwnershipInv, ExclusiveRun, Executes, ExecutorOwnsRow,
        RecoveryBehind, RetryHoldsFailure, OutcomeKnown
<1> QED
    BY <1>1, <1>2, QuietOwnership, BeginOwnership, ClaimRunOwnership, ClaimRetryOwnership,
        InterruptOwnership, SaveRunOwnership DEF Next, Step

\* The row of a slot belongs to the caller that executes it, and overtaken
\* recoveries and retries are behind it (operations.py claim_run, transition_run).
THEOREM Ownership == Spec => []OwnershipInv
<1>1. Init => OwnershipInv
    BY DEF Init, OwnershipInv, ExclusiveRun, Executes, ExecutingAt, ExecutorOwnsRow,
        RecoveryBehind, RetryHoldsFailure, OutcomeKnown, NoCall
<1>2. TypeOK /\ TypeOK' /\ OwnershipInv /\ [Next]_vars => OwnershipInv'
    BY OwnershipNext
<1> QED
    BY <1>1, <1>2, TypeCorrect, PTL DEF Spec

\* No two callers produce the brief of one slot at the same time (operations.py
\* tick, retry), for every number of callers and crashes.
THEOREM Exclusive == Spec => []ExclusiveRun
<1>1. OwnershipInv => ExclusiveRun
    BY DEF OwnershipInv
<1> QED
    BY <1>1, Ownership, PTL

\* A step changes only rows that are absent, running or failed.
LEMMA DoneStable ==
    ASSUME TypeOK, OwnershipInv, [Next]_vars, NEW s \in Slots, Done(s)
    PROVE  runs'[s] = runs[s]
<1>1. CASE runs' = runs
    BY <1>1
<1>2. ASSUME NEW c \in Callers, ClaimRun(c) PROVE runs'[s] = runs[s]
    BY <1>2 DEF ClaimRun, Done, TypeOK, Call
<1>3. ASSUME NEW c \in Callers, ClaimRetry(c) PROVE runs'[s] = runs[s]
    BY <1>3 DEF ClaimRetry, Unchanged, OwnershipInv, RetryHoldsFailure, Done, TypeOK, Call
<1>4. ASSUME NEW c \in Callers, Interrupt(c) PROVE runs'[s] = runs[s]
    BY <1>4 DEF Interrupt, Unchanged, OwnershipInv, RecoveryBehind, Done, TypeOK, Call
<1>5. ASSUME NEW c \in Callers, SaveRun(c) PROVE runs'[s] = runs[s]
    BY <1>5 DEF SaveRun, OwnershipInv, ExecutorOwnsRow, ExecutingAt, Done, TypeOK, Call
<1>6. \/ runs' = runs
      \/ \E c \in Callers : ClaimRun(c) \/ ClaimRetry(c) \/ Interrupt(c) \/ SaveRun(c)
    BY DEF Next, Step, Start, Retry, Recover, Lookup, ReadSchedule, SaveAttempted,
        SaveAdvanced, RunnerReturns, RunnerFails, RunnerOutcome, Crash, NextInstant, vars
<1> QED
    BY <1>1, <1>2, <1>3, <1>4, <1>5, <1>6

\* A completed or missed run never changes again: no retry, recovery or late
\* save_run overwrites a recorded result (operations.py save_run, transition_run).
THEOREM ResultsFinal == Spec => ResultStable
<1>1. TypeOK /\ OwnershipInv /\ [Next]_vars
        => [\A s \in Slots : runs[s].status \in {"completed", "missed"}
                => runs'[s] = runs[s]]_vars
    BY DoneStable DEF Done
<1> QED
    BY <1>1, TypeCorrect, Ownership, PTL DEF Spec, ResultStable

\* The frontier.  A recorded row stays recorded.
LEMMA RecordedStable ==
    ASSUME TypeOK, OwnershipInv, [Next]_vars, NEW s \in Slots, runs[s].status # "absent"
    PROVE  runs'[s].status # "absent"
<1>1. CASE runs' = runs
    BY <1>1
<1>2. ASSUME NEW c \in Callers, ClaimRun(c) PROVE runs'[s].status # "absent"
    BY <1>2 DEF ClaimRun, TypeOK, Call
<1>3. ASSUME NEW c \in Callers, ClaimRetry(c) PROVE runs'[s].status # "absent"
    BY <1>3 DEF ClaimRetry, TypeOK, Call
<1>4. ASSUME NEW c \in Callers, Interrupt(c) PROVE runs'[s].status # "absent"
    BY <1>4 DEF Interrupt, TypeOK, Call, Run
<1>5. ASSUME NEW c \in Callers, SaveRun(c) PROVE runs'[s].status # "absent"
    BY <1>5 DEF SaveRun, OwnershipInv, OutcomeKnown, TypeOK, Call
<1>6. \/ runs' = runs
      \/ \E c \in Callers : ClaimRun(c) \/ ClaimRetry(c) \/ Interrupt(c) \/ SaveRun(c)
    BY DEF Next, Step, Start, Retry, Recover, Lookup, ReadSchedule, SaveAttempted,
        SaveAdvanced, RunnerReturns, RunnerFails, RunnerOutcome, Crash, NextInstant, vars
<1> QED
    BY <1>1, <1>2, <1>3, <1>4, <1>5, <1>6

\* The frontier may lose members and gain the slot after a done member.
LEMMA FrontierGrows ==
    ASSUME FrontierDone, NEW p \in Slots, OnFrontier(p), Done(p),
           \A s \in Slots : Done(s) => Done(s)',
           \A n \in Slots : OnFrontier(n)' => OnFrontier(n) \/ n = p + 1
    PROVE  FrontierDone'
<1> SUFFICES ASSUME NEW m \in Slots, NEW n \in Slots, NEW s \in Slots,
                    OnFrontier(m)', OnFrontier(n)', m <= s, s < n
             PROVE  Done(s)
    BY DEF FrontierDone
<1>0. m \in Int /\ n \in Int /\ s \in Int /\ p \in Int
    BY DEF Slots
<1>1. CASE OnFrontier(m) /\ OnFrontier(n)
    BY <1>1 DEF FrontierDone
<1>2. CASE m = p + 1 /\ OnFrontier(n)
    BY <1>0, <1>2 DEF FrontierDone
<1>3. CASE OnFrontier(m) /\ n = p + 1
    <2>1. CASE s = p
        BY <2>1
    <2>2. CASE s # p
        <3>1. s < p
            BY <1>0, <1>3, <2>2
        <3> QED
            BY <1>3, <3>1 DEF FrontierDone
    <2> QED
        BY <2>1, <2>2
<1>4. CASE m = p + 1 /\ n = p + 1
    BY <1>0, <1>4
<1> QED
    BY <1>1, <1>2, <1>3, <1>4

LEMMA FrontierShrinks ==
    ASSUME FrontierDone, \A s \in Slots : Done(s) => Done(s)',
           \A n \in Slots : OnFrontier(n)' => OnFrontier(n)
    PROVE  FrontierDone'
BY DEF FrontierDone

\* What other callers hold stays in order.
LEMMA OtherCalls ==
    ASSUME TypeOK, OwnershipInv, FrontierInv, [Next]_vars, NEW d \in Callers,
           calls'[d] = calls[d]
    PROVE  FrontierCalls(d)'
<1>1. calls[d].slot \in Slots /\ FrontierCalls(d)
    BY DEF FrontierInv, TypeOK, Call
<1>2. Done(calls[d].slot) => runs'[calls[d].slot].status \in {"completed", "missed"}
    BY <1>1, DoneStable DEF Done
<1>3. runs[calls[d].slot].status # "absent" => runs'[calls[d].slot].status # "absent"
    BY <1>1, RecordedStable
<1> QED
    BY <1>1, <1>2, <1>3 DEF FrontierCalls, Done

\* A step of a caller in a call, or on a recorded run, that leaves the schedule
\* initialised and the frontier no larger.
LEMMA FrontierStep ==
    ASSUME TypeOK, OwnershipInv, FrontierInv, [Next]_vars, NEW c \in Callers,
           \A d \in Callers : d # c => calls'[d] = calls[d],
           schedule'.next # 0, FrontierCalls(c)',
           \/ \A n \in Slots : OnFrontier(n)' => OnFrontier(n)
           \/ \E p \in Slots : /\ OnFrontier(p) /\ Done(p)
                               /\ \A n \in Slots : OnFrontier(n)' => OnFrontier(n) \/ n = p + 1
    PROVE  FrontierInv'
<1>1. \A s \in Slots : Done(s) => Done(s)'
    BY DoneStable DEF Done
<1>2. FrontierDone'
    BY <1>1, FrontierGrows, FrontierShrinks DEF FrontierInv
<1>3. \A d \in Callers : FrontierCalls(d)'
    BY OtherCalls
<1> QED
    BY <1>2, <1>3 DEF FrontierInv, NothingScheduled

\* In a call the schedule is initialised.
LEMMA ScheduledInCall ==
    ASSUME FrontierInv, NEW c \in Callers, calls[c].step # "idle"
    PROVE  schedule.next # 0
BY DEF FrontierInv, NothingScheduled

LEMMA StartFrontier ==
    ASSUME TypeOK, OwnershipInv, FrontierInv, NEW c \in Callers, NEW kind \in Calls,
           Start(c, kind)
    PROVE  FrontierInv'
<1>1. [Next]_vars
    BY DEF Next
<1>2. \A d \in Callers : d # c => calls'[d] = calls[d]
    BY DEF Start, TypeOK
<1>3. \/ calls' = calls
      \/ /\ calls'[c].step = "lookup"
         /\ calls'[c].slot = Initialised.next
         /\ calls'[c].schedule = Initialised
    BY DEF Start, TypeOK
<1>4. schedule' = Initialised /\ runs' = runs
    BY DEF Start
<1>5. Initialised.next \in Int /\ Initialised.next # 0
    BY HorizonAssumption DEF Initialised, TypeOK, Schedule, Instants
<1>6. FrontierCalls(c)'
    BY <1>1, <1>3, <1>5, OtherCalls DEF FrontierCalls
<1>7. CASE schedule.next # 0
    <2>1. Initialised = schedule
        BY <1>7 DEF Initialised
    <2>2. \A n \in Slots : OnFrontier(n)' => OnFrontier(n)
        BY <1>2, <1>3, <1>4, <2>1 DEF OnFrontier
    <2> QED
        BY <1>1, <1>2, <1>4, <1>5, <1>6, <2>2, FrontierStep
<1>8. CASE schedule.next = 0
    <2>1. /\ \A s \in Slots : runs[s].status = "absent"
          /\ \A d \in Callers : calls[d].step = "idle"
        BY <1>8 DEF FrontierInv, NothingScheduled
    <2>2. \A n \in Slots : OnFrontier(n)' => n = Initialised.next
        BY <1>2, <1>3, <1>4, <2>1 DEF OnFrontier
    <2>3. \A m, n, s \in Slots : OnFrontier(m)' /\ OnFrontier(n)' /\ m <= s => ~(s < n)
        BY <1>5, <2>2 DEF Slots
    <2>4. FrontierDone'
        BY <2>3 DEF FrontierDone
    <2>5. \A d \in Callers : FrontierCalls(d)'
        BY <1>1, <1>2, <1>6, OtherCalls
    <2> QED
        BY <1>4, <1>5, <2>4, <2>5 DEF FrontierInv, NothingScheduled
<1> QED
    BY <1>7, <1>8

LEMMA BeginFrontier ==
    ASSUME TypeOK, OwnershipInv, FrontierInv, NEW c \in Callers, NEW s \in Slots,
           Retry(c, s) \/ Recover(c, s)
    PROVE  FrontierInv'
<1>1. [Next]_vars
    BY DEF Next
<1>2. /\ \A d \in Callers : d # c => calls'[d] = calls[d]
      /\ calls'[c].step \in {"reclaim", "interrupt"}
      /\ calls'[c].slot = s
      /\ calls'[c].schedule.next = 0
      /\ runs' = runs /\ schedule' = schedule
      /\ runs[s].status # "absent"
    <2>1. CASE Retry(c, s)
        <3>1. /\ runs' = runs /\ schedule' = schedule
              /\ runs[s].status = "failed"
              /\ calls' = [calls EXCEPT ![c] =
                    [NoCall EXCEPT !.kind = "retry", !.step = "reclaim", !.now = clock,
                                   !.slot = s, !.run = runs[s]]]
            BY <2>1 DEF Retry
        <3>2. calls'[c] = [NoCall EXCEPT !.kind = "retry", !.step = "reclaim", !.now = clock,
                                         !.slot = s, !.run = runs[s]]
            BY <3>1 DEF TypeOK
        <3>3. \A d \in Callers : d # c => calls'[d] = calls[d]
            BY <3>1 DEF TypeOK
        <3>4. /\ calls'[c].step = "reclaim" /\ calls'[c].slot = s
              /\ calls'[c].schedule.next = 0
            BY <3>2 DEF NoCall
        <3> QED
            BY <3>1, <3>3, <3>4
    <2>2. CASE Recover(c, s)
        <3>1. /\ runs' = runs /\ schedule' = schedule
              /\ runs[s].status = "running"
              /\ calls' = [calls EXCEPT ![c] =
                    [NoCall EXCEPT !.kind = "recover", !.step = "interrupt", !.now = clock,
                                   !.slot = s, !.run = runs[s]]]
            BY <2>2 DEF Recover
        <3>2. calls'[c] = [NoCall EXCEPT !.kind = "recover", !.step = "interrupt",
                                         !.now = clock, !.slot = s, !.run = runs[s]]
            BY <3>1 DEF TypeOK
        <3>3. \A d \in Callers : d # c => calls'[d] = calls[d]
            BY <3>1 DEF TypeOK
        <3>4. /\ calls'[c].step = "interrupt" /\ calls'[c].slot = s
              /\ calls'[c].schedule.next = 0
            BY <3>2 DEF NoCall
        <3> QED
            BY <3>1, <3>3, <3>4
    <2> QED
        BY <2>1, <2>2
<1>3. schedule.next # 0
    BY <1>2 DEF FrontierInv, NothingScheduled
<1>4. FrontierCalls(c)'
    BY <1>2 DEF FrontierCalls
<1>5. \A n \in Slots : OnFrontier(n)' => OnFrontier(n)
    BY <1>2 DEF OnFrontier, Slots
<1> QED
    BY <1>1, <1>2, <1>3, <1>4, <1>5, FrontierStep

\* Steps that write neither table, or the run of their own slot only.
LEMMA OwnSlotFrontier ==
    ASSUME TypeOK, OwnershipInv, FrontierInv, [Next]_vars, NEW c \in Callers,
           calls[c].step # "idle", schedule' = schedule,
           \A d \in Callers : d # c => calls'[d] = calls[d],
           \A t \in Slots : t # calls[c].slot => runs'[t] = runs[t],
           \/ calls'[c].step = "idle"
           \/ /\ calls'[c].slot = calls[c].slot
              /\ calls'[c].schedule \in {calls[c].schedule, schedule},
           FrontierCalls(c)'
    PROVE  FrontierInv'
<1>1. \A n \in Slots : OnFrontier(n)' => OnFrontier(n)
    BY DEF OnFrontier
<1> QED
    BY <1>1, ScheduledInCall, FrontierStep

LEMMA StepFrontier ==
    ASSUME TypeOK, OwnershipInv, FrontierInv, NEW c \in Callers,
           Step(c) \/ RunnerReturns(c) \/ RunnerFails(c) \/ Crash(c)
    PROVE  FrontierInv'
<1>0. /\ [Next]_vars
      /\ calls[c].slot \in Slots
      /\ FrontierCalls(c)
    BY DEF Next, TypeOK, Call, FrontierInv
<1>1. CASE Lookup(c)
    <2>1. \/ calls'[c].step = "idle"
          \/ /\ calls'[c].slot = calls[c].slot
             /\ calls'[c].schedule = calls[c].schedule
             /\ \/ calls'[c].step = "claim"
                \/ calls'[c].step = "advance" /\ Done(calls[c].slot)
        BY <1>1 DEF Lookup, Goto, Leave, NoCall, Done, TypeOK, Call
    <2>2. FrontierCalls(c)'
        BY <1>0, <1>1, <2>1 DEF FrontierCalls, Done, Lookup
    <2>3. \A d \in Callers : d # c => calls'[d] = calls[d]
        BY <1>1 DEF Lookup, Goto, Leave, TypeOK
    <2> QED
        BY <1>0, <1>1, <2>1, <2>2, <2>3, OwnSlotFrontier DEF Lookup
<1>2. CASE ClaimRun(c)
    <2>1. /\ \A d \in Callers : d # c => calls'[d] = calls[d]
          /\ \A t \in Slots : t # calls[c].slot => runs'[t] = runs[t]
        BY <1>0, <1>2 DEF ClaimRun, Leave, TypeOK
    <2>2. CASE runs[calls[c].slot].status # "absent"
        <3>1. calls'[c].step = "idle"
            BY <1>2, <2>2 DEF ClaimRun, Leave, NoCall, TypeOK
        <3>2. FrontierCalls(c)'
            BY <3>1 DEF FrontierCalls
        <3> QED
            BY <1>0, <1>2, <2>1, <3>1, <3>2, OwnSlotFrontier DEF ClaimRun
    <2>3. CASE runs[calls[c].slot].status = "absent"
        <3>1. /\ calls'[c].slot = calls[c].slot
              /\ calls'[c].schedule = calls[c].schedule
              /\ \/ /\ calls'[c].step = "attempted"
                    /\ runs'[calls[c].slot].status = "running"
                 \/ /\ calls'[c].step = "advance"
                    /\ runs'[calls[c].slot].status = "missed"
            BY <1>0, <1>2, <2>3 DEF ClaimRun, TypeOK, Call
        <3>2. FrontierCalls(c)'
            BY <1>0, <1>2, <3>1 DEF FrontierCalls, Done, ClaimRun
        <3> QED
            BY <1>0, <1>2, <2>1, <3>1, <3>2, OwnSlotFrontier DEF ClaimRun
    <2> QED
        BY <2>2, <2>3
<1>3. CASE ClaimRetry(c)
    <2>1. /\ \A d \in Callers : d # c => calls'[d] = calls[d]
          /\ \A t \in Slots : t # calls[c].slot => runs'[t] = runs[t]
          /\ \/ calls'[c].step = "idle"
             \/ /\ calls'[c].step = "reread"
                /\ calls'[c].slot = calls[c].slot
                /\ calls'[c].schedule = calls[c].schedule
                /\ runs'[calls[c].slot].status = "running"
        BY <1>0, <1>3 DEF ClaimRetry, Leave, NoCall, TypeOK, Call
    <2>2. FrontierCalls(c)'
        BY <2>1 DEF FrontierCalls
    <2> QED
        BY <1>0, <1>3, <2>1, <2>2, OwnSlotFrontier DEF ClaimRetry
<1>4. CASE Interrupt(c)
    <2>1. \A t \in Slots : t # calls[c].slot => runs'[t] = runs[t]
        BY <1>0, <1>4 DEF Interrupt, TypeOK
    <2>2. FrontierCalls(c)'
        BY <1>4, Left DEF Interrupt, FrontierCalls
    <2> QED
        BY <1>0, <1>4, <2>1, <2>2, Left, OwnSlotFrontier DEF Interrupt
<1>5. CASE ReadSchedule(c)
    <2>1. /\ \A d \in Callers : d # c => calls'[d] = calls[d]
          /\ calls'[c].slot = calls[c].slot
          /\ calls'[c].schedule = schedule
          /\ \/ calls[c].step = "reread" /\ calls'[c].step = "attempted"
             \/ calls[c].step = "refresh" /\ calls'[c].step = "advance"
          /\ runs' = runs
        BY <1>5 DEF ReadSchedule, TypeOK, Call
    <2>2. FrontierCalls(c)'
        BY <1>0, <2>1, ScheduledInCall DEF FrontierCalls, Done
    <2> QED
        BY <1>0, <1>5, <2>1, <2>2, OwnSlotFrontier DEF ReadSchedule
<1>6. CASE SaveAttempted(c)
    <2>1. /\ \A d \in Callers : d # c => calls'[d] = calls[d]
          /\ calls'[c].slot = calls[c].slot
          /\ calls'[c].schedule = calls[c].schedule
          /\ calls[c].step = "attempted" /\ calls'[c].step = "runner"
          /\ runs' = runs /\ schedule' = calls[c].schedule
        BY <1>6 DEF SaveAttempted, Goto, TypeOK, Call
    <2>2. FrontierCalls(c)' /\ schedule'.next # 0
        BY <1>0, <2>1 DEF FrontierCalls
    <2>3. \A n \in Slots : OnFrontier(n)' => OnFrontier(n)
        BY <2>1 DEF OnFrontier
    <2> QED
        BY <1>0, <2>1, <2>2, <2>3, FrontierStep
<1>7. CASE SaveRun(c)
    <2>1. /\ \A d \in Callers : d # c => calls'[d] = calls[d]
          /\ \A t \in Slots : t # calls[c].slot => runs'[t] = runs[t]
          /\ runs'[calls[c].slot] = calls[c].run
          /\ calls[c].run.status \in {"completed", "failed"}
        BY <1>0, <1>7 DEF SaveRun, Goto, Leave, TypeOK, OwnershipInv, OutcomeKnown
    <2>2. \/ calls'[c].step = "idle"
          \/ /\ calls'[c].step \in {"advance", "refresh"}
             /\ calls'[c].slot = calls[c].slot
             /\ calls'[c].schedule = calls[c].schedule
             /\ calls[c].run.status # "failed"
        <3>1. CASE calls[c].run.status = "failed"
            BY <1>7, <3>1, Left DEF SaveRun
        <3>2. CASE calls[c].run.status # "failed"
            <4>1. PICK step \in {"advance", "refresh"} : Goto(c, step)
                BY <1>7, <3>2 DEF SaveRun
            <4> QED
                BY <3>2, <4>1 DEF Goto, TypeOK, Call
        <3> QED
            BY <3>1, <3>2
    <2>3. FrontierCalls(c)'
        BY <2>1, <2>2 DEF FrontierCalls, Done
    <2> QED
        BY <1>0, <1>7, <2>1, <2>2, <2>3, OwnSlotFrontier DEF SaveRun
<1>8. CASE SaveAdvanced(c)
    <2>1. /\ \A d \in Callers : d # c => calls'[d] = calls[d]
          /\ calls'[c].step = "idle" /\ calls[c].step = "advance"
          /\ runs' = runs /\ schedule'.next = calls[c].slot + 1
        BY <1>8, Left DEF SaveAdvanced
    <2>2. FrontierCalls(c)' /\ schedule'.next # 0
        BY <1>0, <2>1 DEF FrontierCalls, Slots
    <2>3. OnFrontier(calls[c].slot) /\ Done(calls[c].slot)
        BY <1>0, <2>1 DEF OnFrontier, FrontierCalls
    <2>4. \A n \in Slots : OnFrontier(n)' => OnFrontier(n) \/ n = calls[c].slot + 1
        BY <2>1 DEF OnFrontier
    <2> QED
        BY <1>0, <2>1, <2>2, <2>3, <2>4, FrontierStep
<1>9. ASSUME NEW status, RunnerOutcome(c, status) PROVE FrontierInv'
    <2>1. /\ \A d \in Callers : d # c => calls'[d] = calls[d]
          /\ calls'[c].slot = calls[c].slot
          /\ calls'[c].schedule = calls[c].schedule
          /\ calls[c].step = "runner" /\ calls'[c].step = "store"
          /\ runs' = runs
        BY <1>9 DEF RunnerOutcome, TypeOK, Call
    <2>2. FrontierCalls(c)'
        BY <1>0, <2>1 DEF FrontierCalls
    <2> QED
        BY <1>0, <1>9, <2>1, <2>2, OwnSlotFrontier DEF RunnerOutcome
<1>10. CASE Crash(c)
    <2>1. FrontierCalls(c)'
        BY <1>10, Left DEF Crash, FrontierCalls
    <2> QED
        BY <1>0, <1>10, <2>1, Left, OwnSlotFrontier DEF Crash
<1> QED
    BY <1>1, <1>2, <1>3, <1>4, <1>5, <1>6, <1>7, <1>8, <1>9, <1>10
    DEF Step, RunnerReturns, RunnerFails

LEMMA FrontierNext ==
    ASSUME TypeOK, OwnershipInv, FrontierInv, [Next]_vars
    PROVE  FrontierInv'
<1>1. CASE NextInstant
    BY <1>1 DEF NextInstant, FrontierInv, FrontierDone, NothingScheduled, FrontierCalls,
        OnFrontier, Done
<1>2. CASE UNCHANGED vars
    BY <1>2 DEF vars, FrontierInv, FrontierDone, NothingScheduled, FrontierCalls,
        OnFrontier, Done
<1> QED
    BY <1>1, <1>2, StartFrontier, BeginFrontier, StepFrontier DEF Next

\* Between any two slots that callers or the schedule may still name, every slot has
\* its result (operations.py tick, retry, mark_missed, save_schedule).
THEOREM Frontier == Spec => []FrontierInv
<1>1. Init => FrontierInv
    BY DEF Init, FrontierInv, FrontierDone, NothingScheduled, FrontierCalls, OnFrontier,
        Slots, NoCall, NoRun
<1>2. TypeOK /\ OwnershipInv /\ FrontierInv /\ [Next]_vars => FrontierInv'
    BY FrontierNext
<1> QED
    BY <1>1, <1>2, TypeCorrect, Ownership, PTL DEF Spec

\* The schedule skips no slot: every slot it has passed since the first recorded run
\* is completed or missed (operations.py tick, retry, mark_missed).
THEOREM NoSlotSkipped == Spec => []SlotsAccounted
<1>1. TypeOK /\ FrontierInv => SlotsAccounted
    <2> SUFFICES ASSUME TypeOK, FrontierInv, NEW r \in Slots, NEW s \in Slots,
                        r <= s, s < schedule.next, runs[r].status # "absent"
                 PROVE  runs[s].status \in {"completed", "missed"}
        BY DEF SlotsAccounted
    <2>1. schedule.next \in Slots
        BY HorizonAssumption DEF TypeOK, Schedule, Slots
    <2>2. OnFrontier(r) /\ OnFrontier(schedule.next)
        BY DEF OnFrontier
    <2> QED
        BY <2>1, <2>2 DEF FrontierInv, FrontierDone, Done
<1> QED
    BY <1>1, TypeCorrect, Frontier, PTL

\* No slot is touched before it is due (operations.py tick, mark_missed).
THEOREM Punctual == Spec => []NothingEarly
BY TypeCorrect, PTL

\* The success the schedule reports.  Callers carry it about in the schedules they
\* have read, so each of those must name a completed run too; and a caller that is
\* about to record one holds the very row the table has.
RealIn(rows, instant) ==
    \/ instant = 0
    \/ \E s \in Slots : rows[s].status = "completed" /\ rows[s].completed_at = instant

SuccessCall(call, rows) ==
    /\ RealIn(rows, call.schedule.success)
    /\ call.step \in {"lookup", "claim"} => call.kind \in {"tick", "mark_missed"}
    /\ call.step \in {"refresh", "advance"} /\ call.kind # "mark_missed" =>
        rows[call.slot].status = "completed" /\ rows[call.slot] = call.run

SuccessInv ==
    /\ RealIn(runs, schedule.success)
    /\ \A c \in Callers : SuccessCall(calls[c], runs)

LEMMA RealStable ==
    ASSUME TypeOK, OwnershipInv, [Next]_vars, NEW instant, RealIn(runs, instant)
    PROVE  RealIn(runs', instant)
<1>1. ASSUME NEW s \in Slots, runs[s].status = "completed" PROVE runs'[s] = runs[s]
    BY <1>1, DoneStable DEF Done
<1> QED
    BY <1>1 DEF RealIn

LEMMA SuccessCallStable ==
    ASSUME TypeOK, OwnershipInv, [Next]_vars, NEW call \in Call, SuccessCall(call, runs)
    PROVE  SuccessCall(call, runs')
<1>1. RealIn(runs', call.schedule.success)
    BY RealStable DEF SuccessCall
<1>2. call.slot \in Slots
    BY DEF Call
<1>3. runs[call.slot].status = "completed" => runs'[call.slot] = runs[call.slot]
    BY <1>2, DoneStable DEF Done
<1> QED
    BY <1>1, <1>3 DEF SuccessCall

\* A step of c that leaves a real success in the schedule.
LEMMA SuccessStep ==
    ASSUME TypeOK, OwnershipInv, [Next]_vars, SuccessInv, NEW c \in Callers,
           \A d \in Callers : d # c => calls'[d] = calls[d],
           RealIn(runs', schedule'.success), SuccessCall(calls'[c], runs')
    PROVE  SuccessInv'
<1>1. ASSUME NEW d \in Callers, d # c PROVE SuccessCall(calls'[d], runs')
    <2>1. calls'[d] = calls[d] /\ calls[d] \in Call /\ SuccessCall(calls[d], runs)
        BY <1>1 DEF SuccessInv, TypeOK
    <2> QED
        BY <2>1, SuccessCallStable
<1> QED
    BY <1>1 DEF SuccessInv

\* A call that is over, or has gone on and keeps its schedule.
LEMMA SuccessLeft == ASSUME NEW rows PROVE SuccessCall(NoCall, rows)
BY DEF SuccessCall, NoCall, RealIn

LEMMA SuccessNext ==
    ASSUME TypeOK, OwnershipInv, SuccessInv, [Next]_vars
    PROVE  SuccessInv'
<1>0. /\ RealIn(runs, schedule.success)
      /\ \A c \in Callers : SuccessCall(calls[c], runs) /\ calls[c] \in Call
    BY DEF SuccessInv, TypeOK
<1>r. RealIn(runs', schedule.success)
    BY <1>0, RealStable
<1>k. \A c \in Callers : SuccessCall(calls[c], runs')
    BY <1>0, SuccessCallStable
<1>1. ASSUME NEW c \in Callers, NEW kind \in Calls, Start(c, kind) PROVE SuccessInv'
    <2>1. schedule'.success = schedule.success /\ Initialised.success = schedule.success
        BY <1>1 DEF Start, Initialised, TypeOK, Schedule
    <2>2. \/ calls' = calls
          \/ /\ calls'[c].step = "lookup" /\ calls'[c].kind \in {"tick", "mark_missed"}
             /\ calls'[c].schedule = Initialised
        BY <1>1 DEF Start, TypeOK
    <2>3. SuccessCall(calls'[c], runs')
        BY <1>r, <1>k, <2>1, <2>2 DEF SuccessCall
    <2>4. \A d \in Callers : d # c => calls'[d] = calls[d]
        BY <1>1 DEF Start, TypeOK
    <2> QED
        BY <1>r, <2>1, <2>3, <2>4, SuccessStep
<1>2. ASSUME NEW c \in Callers, NEW s \in Slots, Retry(c, s) \/ Recover(c, s)
      PROVE  SuccessInv'
    <2>1. PICK kind \in {"retry", "recover"}, step \in {"reclaim", "interrupt"} :
            calls' = [calls EXCEPT ![c] = [NoCall EXCEPT !.kind = kind, !.step = step,
                        !.now = clock, !.slot = s, !.run = runs[s]]]
        BY <1>2 DEF Retry, Recover
    <2>2. /\ calls'[c].step \in {"reclaim", "interrupt"}
          /\ calls'[c].schedule.success = 0
        BY <2>1 DEF TypeOK, NoCall
    <2>3. SuccessCall(calls'[c], runs')
        BY <2>2 DEF SuccessCall, RealIn
    <2>4. \A d \in Callers : d # c => calls'[d] = calls[d]
        BY <2>1 DEF TypeOK
    <2>5. schedule' = schedule
        BY <1>2 DEF Retry, Recover
    <2> QED
        BY <1>r, <2>3, <2>4, <2>5, SuccessStep
<1>3. ASSUME NEW c \in Callers, Lookup(c) PROVE SuccessInv'
    <2>1. \/ calls'[c] = NoCall
          \/ /\ calls'[c].step = "claim" /\ calls'[c].kind = calls[c].kind
             /\ calls'[c].schedule = calls[c].schedule
          \/ /\ calls'[c].step = "advance" /\ calls'[c].slot = calls[c].slot
             /\ calls'[c].schedule = calls[c].schedule
             /\ calls'[c].run = runs[calls[c].slot]
             /\ runs[calls[c].slot].status = "completed"
        BY <1>3 DEF Lookup, Goto, Leave, TypeOK, Call
    <2>2. runs' = runs /\ schedule' = schedule /\ calls[c].step = "lookup"
        BY <1>3 DEF Lookup
    <2>3. SuccessCall(calls'[c], runs')
        BY <1>0, <2>1, <2>2, SuccessLeft DEF SuccessCall
    <2>4. \A d \in Callers : d # c => calls'[d] = calls[d]
        BY <1>3 DEF Lookup, Goto, Leave, TypeOK
    <2> QED
        BY <1>r, <2>2, <2>3, <2>4, SuccessStep
<1>4. ASSUME NEW c \in Callers, ClaimRun(c) PROVE SuccessInv'
    <2>1. \/ calls'[c] = NoCall
          \/ /\ calls'[c].step = "advance" => calls[c].kind # "tick"
             /\ calls'[c].step \in {"attempted", "advance"}
             /\ calls'[c].kind = calls[c].kind
             /\ calls'[c].schedule = calls[c].schedule
        BY <1>4 DEF ClaimRun, Leave, TypeOK, Call
    <2>2. schedule' = schedule /\ calls[c].step = "claim"
        BY <1>4 DEF ClaimRun
    <2>3. SuccessCall(calls'[c], runs')
        BY <1>0, <1>k, <2>1, <2>2, SuccessLeft DEF SuccessCall
    <2>4. \A d \in Callers : d # c => calls'[d] = calls[d]
        BY <1>4 DEF ClaimRun, Leave, TypeOK
    <2> QED
        BY <1>r, <2>2, <2>3, <2>4, SuccessStep
<1>5. ASSUME NEW c \in Callers, ClaimRetry(c) PROVE SuccessInv'
    <2>1. \/ calls'[c] = NoCall
          \/ calls'[c].step = "reread" /\ calls'[c].schedule = calls[c].schedule
        BY <1>5 DEF ClaimRetry, Leave, TypeOK, Call
    <2>2. SuccessCall(calls'[c], runs')
        BY <1>k, <2>1, SuccessLeft DEF SuccessCall
    <2>3. schedule' = schedule /\ \A d \in Callers : d # c => calls'[d] = calls[d]
        BY <1>5 DEF ClaimRetry, Leave, TypeOK
    <2> QED
        BY <1>r, <2>2, <2>3, SuccessStep
<1>6. ASSUME NEW c \in Callers, Interrupt(c) \/ Crash(c) PROVE SuccessInv'
    <2>1. Leave(c) /\ schedule' = schedule
        BY <1>6 DEF Interrupt, Crash
    <2>2. calls'[c] = NoCall /\ \A d \in Callers : d # c => calls'[d] = calls[d]
        BY <2>1 DEF Leave, TypeOK
    <2> QED
        BY <1>r, <2>1, <2>2, SuccessLeft, SuccessStep
<1>7. ASSUME NEW c \in Callers, ReadSchedule(c) PROVE SuccessInv'
    <2>1. /\ calls'[c].schedule = schedule /\ schedule' = schedule
          /\ calls'[c].slot = calls[c].slot /\ calls'[c].run = calls[c].run
          /\ calls'[c].kind = calls[c].kind
          /\ \/ calls[c].step = "reread" /\ calls'[c].step = "attempted"
             \/ calls[c].step = "refresh" /\ calls'[c].step = "advance"
          /\ \A d \in Callers : d # c => calls'[d] = calls[d]
        BY <1>7 DEF ReadSchedule, TypeOK, Call
    <2>2. SuccessCall(calls'[c], runs')
        BY <1>r, <1>k, <2>1 DEF SuccessCall
    <2> QED
        BY <1>r, <2>1, <2>2, SuccessStep
<1>8. ASSUME NEW c \in Callers, SaveAttempted(c) PROVE SuccessInv'
    <2>1. /\ schedule' = calls[c].schedule /\ calls'[c].schedule = calls[c].schedule
          /\ calls'[c].step = "runner"
          /\ \A d \in Callers : d # c => calls'[d] = calls[d]
        BY <1>8 DEF SaveAttempted, Goto, TypeOK, Call
    <2>2. RealIn(runs', calls[c].schedule.success)
        BY <1>k DEF SuccessCall
    <2>3. SuccessCall(calls'[c], runs')
        BY <2>1, <2>2 DEF SuccessCall
    <2> QED
        BY <2>1, <2>2, <2>3, SuccessStep
<1>9. ASSUME NEW c \in Callers, NEW status, RunnerOutcome(c, status) PROVE SuccessInv'
    <2>1. /\ schedule' = schedule /\ calls'[c].schedule = calls[c].schedule
          /\ calls'[c].step = "store"
          /\ \A d \in Callers : d # c => calls'[d] = calls[d]
        BY <1>9 DEF RunnerOutcome, TypeOK, Call
    <2>2. SuccessCall(calls'[c], runs')
        BY <1>k, <2>1 DEF SuccessCall
    <2>3. RealIn(runs', schedule'.success)
        BY <1>r, <2>1
    <2> QED
        BY <2>1, <2>2, <2>3, SuccessStep
<1>10. ASSUME NEW c \in Callers, SaveRun(c) PROVE SuccessInv'
    <2>1. /\ runs'[calls[c].slot] = calls[c].run
          /\ calls[c].run.status \in {"completed", "failed"}
          /\ schedule' = schedule
        BY <1>10 DEF SaveRun, TypeOK, Call, OwnershipInv, OutcomeKnown
    <2>2. \A d \in Callers : d # c => calls'[d] = calls[d]
        BY <1>10 DEF SaveRun, Leave, Goto, TypeOK
    <2>3. CASE calls[c].run.status = "failed"
        BY <1>10, <1>r, <2>1, <2>2, <2>3, SuccessLeft, SuccessStep DEF SaveRun, Leave, TypeOK
    <2>4. CASE calls[c].run.status = "completed"
        <3>1. PICK step \in {"advance", "refresh"} : Goto(c, step)
            BY <1>10, <2>4 DEF SaveRun
        <3>2. /\ calls'[c].step \in {"advance", "refresh"}
              /\ calls'[c].slot = calls[c].slot /\ calls'[c].run = calls[c].run
              /\ calls'[c].schedule = calls[c].schedule
            BY <3>1 DEF Goto, TypeOK, Call
        <3>3. SuccessCall(calls'[c], runs')
            BY <1>k, <2>1, <2>4, <3>2 DEF SuccessCall
        <3> QED
            BY <1>r, <2>1, <2>2, <3>3, SuccessStep
    <2> QED
        BY <2>1, <2>3, <2>4
<1>11. ASSUME NEW c \in Callers, SaveAdvanced(c) PROVE SuccessInv'
    <2>1. /\ calls[c].step = "advance" /\ Leave(c) /\ runs' = runs
          /\ schedule'.success = IF calls[c].kind = "mark_missed"
                                 THEN calls[c].schedule.success
                                 ELSE calls[c].run.completed_at
        BY <1>11 DEF SaveAdvanced
    <2>2. calls'[c] = NoCall /\ \A d \in Callers : d # c => calls'[d] = calls[d]
        BY <2>1 DEF Leave, TypeOK
    <2>3. RealIn(runs', schedule'.success)
        <3>1. CASE calls[c].kind = "mark_missed"
            BY <1>k, <2>1, <3>1 DEF SuccessCall
        <3>2. CASE calls[c].kind # "mark_missed"
            <4>1. /\ calls[c].slot \in Slots
                  /\ runs[calls[c].slot].status = "completed"
                  /\ runs[calls[c].slot] = calls[c].run
                BY <1>0, <2>1, <3>2 DEF SuccessCall, Call
            <4> QED
                BY <2>1, <3>2, <4>1 DEF RealIn
        <3> QED
            BY <3>1, <3>2
    <2> QED
        BY <2>2, <2>3, SuccessLeft, SuccessStep
<1>12. CASE NextInstant
    BY <1>0, <1>12 DEF NextInstant, SuccessInv
<1>13. CASE UNCHANGED vars
    BY <1>0, <1>13 DEF vars, SuccessInv
<1> QED
    BY <1>1, <1>2, <1>3, <1>4, <1>5, <1>6, <1>7, <1>8, <1>9, <1>10, <1>11, <1>12, <1>13
    DEF Next, Step, RunnerReturns, RunnerFails

\* The last success the schedule reports is the completion of a completed run, whatever
\* stale schedule was written back (operations.py tick, retry, _fail, mark_missed).
THEOREM SuccessReal == Spec => []LastSuccessReal
<1>1. Init => SuccessInv
    BY DEF Init, SuccessInv, SuccessCall, RealIn, NoCall
<1>2. TypeOK /\ OwnershipInv /\ SuccessInv /\ [Next]_vars => SuccessInv'
    BY SuccessNext
<1>3. SuccessInv => LastSuccessReal
    BY DEF SuccessInv, RealIn, LastSuccessReal
<1> QED
    BY <1>1, <1>2, <1>3, TypeCorrect, Ownership, PTL DEF Spec
=============================================================================
