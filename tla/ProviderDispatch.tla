--------------------------- MODULE ProviderDispatch ---------------------------
(***************************************************************************)
(* Protected dispatch to the model provider: generate_protected in         *)
(* src/edn/intelligence/openai_provider.py over the preflight store (one   *)
(* active and one claimed file per request), the budget ledger (a row per  *)
(* request and attempt), the result store and the lifecycle journal.       *)
(*                                                                         *)
(* Every step that one process makes visible to another (a rename, an      *)
(* unlink, a transaction, a journal entry, the request itself) is an       *)
(* action.  The clock counts days.  The ledger has been opened; spend is   *)
(* left out because an estimate is the same for every request, so that its *)
(* limits bound the number of requests as max_requests_per_day does.       *)
(***************************************************************************)
EXTENDS Integers, FiniteSets

CONSTANTS
    Requests,       \* request ids
    Dispatchers,    \* processes that call generate_protected
    MaxRequests,    \* config.max_requests_per_day
    MaxRetries,     \* config.max_retries_per_day
    MaxSuccessful,  \* config.max_successful_briefs_per_day
    MaxPreflights,  \* bound: envelopes persisted under one request id
    Horizon,        \* bound: the last day
    MaxCrashes      \* bound: dispatchers that die in the middle of a call

ASSUME LimitsAssumption == MaxRequests \in Nat /\ MaxRetries \in Nat /\ MaxSuccessful \in Nat
ASSUME RequestsAssumption == Requests # {}
ASSUME BoundsAssumption == MaxPreflights \in Nat /\ Horizon \in Nat /\ MaxCrashes \in Nat

VARIABLES
    active,        \* provider-preflights/<request>.json
    claimed,       \* provider-preflights/<request>.claimed
    unwritten,     \* the envelopes whose file has been opened and not written
    persisted,     \* how many envelopes a request id has had
    approvals,     \* the envelopes the owner has approved
    reservations,  \* table reservations, one row per request and attempt
    results,       \* provider-results: the attempt that answered, 0 for none
    journal,       \* provider-audits: the entries of each request
    sent,          \* environment: how often an attempt has reached the provider
    calls,         \* what each dispatcher is doing
    pending,       \* what the owner's processes have begun and not done yet
    clock,
    abandoned      \* requests a dispatcher has died on

files == <<active, claimed, unwritten>>
ledgers == <<reservations, results, journal, sent>>
vars == <<files, persisted, approvals, ledgers, calls, pending, clock, abandoned>>

Days == 0 .. Horizon
Attempts == {1, 2}

\* preflight_hash binds creation and expiry, so each persisted envelope has a hash
\* of its own, here its number; 0 is no file.
Envelope == [hash : 0 .. MaxPreflights, dispatch_attempts : 0 .. 1, expires_at : 0 .. Horizon + 1]

NoEnvelope == [hash |-> 0, dispatch_attempts |-> 0, expires_at |-> 0]

Expired(envelope) == envelope.expires_at <= clock

\* The file is there and _read accepts it.  What persist writes goes to the file it opened,
\* wherever that has been renamed to.
Whole(r, envelope) == envelope # NoEnvelope /\ <<r, envelope.hash>> \notin unwritten

Reservation == [state : {"none", "reserved", "transport_started", "completed"}, day : Days]

\* What PilotDispatchError carries; retryable stands for timeout, quota, network and
\* provider_unavailable, and rejected for the provider's other refusals.
RetryableFailures == {"retryable"}
FailureCodes == RetryableFailures \cup {"rejected", "invalid_response", "invalid_authority",
    "budget_exceeded", "missing_credential", "result_persistence"}

\* The journal's terminal entries; nothing reads the others, which are left out.
Entries == {"completed", "failed", "failed_retryable", "retry_blocked"}

Steps == {"idle", "rename", "read", "check", "admit", "credential", "post", "wait",
          "persist", "record", "complete", "failed", "restore", "look", "open", "compare",
          "rewrite", "publish", "block", "blocked", "destroy"}

Call == [step : Steps, request : Requests, approval : 0 .. MaxPreflights,
         envelope : Envelope, inode : Envelope, now : Days, failure : {"none"} \cup FailureCodes]

SomeRequest == CHOOSE r \in Requests : TRUE

NoCall == [step |-> "idle", request |-> SomeRequest, approval |-> 0,
           envelope |-> NoEnvelope, inode |-> NoEnvelope, now |-> 0, failure |-> "none"]

\* Any number of processes may persist, approve, cancel and reconcile.  They keep
\* nothing but how far they have come: when one goes on, others may stay at that point.
OwnerStages == {"create", "unlink", "discard"}

After(stage, r) == {pending, pending \ {<<stage, r>>}}

\* attempt_number = envelope.dispatch_attempts + 1
Attempt(d) == calls[d].envelope.dispatch_attempts + 1

Goto(d, step) == calls' = [calls EXCEPT ![d].step = step]
Leave(d) == calls' = [calls EXCEPT ![d] = NoCall]
Fail(d, code) == calls' = [calls EXCEPT ![d].step = "failed", ![d].failure = code]

Append(d, entry) ==
    journal' = [journal EXCEPT ![calls[d].request] = @ \cup {<<entry, Attempt(d)>>}]

(***************************************************************************)
(* The owner's side of the preflight store.                                *)
(***************************************************************************)

\* persist: neither file may exist when it looks.
Persist(r) ==
    /\ active[r] = NoEnvelope /\ claimed[r] = NoEnvelope
    /\ persisted[r] < MaxPreflights
    /\ pending' = pending \cup {<<"create", r>>}
    /\ UNCHANGED <<files, persisted, approvals, ledgers, calls, clock, abandoned>>

\* O_CREAT | O_EXCL on the active file alone.
CreateEnvelope(r, expires_at) ==
    /\ <<"create", r>> \in pending
    /\ pending' \in After("create", r)
    /\ IF active[r] = NoEnvelope /\ persisted[r] < MaxPreflights
       THEN /\ persisted' = [persisted EXCEPT ![r] = @ + 1]
            /\ active' = [active EXCEPT ![r] = [hash |-> persisted[r] + 1,
                    dispatch_attempts |-> 0, expires_at |-> expires_at]]
            /\ unwritten' = unwritten \cup {<<r, persisted[r] + 1>>}
       ELSE UNCHANGED <<persisted, active, unwritten>>
    /\ UNCHANGED <<claimed, approvals, ledgers, calls, clock, abandoned>>

\* write and fsync; a process may also die before them.
WriteEnvelope(r, hash) ==
    /\ <<r, hash>> \in unwritten
    /\ unwritten' = unwritten \ {<<r, hash>>}
    /\ UNCHANGED <<active, claimed, persisted, approvals, ledgers, calls, pending, clock, abandoned>>

\* cancel unlinks the active file, then the claimed one.
UnlinkActive(r) ==
    /\ active' = [active EXCEPT ![r] = NoEnvelope]
    /\ pending' = pending \cup {<<"unlink", r>>}

Cancel(r) ==
    /\ UnlinkActive(r)
    /\ UNCHANGED <<claimed, unwritten, persisted, approvals, ledgers, calls, clock, abandoned>>

UnlinkClaimed(r) ==
    /\ <<"unlink", r>> \in pending
    /\ claimed' = [claimed EXCEPT ![r] = NoEnvelope]
    /\ pending' \in After("unlink", r)
    /\ UNCHANGED <<active, unwritten, persisted, approvals, ledgers, calls, clock, abandoned>>

\* approve_protected: load cancels an envelope that has expired.
Approve(r) ==
    /\ Whole(r, active[r])
    /\ IF Expired(active[r])
       THEN UnlinkActive(r) /\ UNCHANGED approvals
       ELSE /\ approvals' = [approvals EXCEPT ![r] = @ \cup {active[r].hash}]
            /\ UNCHANGED <<active, pending>>
    /\ UNCHANGED <<claimed, unwritten, persisted, ledgers, calls, clock, abandoned>>

\* The durable terminal evidence reconcile is called with.
Terminal(r) ==
    \/ \E a \in Attempts : {<<"completed", a>>, <<"failed", a>>, <<"retry_blocked", a>>}
                               \cap journal[r] # {}
    \/ <<"failed_retryable", 2>> \in journal[r]

\* reconcile reads each file: a terminal request is to lose it, an expired active
\* envelope is cancelled, a claim without terminal evidence stays, and so does a file
\* that cannot be read.
Reconcile(r) ==
    /\ \/ /\ Terminal(r)
          /\ \/ Whole(r, claimed[r]) /\ pending' = pending \cup {<<"unlink", r>>}
             \/ Whole(r, active[r]) /\ pending' = pending \cup {<<"discard", r>>}
          /\ UNCHANGED active
       \/ ~Terminal(r) /\ Whole(r, active[r]) /\ Expired(active[r]) /\ UnlinkActive(r)
    /\ UNCHANGED <<claimed, unwritten, persisted, approvals, ledgers, calls, clock, abandoned>>

\* The file reconcile unlinks is the one that has the name by then.
DiscardActive(r) ==
    /\ <<"discard", r>> \in pending
    /\ active' = [active EXCEPT ![r] = NoEnvelope]
    /\ pending' \in After("discard", r)
    /\ UNCHANGED <<claimed, unwritten, persisted, approvals, ledgers, calls, clock, abandoned>>

(***************************************************************************)
(* generate_protected: the claim.                                          *)
(***************************************************************************)

\* claim looks for a claimed file first.
Begin(d, r, approval) ==
    /\ calls[d].step = "idle"
    /\ approval \in approvals[r]
    /\ claimed[r] = NoEnvelope
    /\ calls' = [calls EXCEPT ![d] =
            [NoCall EXCEPT !.step = "rename", !.request = r, !.approval = approval]]
    /\ UNCHANGED <<files, persisted, approvals, ledgers, pending, clock, abandoned>>

\* os.replace(active, claimed): it replaces a claimed file that has appeared.
Rename(d) ==
    LET r == calls[d].request
    IN  /\ calls[d].step = "rename"
        /\ IF active[r] = NoEnvelope
           THEN Leave(d) /\ UNCHANGED files
           ELSE /\ claimed' = [claimed EXCEPT ![r] = active[r]]
                /\ active' = [active EXCEPT ![r] = NoEnvelope]
                /\ Goto(d, "read") /\ UNCHANGED unwritten
        /\ UNCHANGED <<persisted, approvals, ledgers, pending, clock, abandoned>>

\* The rest of claim.  A claim that is gone or that _read refuses is an error and stays as
\* it is.  An envelope never has more than one attempt behind it, so that the limit of
\* two cannot be reached.
ReadClaim(d) ==
    LET r == calls[d].request
    IN  /\ calls[d].step = "read"
        /\ IF ~Whole(r, claimed[r]) THEN Leave(d)
           ELSE IF Expired(claimed[r]) THEN Goto(d, "destroy")
           ELSE calls' = [calls EXCEPT ![d].step = "check", ![d].envelope = claimed[r]]
        /\ UNCHANGED <<files, persisted, approvals, ledgers, pending, clock, abandoned>>

\* The preflight is computed again; permitted is its verdict under this process's
\* policy and configuration.  _generate then reads the time it will charge.
CheckApproval(d, permitted) ==
    /\ calls[d].step = "check"
    /\ IF permitted /\ calls[d].approval = calls[d].envelope.hash
       THEN calls' = [calls EXCEPT ![d].step = "admit", ![d].now = clock]
       ELSE Goto(d, "destroy")
    /\ UNCHANGED <<files, persisted, approvals, ledgers, pending, clock, abandoned>>

(***************************************************************************)
(* _generate: budget, transport, result.                                   *)
(***************************************************************************)
Charged(day) ==
    {x \in Requests \X Attempts :
        LET row == reservations[x[1]][x[2]] IN row.state # "none" /\ row.day = day}

Retries(day) == {x \in Charged(day) : x[2] = 2}

Successes(day) == {x \in Charged(day) : reservations[x[1]][x[2]].state = "completed"}

\* mutant: one request more than the limit
WithinLimitsInclusive(day, attempt) ==
    /\ Cardinality(Charged(day)) <= MaxRequests
    /\ Cardinality(Retries(day)) + (attempt - 1) <= MaxRetries
    /\ Cardinality(Successes(day)) < MaxSuccessful

\* The counters of admit.
WithinLimits(day, attempt) ==
    /\ Cardinality(Charged(day)) < MaxRequests
    /\ Cardinality(Retries(day)) + (attempt - 1) <= MaxRetries
    /\ Cardinality(Successes(day)) < MaxSuccessful

\* mutant: an upsert in place of the INSERT
AdmitUpsert(d) ==
    LET r == calls[d].request
        a == Attempt(d)
    IN  /\ calls[d].step = "admit"
        /\ IF Expired(calls[d].envelope)
           THEN Fail(d, "invalid_authority") /\ UNCHANGED reservations
           ELSE IF ~WithinLimits(calls[d].now, a)
           THEN Fail(d, "budget_exceeded") /\ UNCHANGED reservations
           ELSE /\ reservations' = [reservations EXCEPT ![r][a] =
                        [state |-> "reserved", day |-> calls[d].now]]
                /\ Goto(d, "credential")
        /\ UNCHANGED <<files, persisted, approvals, results, journal, sent, pending, clock, abandoned>>

\* mutant: charged to the next day
AdmitTomorrow(d) ==
    LET r == calls[d].request
        a == Attempt(d)
    IN  /\ calls[d].step = "admit"
        /\ IF Expired(calls[d].envelope)
           THEN Fail(d, "invalid_authority") /\ UNCHANGED reservations
           ELSE IF ~WithinLimits(calls[d].now, a) \/ reservations[r][a].state # "none"
           THEN Fail(d, "budget_exceeded") /\ UNCHANGED reservations
           ELSE /\ reservations' = [reservations EXCEPT ![r][a] =
                        [state |-> "reserved", day |-> calls[d].now + 1]]
                /\ Goto(d, "credential")
        /\ UNCHANGED <<files, persisted, approvals, results, journal, sent, pending, clock, abandoned>>

\* The approval may have expired; admit is one transaction, and PRIMARY KEY(request_id,
\* attempt) denies a replay.
Admit(d) ==
    LET r == calls[d].request
        a == Attempt(d)
    IN  /\ calls[d].step = "admit"
        /\ IF Expired(calls[d].envelope)
           THEN Fail(d, "invalid_authority") /\ UNCHANGED reservations
           ELSE IF ~WithinLimits(calls[d].now, a) \/ reservations[r][a].state # "none"
           THEN Fail(d, "budget_exceeded") /\ UNCHANGED reservations
           ELSE /\ reservations' = [reservations EXCEPT ![r][a] =
                        [state |-> "reserved", day |-> calls[d].now]]
                /\ Goto(d, "credential")
        /\ UNCHANGED <<files, persisted, approvals, results, journal, sent, pending, clock, abandoned>>

\* The credential is read after the budget has been reserved.
MarkStarted(d, api_key) ==
    /\ calls[d].step = "credential"
    /\ IF api_key
       THEN /\ reservations' = [reservations EXCEPT
                    ![calls[d].request][Attempt(d)].state = "transport_started"]
            /\ Goto(d, "post")
       ELSE Fail(d, "missing_credential") /\ UNCHANGED reservations
    /\ UNCHANGED <<files, persisted, approvals, results, journal, sent, pending, clock, abandoned>>

Post(d) ==
    /\ calls[d].step = "post"
    /\ sent' = [sent EXCEPT ![calls[d].request][Attempt(d)] = @ + 1]
    /\ Goto(d, "wait")
    /\ UNCHANGED <<files, persisted, approvals, reservations, results, journal, pending, clock, abandoned>>

TransportFails(d, code) ==
    /\ calls[d].step = "wait"
    /\ Fail(d, code)
    /\ UNCHANGED <<files, persisted, approvals, ledgers, pending, clock, abandoned>>

\* valid is the verdict of _parse_response.
TransportReturns(d, valid) ==
    /\ calls[d].step = "wait"
    /\ IF valid THEN Goto(d, "persist") ELSE Fail(d, "invalid_response")
    /\ UNCHANGED <<files, persisted, approvals, ledgers, pending, clock, abandoned>>

\* persist_validated publishes without replacement and may refuse.
PersistResult(d, accepted) ==
    LET r == calls[d].request
    IN  /\ calls[d].step = "persist"
        /\ IF accepted /\ results[r] = 0
           THEN /\ results' = [results EXCEPT ![r] = Attempt(d)]
                /\ Goto(d, "record")
           ELSE Fail(d, "result_persistence") /\ UNCHANGED results
        /\ UNCHANGED <<files, persisted, approvals, reservations, journal, sent, pending, clock, abandoned>>

RecordSuccess(d) ==
    /\ calls[d].step = "record"
    /\ reservations' = [reservations EXCEPT ![calls[d].request][Attempt(d)].state = "completed"]
    /\ Goto(d, "complete")
    /\ UNCHANGED <<files, persisted, approvals, results, journal, sent, pending, clock, abandoned>>

AuditCompleted(d) ==
    /\ calls[d].step = "complete"
    /\ Append(d, "completed")
    /\ Goto(d, "destroy")
    /\ UNCHANGED <<files, persisted, approvals, reservations, results, sent, pending, clock, abandoned>>

(***************************************************************************)
(* generate_protected: what happens to the claim.                          *)
(***************************************************************************)

\* mutant: every failure of the first attempt brings the envelope back
RestorableAlways(d) == calls[d].envelope.dispatch_attempts = 0

\* One retryable failure of the first attempt brings the envelope back.
Restorable(d) == calls[d].failure \in RetryableFailures /\ calls[d].envelope.dispatch_attempts = 0

AuditFailed(d) ==
    /\ calls[d].step = "failed"
    /\ Append(d, IF calls[d].failure \in RetryableFailures THEN "failed_retryable" ELSE "failed")
    /\ Goto(d, IF Restorable(d) THEN "restore" ELSE "destroy")
    /\ UNCHANGED <<files, persisted, approvals, reservations, results, sent, pending, clock, abandoned>>

\* restore_retry.  A claim that has gone is a FileNotFoundError of _validate_file, which
\* generate_protected does not handle.
RestoreRetry(d) ==
    /\ calls[d].step = "restore"
    /\ IF claimed[calls[d].request] = NoEnvelope THEN Leave(d) ELSE Goto(d, "look")
    /\ UNCHANGED <<files, persisted, approvals, ledgers, pending, clock, abandoned>>

\* A new active envelope is a ProtectedPreflightError, which blocks the retry.
LookForActive(d) ==
    /\ calls[d].step = "look"
    /\ Goto(d, IF active[calls[d].request] = NoEnvelope THEN "open" ELSE "block")
    /\ UNCHANGED <<files, persisted, approvals, ledgers, pending, clock, abandoned>>

\* _rewrite_claimed opens the claim; one that has gone by now is such an error too.
OpenClaimed(d) ==
    LET r == calls[d].request
    IN  /\ calls[d].step = "open"
        /\ IF claimed[r] = NoEnvelope THEN Goto(d, "block")
           ELSE calls' = [calls EXCEPT ![d].step = "compare", ![d].inode = claimed[r]]
        /\ UNCHANGED <<files, persisted, approvals, ledgers, pending, clock, abandoned>>

\* It refuses a file that is not the one it opened.  A rename keeps the
\* inode, so that files with different contents have different ones.
CompareInode(d) ==
    LET r == calls[d].request
    IN  /\ calls[d].step = "compare"
        /\ IF claimed[r] = NoEnvelope THEN Leave(d)
           ELSE calls' = [calls EXCEPT ![d].inode = NoEnvelope,
                    ![d].step = IF claimed[r] = calls[d].inode THEN "rewrite" ELSE "block"]
        /\ UNCHANGED <<files, persisted, approvals, ledgers, pending, clock, abandoned>>

\* os.replace(temporary, claimed): it creates a claimed file that has gone.
RewriteClaimed(d) ==
    /\ calls[d].step = "rewrite"
    /\ claimed' = [claimed EXCEPT ![calls[d].request] =
            [calls[d].envelope EXCEPT !.dispatch_attempts = 1]]
    /\ Goto(d, "publish")
    /\ UNCHANGED <<active, unwritten, persisted, approvals, ledgers, pending, clock, abandoned>>

\* os.replace(claimed, active)
Publish(d) ==
    LET r == calls[d].request
    IN  /\ calls[d].step = "publish"
        /\ IF claimed[r] = NoEnvelope
           THEN UNCHANGED <<active, claimed>>
           ELSE /\ active' = [active EXCEPT ![r] = claimed[r]]
                /\ claimed' = [claimed EXCEPT ![r] = NoEnvelope]
        /\ Leave(d)
        /\ UNCHANGED <<unwritten, persisted, approvals, ledgers, pending, clock, abandoned>>

\* _audit_retry_admission with decision blocked
AuditBlocked(d) ==
    /\ calls[d].step = "blocked"
    /\ Append(d, "retry_blocked")
    /\ Leave(d)
    /\ UNCHANGED <<files, persisted, approvals, reservations, results, sent, pending, clock, abandoned>>

DestroyClaim(d) ==
    /\ calls[d].step \in {"destroy", "block"}
    /\ claimed' = [claimed EXCEPT ![calls[d].request] = NoEnvelope]
    /\ IF calls[d].step = "block" THEN Goto(d, "blocked") ELSE Leave(d)
    /\ UNCHANGED <<active, unwritten, persisted, approvals, ledgers, pending, clock, abandoned>>

\* The process dies, or an exception that is no PilotDispatchError (an OSError, a
\* DurableProviderAuditError) leaves generate_protected.
Crash(d) ==
    /\ calls[d].step # "idle"
    /\ Cardinality(abandoned) < MaxCrashes
    /\ abandoned' = abandoned \cup {calls[d].request}
    /\ Leave(d)
    /\ UNCHANGED <<files, persisted, approvals, ledgers, pending, clock>>

NextDay ==
    /\ clock < Horizon
    /\ clock' = clock + 1
    /\ UNCHANGED <<files, persisted, approvals, ledgers, calls, pending, abandoned>>

Init ==
    /\ active = [r \in Requests |-> NoEnvelope]
    /\ claimed = [r \in Requests |-> NoEnvelope]
    /\ unwritten = {}
    /\ persisted = [r \in Requests |-> 0]
    /\ approvals = [r \in Requests |-> {}]
    /\ reservations = [r \in Requests |-> [a \in Attempts |-> [state |-> "none", day |-> 0]]]
    /\ results = [r \in Requests |-> 0]
    /\ journal = [r \in Requests |-> {}]
    /\ sent = [r \in Requests |-> [a \in Attempts |-> 0]]
    /\ calls = [d \in Dispatchers |-> NoCall]
    /\ pending = {}
    /\ clock = 0
    /\ abandoned = {}

OwnerStep(r) ==
    \/ Persist(r) \/ Approve(r) \/ Cancel(r) \/ UnlinkClaimed(r) \/ Reconcile(r)
    \/ DiscardActive(r)
    \/ \E hash \in 1 .. MaxPreflights : WriteEnvelope(r, hash)
    \/ \E expires_at \in clock + 1 .. Horizon + 1 : CreateEnvelope(r, expires_at)

DispatcherStep(d) ==
    \/ Rename(d) \/ ReadClaim(d) \/ Admit(d) \/ Post(d)
    \/ RecordSuccess(d) \/ AuditCompleted(d) \/ AuditFailed(d) \/ RestoreRetry(d)
    \/ LookForActive(d) \/ OpenClaimed(d) \/ CompareInode(d) \/ RewriteClaimed(d)
    \/ Publish(d) \/ AuditBlocked(d) \/ DestroyClaim(d)
    \/ \E verdict \in BOOLEAN :
        CheckApproval(d, verdict) \/ MarkStarted(d, verdict) \/ TransportReturns(d, verdict)
            \/ PersistResult(d, verdict)
    \/ \E code \in {"retryable", "rejected"} : TransportFails(d, code)

Next ==
    \/ \E r \in Requests : OwnerStep(r)
    \/ \E d \in Dispatchers :
        \/ \E r \in Requests, approval \in 1 .. MaxPreflights : Begin(d, r, approval)
        \/ DispatcherStep(d) \/ Crash(d)
    \/ NextDay

Spec == Init /\ [][Next]_vars

(***************************************************************************)
(* Properties                                                              *)
(***************************************************************************)

\* The type of the files, the ledgers and the processes' locals.
TypeOK ==
    /\ active \in [Requests -> Envelope] /\ claimed \in [Requests -> Envelope]
    /\ unwritten \subseteq Requests \X (1 .. MaxPreflights)
    /\ persisted \in [Requests -> 0 .. MaxPreflights]
    /\ approvals \in [Requests -> SUBSET (1 .. MaxPreflights)]
    /\ reservations \in [Requests -> [Attempts -> Reservation]]
    /\ results \in [Requests -> {0} \cup Attempts]
    /\ journal \in [Requests -> SUBSET (Entries \X Attempts)]
    /\ sent \in [Requests -> [Attempts -> Nat]]
    /\ calls \in [Dispatchers -> Call]
    /\ pending \subseteq OwnerStages \X Requests
    /\ clock \in Days
    /\ abandoned \subseteq Requests

\* "Only one claimant can reach the transport boundary": two dispatchers are never
\* between a request's reservation and its outcome, whatever cancels, races between
\* the two files and envelopes persisted again under the same id (generate_protected).
InTransport(d) == calls[d].step \in {"credential", "post", "wait"}

TransportExclusive ==
    \A c, d \in Dispatchers :
        InTransport(c) /\ InTransport(d) /\ calls[c].request = calls[d].request => c = d

\* "A last state of transport-started means the outcome is unknown after a crash and
\* never grants replay": no attempt reaches the provider twice, and the second one only
\* after the first has failed in a retryable way (generate_protected, admit).
NeverReplayed ==
    \A r \in Requests :
        /\ \A a \in Attempts : sent[r][a] <= 1
        /\ sent[r][2] > 0 => sent[r][1] = 1 /\ <<"failed_retryable", 1>> \in journal[r]

\* A request whose validated answer is stored is not sent again, crashes between the
\* result, the ledger and the journal included (_generate, persist_validated).
AnsweredFinal == [][\A r \in Requests : results[r] # 0 => sent'[r] = sent[r]]_vars

\* "Reserved, transport-started and outcome-unknown attempts continue to count": what
\* has reached the provider is charged, and no day is charged beyond its limits, also
\* when the day ends between admission and transport (admit, mark_transport_started).
SentIsCharged ==
    /\ \A r \in Requests, a \in Attempts :
        sent[r][a] > 0 => reservations[r][a].state \in {"transport_started", "completed"}
    /\ \A day \in Days : /\ Cardinality(Charged(day)) <= MaxRequests
                         /\ Cardinality(Retries(day)) <= MaxRetries

\* "one successful brief per day" (admit, record_success).
OneBriefPerDay == \A day \in Days : Cardinality(Successes(day)) <= MaxSuccessful

\* A dispatcher that goes on is not suspended; nothing else is assumed.
FairSpec == Spec /\ \A d \in Dispatchers : WF_vars(DispatcherStep(d))

\* "A successful or terminal attempt logically removes the claimed file": a claim is
\* given up or goes back to active unless its dispatcher died (generate_protected).
ClaimReleased ==
    \A r \in Requests : claimed[r] # NoEnvelope ~> claimed[r] = NoEnvelope \/ r \in abandoned
=============================================================================
