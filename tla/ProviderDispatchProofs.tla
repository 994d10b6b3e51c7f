------------------------ MODULE ProviderDispatchProofs ------------------------
(***************************************************************************)
(* Proofs about ProviderDispatch, for any set of requests, any set of      *)
(* dispatchers and any limits.                                             *)
(*                                                                         *)
(* The argument is about who holds a row of the ledger.  The PRIMARY KEY   *)
(* of admit gives a row to one dispatcher, which keeps it until the journal*)
(* or a crash closes the attempt; a second attempt needs an envelope that  *)
(* only the journal's retryable failure of the first can have put back.    *)
(***************************************************************************)
EXTENDS ProviderDispatch, FiniteSetTheorems, TLAPS

(***************************************************************************)
(* Who holds a row of the ledger.                                          *)
(***************************************************************************)

\* The steps between the INSERT of admit and the entry that closes the attempt.  A
\* dispatcher refused before transport holds no row, which may be another's.
Owner(d) ==
    \/ calls[d].step \in {"credential", "post", "wait", "persist", "record", "complete"}
    \/ calls[d].step = "failed" /\ calls[d].failure = "retryable"

\* The owner has stored no answer yet.
Unanswered(d) == Owner(d) /\ calls[d].step \notin {"record", "complete"}

\* The journal grants a second attempt.
Retried(r) == <<"failed_retryable", 1>> \in journal[r]

\* An attempt has at most one owner.
OwnersDiffer ==
    \A c, d \in Dispatchers :
        /\ Owner(c) /\ Owner(d)
        /\ calls[c].request = calls[d].request
        /\ Attempt(c) = Attempt(d)
        => c = d

\* How far the owner of an attempt has come, so far have the ledger and the provider.
OwnedRow(d) ==
    LET row == reservations[calls[d].request][Attempt(d)]
        count == sent[calls[d].request][Attempt(d)]
    IN  /\ calls[d].step = "credential" => row.state = "reserved" /\ count = 0
        /\ calls[d].step = "post" => row.state = "transport_started" /\ count = 0
        /\ calls[d].step \notin {"credential", "post"} =>
                row.state \in {"transport_started", "completed"} /\ count = 1

OwnersRecorded == \A d \in Dispatchers : Owner(d) => OwnedRow(d)

\* Nothing is sent that is not marked, and nothing twice.
SentOnce ==
    \A r \in Requests, a \in Attempts :
        /\ sent[r][a] <= 1
        /\ reservations[r][a].state \in {"none", "reserved"} => sent[r][a] = 0

\* An envelope with an attempt behind it, in a file or in a process, and a process that
\* is about to write one, have the journal's grant.
RetriesGranted ==
    /\ \A r \in Requests :
        /\ active[r].dispatch_attempts = 1 => Retried(r)
        /\ claimed[r].dispatch_attempts = 1 => Retried(r)
        /\ reservations[r][2].state # "none" => Retried(r)
        /\ results[r] = 2 => Retried(r)
    /\ \A d \in Dispatchers :
        \/ calls[d].envelope.dispatch_attempts = 1
        \/ calls[d].step \in {"restore", "look", "open", "compare", "rewrite", "publish"}
        => Retried(calls[d].request)

\* The grant closes the first attempt: it was sent, has no owner and did not answer.
FirstClosed ==
    \A r \in Requests : Retried(r) =>
        /\ sent[r][1] = 1 /\ results[r] # 1
        /\ \A d \in Dispatchers : Owner(d) /\ calls[d].request = r => Attempt(d) = 2

\* The owner of the attempt that answered is past its transport.
AnswerClosed ==
    \A d \in Dispatchers : Unanswered(d) => results[calls[d].request] # Attempt(d)

\* The attempt that answered was sent.
AnswerSent == \A r \in Requests, a \in Attempts : results[r] = a => sent[r][a] = 1

\* What a day is charged.
DayWithin(day) ==
    /\ IsFiniteSet(Charged(day))
    /\ Cardinality(Charged(day)) <= MaxRequests
    /\ Cardinality(Retries(day)) <= MaxRetries

HeldInv ==
    /\ OwnersDiffer
    /\ OwnersRecorded
    /\ SentOnce
    /\ RetriesGranted
    /\ FirstClosed
    /\ AnswerClosed
    /\ AnswerSent

(***************************************************************************)
(* Types.  An envelope in a file has a hash, which approve_protected       *)
(* relies on; so has one that a dispatcher may still put back.             *)
(***************************************************************************)
EnvelopesNumbered ==
    /\ \A r \in Requests :
        /\ active[r] = NoEnvelope \/ active[r].hash > 0
        /\ claimed[r] = NoEnvelope \/ claimed[r].hash > 0
    /\ \A d \in Dispatchers :
        calls[d].step \in {"check", "admit", "credential", "post", "wait", "persist", "failed",
                           "restore", "look", "open", "compare", "rewrite"}
            => calls[d].envelope.hash > 0

LEMMA EmptyFields ==
    /\ NoEnvelope.dispatch_attempts = 0
    /\ NoCall.step = "idle" /\ NoCall.envelope = NoEnvelope
BY DEF NoCall, NoEnvelope

LEMMA NoCallTyped == NoCall \in Call /\ NoEnvelope \in Envelope
<1>1. SomeRequest \in Requests
  BY RequestsAssumption DEF SomeRequest
<1>2. NoEnvelope \in Envelope
  BY BoundsAssumption DEF NoEnvelope, Envelope
<1>3. QED
  BY <1>1, <1>2, BoundsAssumption DEF NoCall, Call, Steps, Days

\* A dispatcher's step replaces its own call.
Moved(d) ==
    /\ calls' \in [Dispatchers -> Call]
    /\ \A c \in Dispatchers : c # d => calls'[c] = calls[c]

\* The call goes on with the same request and the same envelope.
Kept(d) ==
    /\ Moved(d)
    /\ calls'[d].request = calls[d].request
    /\ calls'[d].envelope = calls[d].envelope

LEMMA CallReplaced ==
    ASSUME TypeOK, NEW d \in Dispatchers, NEW new \in Call,
           calls' = [calls EXCEPT ![d] = new]
    PROVE  Moved(d) /\ calls'[d] = new
BY DEF TypeOK, Moved

LEMMA GotoReplaces ==
    ASSUME TypeOK, NEW d \in Dispatchers, NEW step \in Steps, Goto(d, step)
    PROVE  Kept(d) /\ calls'[d].step = step /\ calls'[d].failure = calls[d].failure
<1>1. calls[d] \in Call
  BY DEF TypeOK
<1>2. PICK new \in Call : new = [calls[d] EXCEPT !.step = step]
  BY <1>1 DEF Call
<1>3. calls' = [calls EXCEPT ![d] = new]
  BY <1>2, Zenon DEF Goto
<1>4. Moved(d) /\ calls'[d] = new
  BY <1>3, CallReplaced
<1>5. QED
  BY <1>1, <1>2, <1>4 DEF Call, Kept

LEMMA FailReplaces ==
    ASSUME TypeOK, NEW d \in Dispatchers, NEW code \in FailureCodes, Fail(d, code)
    PROVE  Kept(d) /\ calls'[d].step = "failed" /\ calls'[d].failure = code
<1>1. calls[d] \in Call
  BY DEF TypeOK
<1>2. PICK new \in Call : new = [calls[d] EXCEPT !.step = "failed", !.failure = code]
  BY <1>1 DEF Call, Steps
<1>3. calls' = [calls EXCEPT ![d] = new]
  BY <1>2 DEF Fail, TypeOK
<1>4. Moved(d) /\ calls'[d] = new
  BY <1>3, CallReplaced
<1>5. QED
  BY <1>1, <1>2, <1>4 DEF Call, Kept

LEMMA LeaveReplaces ==
    ASSUME TypeOK, NEW d \in Dispatchers, Leave(d)
    PROVE  /\ Moved(d) /\ calls'[d] = NoCall /\ calls'[d].step = "idle"
           /\ calls'[d].envelope.dispatch_attempts = 0
<1>1. Moved(d) /\ calls'[d] = NoCall
  BY NoCallTyped, CallReplaced DEF Leave
<1>2. QED
  BY <1>1 DEF NoCall, NoEnvelope

LEMMA AttemptTyped ==
    ASSUME TypeOK, NEW d \in Dispatchers
    PROVE  /\ calls[d] \in Call
           /\ Attempt(d) \in Attempts
           /\ calls[d].request \in Requests
           /\ Attempt(d) = 2 <=> calls[d].envelope.dispatch_attempts = 1
           /\ Attempt(d) = 1 <=> calls[d].envelope.dispatch_attempts = 0
<1>1. calls[d] \in Call
  BY DEF TypeOK
<1>2. calls[d].envelope.dispatch_attempts \in 0 .. 1
  BY <1>1 DEF Call, Envelope
<1>3. QED
  BY <1>1, <1>2 DEF Attempt, Attempts, Call

LEMMA AppendTyped ==
    ASSUME TypeOK, NEW d \in Dispatchers, NEW entry \in Entries, Append(d, entry)
    PROVE  journal' \in [Requests -> SUBSET (Entries \X Attempts)]
<1>1. calls[d].request \in Requests /\ Attempt(d) \in Attempts
  BY AttemptTyped
<1>2. <<entry, Attempt(d)>> \in Entries \X Attempts
  BY <1>1
<1>3. QED
  BY <1>1, <1>2 DEF Append, TypeOK

LEMMA ReservationsTyped ==
    ASSUME TypeOK, NEW r \in Requests, NEW a \in Attempts, NEW row \in Reservation,
           reservations' = [reservations EXCEPT ![r][a] = row]
    PROVE  /\ reservations' \in [Requests -> [Attempts -> Reservation]]
           /\ reservations'[r][a] = row
           /\ \A q \in Requests, b \in Attempts :
                <<q, b>> # <<r, a>> => reservations'[q][b] = reservations[q][b]
BY DEF TypeOK

\* A state that is set leaves the day of the row alone.
LEMMA StateSet ==
    ASSUME TypeOK, NEW r \in Requests, NEW a \in Attempts,
           NEW state \in {"transport_started", "completed"}
    PROVE  reservations' = [reservations EXCEPT ![r][a].state = state] =>
           /\ reservations' \in [Requests -> [Attempts -> Reservation]]
           /\ reservations'[r][a].state = state
           /\ reservations'[r][a].day = reservations[r][a].day
           /\ \A q \in Requests, b \in Attempts :
                <<q, b>> # <<r, a>> => reservations'[q][b] = reservations[q][b]
<1>1. reservations[r][a] \in Reservation
  BY DEF TypeOK
<1>2. PICK row \in Reservation : row = [reservations[r][a] EXCEPT !.state = state]
  BY <1>1 DEF Reservation
<1>3. row.state = state /\ row.day = reservations[r][a].day
  BY <1>1, <1>2 DEF Reservation
<1>4. reservations' = [reservations EXCEPT ![r][a].state = state] =>
        reservations' = [reservations EXCEPT ![r][a] = row]
  BY <1>2, Zenon
<1>5. ASSUME reservations' = [reservations EXCEPT ![r][a] = row]
      PROVE  /\ reservations' \in [Requests -> [Attempts -> Reservation]]
             /\ reservations'[r][a] = row
             /\ \A q \in Requests, b \in Attempts :
                    <<q, b>> # <<r, a>> => reservations'[q][b] = reservations[q][b]
  BY <1>5, ReservationsTyped, ZenonT(60)
<1>6. QED
  BY <1>3, <1>4, <1>5, Zenon

LEMMA TypeInit == Init => TypeOK
BY NoCallTyped, BoundsAssumption
DEF Init, TypeOK, Reservation, Days, Attempts

LEMMA OwnerTyped ==
    ASSUME TypeOK, EnvelopesNumbered, NEW r \in Requests, OwnerStep(r)
    PROVE  TypeOK'
<1>1. CASE Persist(r)
  BY <1>1 DEF Persist, TypeOK, files, ledgers, OwnerStages
<1>2. CASE Approve(r)
  <2>1. active[r] \in Envelope
    BY DEF TypeOK
  <2>2. approvals' \in [Requests -> SUBSET (1 .. MaxPreflights)]
    <3>1. CASE Expired(active[r])
      BY <1>2, <3>1 DEF Approve, TypeOK
    <3>2. CASE ~Expired(active[r])
      <4>1. active[r].hash \in 0 .. MaxPreflights /\ active[r].hash > 0
        BY <1>2, <2>1, Zenon DEF Approve, Whole, EnvelopesNumbered, Envelope
      <4>2. approvals' = [approvals EXCEPT ![r] = @ \cup {active[r].hash}]
        BY <1>2, <3>2, Zenon DEF Approve
      <4>3. QED
        BY <4>1, <4>2, BoundsAssumption DEF TypeOK
    <3>3. QED
      BY <3>1, <3>2
  <2>3. /\ active' = active \/ active' = [active EXCEPT ![r] = NoEnvelope]
        /\ pending' = pending \/ pending' = pending \cup {<<"unlink", r>>}
    BY <1>2 DEF Approve, UnlinkActive
  <2>4. active' \in [Requests -> Envelope]
    BY <2>3, NoCallTyped, ZenonT(60) DEF TypeOK
  <2>5. pending' \subseteq OwnerStages \X Requests
    BY <2>3 DEF TypeOK, OwnerStages
  <2>6. UNCHANGED <<claimed, unwritten, persisted, ledgers, calls, clock, abandoned>>
    BY <1>2 DEF Approve
  <2>7. QED
    BY <2>2, <2>4, <2>5, <2>6 DEF TypeOK, ledgers
<1>3. CASE Cancel(r)
  BY <1>3, NoCallTyped DEF Cancel, UnlinkActive, TypeOK, ledgers, OwnerStages
<1>4. CASE UnlinkClaimed(r)
  BY <1>4, NoCallTyped DEF UnlinkClaimed, After, TypeOK, ledgers
<1>5. CASE Reconcile(r)
  <2>1. /\ active' = active \/ active' = [active EXCEPT ![r] = NoEnvelope]
        /\ \/ pending' = pending \cup {<<"unlink", r>>}
           \/ pending' = pending \cup {<<"discard", r>>}
    BY <1>5 DEF Reconcile, UnlinkActive
  <2>2. active' \in [Requests -> Envelope]
    BY <2>1, NoCallTyped, ZenonT(60) DEF TypeOK
  <2>3. pending' \subseteq OwnerStages \X Requests
    BY <2>1 DEF TypeOK, OwnerStages
  <2>4. QED
    BY <1>5, <2>2, <2>3 DEF Reconcile, TypeOK, ledgers
<1>a. CASE DiscardActive(r)
  BY <1>a, NoCallTyped DEF DiscardActive, After, TypeOK, ledgers
<1>b. ASSUME NEW hash \in 1 .. MaxPreflights, WriteEnvelope(r, hash)
      PROVE  TypeOK'
  BY <1>b DEF WriteEnvelope, TypeOK, ledgers
<1>6. ASSUME NEW expires_at \in clock + 1 .. Horizon + 1, CreateEnvelope(r, expires_at)
      PROVE  TypeOK'
  <2>1. pending' \subseteq OwnerStages \X Requests
    BY <1>6 DEF CreateEnvelope, After, TypeOK
  <2>2. /\ active' \in [Requests -> Envelope]
        /\ persisted' \in [Requests -> 0 .. MaxPreflights]
        /\ unwritten' \subseteq Requests \X (1 .. MaxPreflights)
    <3>1. CASE active[r] = NoEnvelope /\ persisted[r] < MaxPreflights
      <4>1. persisted[r] \in 0 .. MaxPreflights /\ clock \in Nat
        BY BoundsAssumption DEF TypeOK, Days
      <4>2. persisted[r] + 1 \in 0 .. MaxPreflights
        BY <3>1, <4>1, BoundsAssumption
      <4>3. [hash |-> persisted[r] + 1, dispatch_attempts |-> 0, expires_at |-> expires_at] \in Envelope
        BY <4>1, <4>2, BoundsAssumption DEF Envelope
      <4>4. PICK e \in Envelope : active' = [active EXCEPT ![r] = e]
        BY <1>6, <3>1, <4>3, Zenon DEF CreateEnvelope
      <4>5. persisted' = [persisted EXCEPT ![r] = persisted[r] + 1]
        BY <1>6, <3>1, Zenon DEF CreateEnvelope
      <4>6. unwritten' = unwritten \cup {<<r, persisted[r] + 1>>} /\ persisted[r] + 1 \in 1 .. MaxPreflights
        BY <1>6, <3>1, <4>1, <4>2 DEF CreateEnvelope
      <4>7. QED
        BY <4>2, <4>4, <4>5, <4>6 DEF TypeOK
    <3>2. CASE ~(active[r] = NoEnvelope /\ persisted[r] < MaxPreflights)
      BY <1>6, <3>2 DEF CreateEnvelope, TypeOK
    <3>3. QED
      BY <3>1, <3>2
  <2>3. QED
    BY <1>6, <2>1, <2>2 DEF CreateEnvelope, TypeOK, ledgers
<1>7. QED
  BY <1>1, <1>2, <1>3, <1>4, <1>5, <1>6, <1>a, <1>b DEF OwnerStep

\* What a dispatcher's step may do to its own envelope: keep it, take the claimed one
\* and go to check, or leave.
LEMMA NumberedStep ==
    ASSUME TypeOK, EnvelopesNumbered, NEW d \in Dispatchers, Moved(d),
           \A r \in Requests :
               /\ active'[r] = NoEnvelope \/ active'[r].hash > 0
               /\ claimed'[r] = NoEnvelope \/ claimed'[r].hash > 0,
           \/ calls'[d].step \in {"idle", "rename", "read", "record", "complete", "publish",
                                  "block", "blocked", "destroy"}
           \/ calls'[d].envelope.hash > 0
    PROVE  EnvelopesNumbered'
BY DEF EnvelopesNumbered, Moved

\* A step that touches no file.
LEMMA FilesRest ==
    ASSUME TypeOK, EnvelopesNumbered, NEW d \in Dispatchers, Moved(d),
           UNCHANGED <<files, persisted, approvals, pending, clock>>,
           abandoned' \subseteq Requests,
           reservations' \in [Requests -> [Attempts -> Reservation]],
           results' \in [Requests -> {0} \cup Attempts],
           journal' \in [Requests -> SUBSET (Entries \X Attempts)],
           sent' \in [Requests -> [Attempts -> Nat]],
           \/ calls'[d].step \in {"idle", "rename", "read", "record", "complete", "publish",
                                  "block", "blocked", "destroy"}
           \/ calls'[d].envelope.hash > 0
    PROVE  TypeOK' /\ EnvelopesNumbered'
<1>1. TypeOK'
  BY DEF TypeOK, Moved, files
<1>2. \A r \in Requests :
        /\ active'[r] = NoEnvelope \/ active'[r].hash > 0
        /\ claimed'[r] = NoEnvelope \/ claimed'[r].hash > 0
  BY DEF EnvelopesNumbered, files
<1>3. EnvelopesNumbered'
  BY <1>2, NumberedStep
<1>4. QED
  BY <1>1, <1>3

\* A step that goes on with its envelope.
LEMMA EnvelopeKept ==
    ASSUME TypeOK, EnvelopesNumbered, NEW d \in Dispatchers, Kept(d),
           calls[d].step \in {"check", "admit", "credential", "post", "wait", "persist", "failed",
                              "restore", "look", "open", "compare", "rewrite"}
    PROVE  Moved(d) /\ calls'[d].envelope.hash > 0
BY DEF Kept, EnvelopesNumbered

LEMMA ClaimTyped ==
    ASSUME TypeOK, EnvelopesNumbered, NEW d \in Dispatchers,
           \/ \E r \in Requests, approval \in 1 .. MaxPreflights : Begin(d, r, approval)
           \/ Rename(d)
           \/ ReadClaim(d)
           \/ \E verdict \in BOOLEAN : CheckApproval(d, verdict)
    PROVE  TypeOK' /\ EnvelopesNumbered'
<1> USE DEF TypeOK
<1>1. ASSUME NEW r \in Requests, NEW approval \in 1 .. MaxPreflights, Begin(d, r, approval)
      PROVE  TypeOK' /\ EnvelopesNumbered'
  <2>0. approval \in 0 .. MaxPreflights
    BY BoundsAssumption
  <2>1. PICK new \in Call :
            new = [NoCall EXCEPT !.step = "rename", !.request = r, !.approval = approval]
    <3>1. [NoCall EXCEPT !.step = "rename", !.request = r, !.approval = approval] \in Call
      BY <2>0, NoCallTyped DEF Call, Steps
    <3>2. QED
      BY <3>1, Zenon
  <2>a. new.step = "rename"
    BY <2>1, NoCallTyped DEF Call
  <2>2. calls' = [calls EXCEPT ![d] = new]
    BY <1>1, <2>1, Zenon DEF Begin
  <2>3. Moved(d) /\ calls'[d].step = "rename"
    BY <2>2, <2>a, CallReplaced
  <2>4. QED
    BY <1>1, <2>3, FilesRest DEF Begin, ledgers
<1>2. CASE Rename(d)
  <2>1. CASE active[calls[d].request] = NoEnvelope
    <3>1. Moved(d) /\ calls'[d].step = "idle"
      BY <1>2, <2>1, LeaveReplaces DEF Rename
    <3>2. QED
      BY <1>2, <2>1, <3>1, FilesRest DEF Rename, ledgers
  <2>2. CASE active[calls[d].request] # NoEnvelope
    <3>1. PICK r \in Requests : r = calls[d].request
      BY AttemptTyped
    <3>2. /\ claimed' = [claimed EXCEPT ![r] = active[r]]
          /\ active' = [active EXCEPT ![r] = NoEnvelope]
          /\ Goto(d, "read") /\ UNCHANGED unwritten
      BY <1>2, <2>2, <3>1 DEF Rename
    <3>3. Moved(d) /\ calls'[d].step = "read"
      BY <3>2, GotoReplaces DEF Steps, Kept
    <3>4. TypeOK'
      BY <1>2, <3>2, <3>3, NoCallTyped DEF Rename, Moved, ledgers
    <3>5. \A q \in Requests :
            /\ active'[q] = NoEnvelope \/ active'[q].hash > 0
            /\ claimed'[q] = NoEnvelope \/ claimed'[q].hash > 0
      BY <3>2 DEF EnvelopesNumbered
    <3>6. QED
      BY <3>3, <3>4, <3>5, NumberedStep
  <2>3. QED
    BY <2>1, <2>2
<1>3. CASE ReadClaim(d)
  <2>1. PICK r \in Requests : r = calls[d].request
    BY AttemptTyped
  <2>2. CASE ~Whole(r, claimed[r])
    <3>1. Moved(d) /\ calls'[d].step = "idle"
      BY <1>3, <2>1, <2>2, LeaveReplaces DEF ReadClaim
    <3>2. QED
      BY <1>3, <3>1, FilesRest DEF ReadClaim, ledgers
  <2>3. CASE Whole(r, claimed[r]) /\ Expired(claimed[r])
    <3>1. Moved(d) /\ calls'[d].step = "destroy"
      BY <1>3, <2>1, <2>3, GotoReplaces DEF ReadClaim, Steps, Kept
    <3>2. QED
      BY <1>3, <3>1, FilesRest DEF ReadClaim, ledgers
  <2>4. CASE Whole(r, claimed[r]) /\ ~Expired(claimed[r])
    <3>1. PICK new \in Call : new = [calls[d] EXCEPT !.step = "check", !.envelope = claimed[r]]
      BY AttemptTyped, ZenonT(60) DEF Call, Steps
    <3>a. new.envelope = claimed[r]
      BY <3>1, AttemptTyped DEF Call
    <3>2. calls' = [calls EXCEPT ![d] = new]
      BY <1>3, <2>1, <2>4, <3>1 DEF ReadClaim
    <3>3. Moved(d) /\ calls'[d].envelope.hash > 0
      BY <2>4, <3>2, <3>a, CallReplaced DEF EnvelopesNumbered, Whole
    <3>4. QED
      BY <1>3, <3>3, FilesRest DEF ReadClaim, ledgers
  <2>5. QED
    BY <2>2, <2>3, <2>4
<1>4. ASSUME NEW verdict \in BOOLEAN, CheckApproval(d, verdict)
      PROVE  TypeOK' /\ EnvelopesNumbered'
  <2>1. CASE verdict /\ calls[d].approval = calls[d].envelope.hash
    <3>1. PICK new \in Call : new = [calls[d] EXCEPT !.step = "admit", !.now = clock]
      BY AttemptTyped, ZenonT(60) DEF Call, Steps
    <3>a. new.envelope = calls[d].envelope
      BY <3>1, AttemptTyped DEF Call
    <3>2. calls' = [calls EXCEPT ![d] = new]
      BY <1>4, <2>1, <3>1 DEF CheckApproval
    <3>3. Moved(d) /\ calls'[d].envelope.hash > 0
      BY <1>4, <3>2, <3>a, CallReplaced DEF EnvelopesNumbered, CheckApproval
    <3>4. QED
      BY <1>4, <3>3, FilesRest DEF CheckApproval, ledgers
  <2>2. CASE ~(verdict /\ calls[d].approval = calls[d].envelope.hash)
    <3>1. Moved(d) /\ calls'[d].step = "destroy"
      BY <1>4, <2>2, GotoReplaces DEF CheckApproval, Steps, Kept
    <3>2. QED
      BY <1>4, <3>1, FilesRest DEF CheckApproval, ledgers
  <2>3. QED
    BY <2>1, <2>2
<1>5. QED
  BY <1>1, <1>2, <1>3, <1>4

LEMMA GenerateTyped ==
    ASSUME TypeOK, EnvelopesNumbered, NEW d \in Dispatchers,
           \/ Admit(d) \/ Post(d) \/ RecordSuccess(d) \/ AuditCompleted(d)
           \/ \E verdict \in BOOLEAN :
                MarkStarted(d, verdict) \/ TransportReturns(d, verdict) \/ PersistResult(d, verdict)
           \/ \E code \in {"retryable", "rejected"} : TransportFails(d, code)
    PROVE  TypeOK' /\ EnvelopesNumbered'
<1> USE DEF TypeOK
<1>0. PICK r \in Requests, a \in Attempts : r = calls[d].request /\ a = Attempt(d)
  BY AttemptTyped
<1>a. \A code \in {"retryable", "rejected", "invalid_response", "invalid_authority",
                   "budget_exceeded", "missing_credential", "result_persistence"} :
        code \in FailureCodes
  BY DEF FailureCodes, RetryableFailures
<1>1. CASE Admit(d)
  <2>1. \/ /\ Goto(d, "credential")
           /\ \E row \in Reservation : reservations' = [reservations EXCEPT ![r][a] = row]
        \/ /\ \E code \in FailureCodes : Fail(d, code)
           /\ UNCHANGED reservations
    <3>1. [state |-> "reserved", day |-> calls[d].now] \in Reservation
      BY AttemptTyped DEF Call, Reservation
    <3>2. QED
      BY <1>0, <1>1, <1>a, <3>1, Zenon DEF Admit
  <2>2. Kept(d)
    BY <2>1, GotoReplaces, FailReplaces DEF Steps
  <2>3. reservations' \in [Requests -> [Attempts -> Reservation]]
    BY <2>1, ReservationsTyped
  <2>4. Moved(d) /\ calls'[d].envelope.hash > 0
    BY <1>1, <2>2, EnvelopeKept DEF Admit
  <2>5. QED
    BY <1>1, <2>3, <2>4, FilesRest DEF Admit
<1>2. CASE Post(d)
  <2>1. sent' = [sent EXCEPT ![r][a] = @ + 1]
    BY <1>0, <1>2 DEF Post
  <2>2. sent' \in [Requests -> [Attempts -> Nat]]
    BY <2>1
  <2>3. Kept(d)
    BY <1>2, GotoReplaces DEF Post, Steps
  <2>4. Moved(d) /\ calls'[d].envelope.hash > 0
    BY <1>2, <2>3, EnvelopeKept DEF Post
  <2>5. QED
    BY <1>2, <2>2, <2>4, FilesRest DEF Post
<1>3. CASE RecordSuccess(d)
  <2>1. reservations' = [reservations EXCEPT ![r][a].state = "completed"]
    BY <1>0, <1>3, Zenon DEF RecordSuccess
  <2>2. reservations' \in [Requests -> [Attempts -> Reservation]]
    BY <2>1, StateSet, Zenon
  <2>3. Moved(d) /\ calls'[d].step = "complete"
    BY <1>3, GotoReplaces DEF RecordSuccess, Steps, Kept
  <2>4. UNCHANGED <<files, persisted, approvals, results, journal, sent, pending, clock, abandoned>>
    BY <1>3, Zenon DEF RecordSuccess
  <2>5. QED
    BY <2>2, <2>3, <2>4, FilesRest
<1>4. CASE AuditCompleted(d)
  <2>1. journal' \in [Requests -> SUBSET (Entries \X Attempts)]
    BY <1>4, AppendTyped DEF AuditCompleted, Entries
  <2>2. Moved(d) /\ calls'[d].step = "destroy"
    BY <1>4, GotoReplaces DEF AuditCompleted, Steps, Kept
  <2>3. QED
    BY <1>4, <2>1, <2>2, FilesRest DEF AuditCompleted
<1>5. ASSUME NEW verdict \in BOOLEAN, MarkStarted(d, verdict)
      PROVE  TypeOK' /\ EnvelopesNumbered'
  <2>1. \/ /\ Goto(d, "post")
           /\ reservations' = [reservations EXCEPT ![r][a].state = "transport_started"]
        \/ Fail(d, "missing_credential") /\ UNCHANGED reservations
    BY <1>0, <1>5, Zenon DEF MarkStarted
  <2>2. Goto(d, "post") \/ Fail(d, "missing_credential")
    BY <2>1, Zenon
  <2>3. Kept(d)
    BY <1>a, <2>2, GotoReplaces, FailReplaces DEF Steps
  <2>4. reservations' = [reservations EXCEPT ![r][a].state = "transport_started"] =>
            reservations' \in [Requests -> [Attempts -> Reservation]]
    BY StateSet, Zenon
  <2>5. reservations' \in [Requests -> [Attempts -> Reservation]]
    BY <2>1, <2>4, Zenon
  <2>6. calls[d].step = "credential"
    BY <1>5, Zenon DEF MarkStarted
  <2>7. Moved(d) /\ calls'[d].envelope.hash > 0
    BY <2>3, <2>6, EnvelopeKept
  <2>8. UNCHANGED <<files, persisted, approvals, results, journal, sent, pending, clock, abandoned>>
    BY <1>5, Zenon DEF MarkStarted
  <2>9. QED
    BY <2>5, <2>7, <2>8, FilesRest
<1>6. ASSUME NEW verdict \in BOOLEAN, TransportReturns(d, verdict)
      PROVE  TypeOK' /\ EnvelopesNumbered'
  <2>1. Kept(d)
    BY <1>6, <1>a, GotoReplaces, FailReplaces DEF TransportReturns, Steps
  <2>2. Moved(d) /\ calls'[d].envelope.hash > 0
    BY <1>6, <2>1, EnvelopeKept DEF TransportReturns
  <2>3. QED
    BY <1>6, <2>2, FilesRest DEF TransportReturns, ledgers
<1>7. ASSUME NEW verdict \in BOOLEAN, PersistResult(d, verdict)
      PROVE  TypeOK' /\ EnvelopesNumbered'
  <2>1. Kept(d)
    BY <1>7, <1>a, GotoReplaces, FailReplaces DEF PersistResult, Steps
  <2>2. Moved(d) /\ calls'[d].envelope.hash > 0
    BY <1>7, <2>1, EnvelopeKept DEF PersistResult
  <2>3. results' \in [Requests -> {0} \cup Attempts]
    BY <1>0, <1>7 DEF PersistResult
  <2>4. QED
    BY <1>7, <2>2, <2>3, FilesRest DEF PersistResult
<1>8. ASSUME NEW code \in {"retryable", "rejected"}, TransportFails(d, code)
      PROVE  TypeOK' /\ EnvelopesNumbered'
  <2>1. Kept(d)
    BY <1>8, <1>a, FailReplaces DEF TransportFails
  <2>2. Moved(d) /\ calls'[d].envelope.hash > 0
    BY <1>8, <2>1, EnvelopeKept DEF TransportFails
  <2>3. QED
    BY <1>8, <2>2, FilesRest DEF TransportFails, ledgers
<1>9. QED
  BY <1>1, <1>2, <1>3, <1>4, <1>5, <1>6, <1>7, <1>8

LEMMA AttemptCounted ==
    ASSUME NEW old \in Envelope
    PROVE  /\ [old EXCEPT !.dispatch_attempts = 1] \in Envelope
           /\ [old EXCEPT !.dispatch_attempts = 1].hash = old.hash
<1>1. 1 \in 0 .. 1
  OBVIOUS
<1>2. QED
  BY <1>1, Zenon DEF Envelope

LEMMA SettleTyped ==
    ASSUME TypeOK, EnvelopesNumbered, NEW d \in Dispatchers,
           \/ AuditFailed(d) \/ RestoreRetry(d) \/ LookForActive(d) \/ OpenClaimed(d) \/ CompareInode(d) \/ RewriteClaimed(d)
           \/ Publish(d) \/ AuditBlocked(d) \/ DestroyClaim(d) \/ Crash(d)
    PROVE  TypeOK' /\ EnvelopesNumbered'
<1> USE DEF TypeOK
<1>0. PICK r \in Requests : r = calls[d].request
  BY AttemptTyped
<1>1. CASE AuditFailed(d)
  <2>1. Kept(d)
    BY <1>1, GotoReplaces DEF AuditFailed, Steps
  <2>2. Moved(d) /\ calls'[d].envelope.hash > 0
    BY <1>1, <2>1, EnvelopeKept DEF AuditFailed
  <2>3. journal' \in [Requests -> SUBSET (Entries \X Attempts)]
    BY <1>1, AppendTyped DEF AuditFailed, Entries
  <2>4. QED
    BY <1>1, <2>2, <2>3, FilesRest DEF AuditFailed
<1>2. CASE RestoreRetry(d) \/ LookForActive(d)
  <2>1. Leave(d) \/ \E step \in {"look", "open", "block"} : Goto(d, step)
    BY <1>2 DEF RestoreRetry, LookForActive
  <2>2. Moved(d) /\ (calls'[d].step = "idle" \/ calls'[d].envelope.hash > 0)
    BY <1>2, <2>1, LeaveReplaces, GotoReplaces, EnvelopeKept DEF Steps, RestoreRetry, LookForActive
  <2>3. QED
    BY <1>2, <2>2, FilesRest DEF RestoreRetry, LookForActive, ledgers
<1>a. CASE OpenClaimed(d)
  <2>1. \/ Goto(d, "block")
        \/ calls' = [calls EXCEPT ![d].step = "compare", ![d].inode = claimed[r]]
    BY <1>0, <1>a DEF OpenClaimed
  <2>2. ASSUME calls' = [calls EXCEPT ![d].step = "compare", ![d].inode = claimed[r]]
        PROVE  Moved(d) /\ calls'[d].envelope.hash > 0
    <3>1. PICK new \in Call : new = [calls[d] EXCEPT !.step = "compare", !.inode = claimed[r]]
      BY AttemptTyped, ZenonT(60) DEF Call, Steps
    <3>2. new.envelope = calls[d].envelope
      BY <3>1, AttemptTyped DEF Call
    <3>3. calls' = [calls EXCEPT ![d] = new]
      BY <2>2, <3>1
    <3>4. Moved(d) /\ calls'[d] = new
      BY <3>3, CallReplaced
    <3>5. QED
      BY <1>a, <3>2, <3>4 DEF EnvelopesNumbered, OpenClaimed
  <2>3. Moved(d) /\ (calls'[d].step = "block" \/ calls'[d].envelope.hash > 0)
    BY <2>1, <2>2, GotoReplaces DEF Steps, Kept
  <2>4. QED
    BY <1>a, <2>3, FilesRest DEF OpenClaimed, ledgers
<1>3. CASE CompareInode(d)
  <2>1. \/ Leave(d)
        \/ \E step \in {"rewrite", "block"} :
            calls' = [calls EXCEPT ![d].inode = NoEnvelope, ![d].step = step]
    BY <1>3 DEF CompareInode
  <2>2. ASSUME NEW step \in {"rewrite", "block"},
               calls' = [calls EXCEPT ![d].inode = NoEnvelope, ![d].step = step]
        PROVE  Moved(d) /\ calls'[d].envelope.hash > 0
    <3>1. PICK new \in Call : new = [calls[d] EXCEPT !.inode = NoEnvelope, !.step = step]
      BY AttemptTyped, NoCallTyped DEF Call, Steps
    <3>2. new.envelope = calls[d].envelope
      BY <3>1, AttemptTyped DEF Call
    <3>3. calls' = [calls EXCEPT ![d] = new]
      BY <2>2, <3>1
    <3>4. Moved(d) /\ calls'[d] = new
      BY <3>3, CallReplaced
    <3>5. QED
      BY <1>3, <3>2, <3>4 DEF EnvelopesNumbered, CompareInode
  <2>3. Moved(d) /\ (calls'[d].step = "idle" \/ calls'[d].envelope.hash > 0)
    BY <2>1, <2>2, LeaveReplaces
  <2>4. QED
    BY <1>3, <2>3, FilesRest DEF CompareInode, ledgers
<1>4. CASE RewriteClaimed(d)
  <2>1. Moved(d) /\ calls'[d].step = "publish"
    BY <1>4, GotoReplaces DEF RewriteClaimed, Steps, Kept
  <2>2. PICK e \in Envelope : e = [calls[d].envelope EXCEPT !.dispatch_attempts = 1]
    <3>1. calls[d].envelope \in Envelope
      BY AttemptTyped DEF Call
    <3>2. QED
      BY <3>1, AttemptCounted, Zenon
  <2>3. e.hash > 0
    BY <1>4, <2>2, AttemptTyped DEF Call, Envelope, EnvelopesNumbered, RewriteClaimed
  <2>4. claimed' = [claimed EXCEPT ![r] = e]
    BY <1>0, <1>4, <2>2, Zenon DEF RewriteClaimed
  <2>5. UNCHANGED <<active, unwritten, persisted, approvals, ledgers, pending, clock, abandoned>>
    BY <1>4, Zenon DEF RewriteClaimed
  <2>6. TypeOK'
    BY <2>1, <2>4, <2>5 DEF Moved, ledgers
  <2>7. \A q \in Requests :
            /\ active'[q] = NoEnvelope \/ active'[q].hash > 0
            /\ claimed'[q] = NoEnvelope \/ claimed'[q].hash > 0
    BY <2>3, <2>4, <2>5 DEF EnvelopesNumbered
  <2>8. QED
    BY <2>1, <2>6, <2>7, NumberedStep
<1>5. CASE Publish(d)
  <2>1. Moved(d) /\ calls'[d].step = "idle"
    BY <1>5, LeaveReplaces DEF Publish
  <2>2. \/ UNCHANGED <<active, claimed>>
        \/ /\ active' = [active EXCEPT ![r] = claimed[r]]
           /\ claimed' = [claimed EXCEPT ![r] = NoEnvelope]
    BY <1>0, <1>5 DEF Publish
  <2>3. active' \in [Requests -> Envelope] /\ claimed' \in [Requests -> Envelope]
    BY <2>2, NoCallTyped, ZenonT(60)
  <2>4. TypeOK'
    BY <1>5, <2>1, <2>3 DEF Publish, Moved, ledgers
  <2>5. \A q \in Requests :
            /\ active'[q] = NoEnvelope \/ active'[q].hash > 0
            /\ claimed'[q] = NoEnvelope \/ claimed'[q].hash > 0
    BY <2>2 DEF EnvelopesNumbered
  <2>6. QED
    BY <2>1, <2>4, <2>5, NumberedStep
<1>6. CASE AuditBlocked(d)
  <2>1. Moved(d) /\ calls'[d].step = "idle"
    BY <1>6, LeaveReplaces DEF AuditBlocked
  <2>2. journal' \in [Requests -> SUBSET (Entries \X Attempts)]
    BY <1>6, AppendTyped DEF AuditBlocked, Entries
  <2>3. QED
    BY <1>6, <2>1, <2>2, FilesRest DEF AuditBlocked
<1>7. CASE DestroyClaim(d)
  <2>1. Moved(d) /\ calls'[d].step \in {"idle", "blocked"}
    BY <1>7, LeaveReplaces, GotoReplaces DEF DestroyClaim, Steps, Kept
  <2>2. claimed' = [claimed EXCEPT ![r] = NoEnvelope]
    BY <1>0, <1>7 DEF DestroyClaim
  <2>3. TypeOK'
    BY <1>7, <2>1, <2>2, NoCallTyped DEF DestroyClaim, Moved, ledgers
  <2>4. \A q \in Requests :
            /\ active'[q] = NoEnvelope \/ active'[q].hash > 0
            /\ claimed'[q] = NoEnvelope \/ claimed'[q].hash > 0
    BY <1>7, <2>2 DEF EnvelopesNumbered, DestroyClaim
  <2>5. QED
    BY <2>1, <2>3, <2>4, NumberedStep
<1>8. CASE Crash(d)
  <2>1. Moved(d) /\ calls'[d].step = "idle"
    BY <1>8, LeaveReplaces DEF Crash
  <2>2. QED
    BY <1>0, <1>8, <2>1, FilesRest DEF Crash, ledgers
<1>9. QED
  BY <1>1, <1>2, <1>a, <1>3, <1>4, <1>5, <1>6, <1>7, <1>8

LEMMA OwnerNumbered ==
    ASSUME TypeOK, EnvelopesNumbered, NEW r \in Requests, OwnerStep(r)
    PROVE  EnvelopesNumbered'
<1>1. calls' = calls
  BY DEF OwnerStep, Persist, Approve, Cancel, UnlinkClaimed, Reconcile, DiscardActive, WriteEnvelope, CreateEnvelope
<1>2. claimed' = claimed \/ claimed' = [claimed EXCEPT ![r] = NoEnvelope]
  BY DEF OwnerStep, Persist, Approve, Cancel, UnlinkClaimed, Reconcile, DiscardActive, WriteEnvelope, CreateEnvelope, UnlinkActive, files
<1>3. \/ active' = active \/ active' = [active EXCEPT ![r] = NoEnvelope]
      \/ \E e \in Envelope : e.hash > 0 /\ active' = [active EXCEPT ![r] = e]
  <2>1. CASE Persist(r) \/ Approve(r) \/ Cancel(r) \/ UnlinkClaimed(r) \/ Reconcile(r) \/ DiscardActive(r)
    BY <2>1 DEF Persist, Approve, Cancel, UnlinkClaimed, Reconcile, DiscardActive, UnlinkActive, files
  <2>2. ASSUME NEW expires_at \in clock + 1 .. Horizon + 1, CreateEnvelope(r, expires_at)
        PROVE  \/ active' = active
               \/ \E e \in Envelope : e.hash > 0 /\ active' = [active EXCEPT ![r] = e]
    <3>1. CASE active[r] = NoEnvelope /\ persisted[r] < MaxPreflights
      <4>1. persisted[r] \in 0 .. MaxPreflights /\ clock \in Nat
        BY BoundsAssumption DEF TypeOK, Days
      <4>2. PICK e \in Envelope :
                e = [hash |-> persisted[r] + 1, dispatch_attempts |-> 0, expires_at |-> expires_at]
        <5>1. [hash |-> persisted[r] + 1, dispatch_attempts |-> 0, expires_at |-> expires_at]
                \in Envelope
          BY <3>1, <4>1, BoundsAssumption DEF Envelope
        <5>2. QED
          BY <5>1, Zenon
      <4>3. e.hash > 0
        BY <4>1, <4>2
      <4>4. active' = [active EXCEPT ![r] = e]
        BY <2>2, <3>1, <4>2, Zenon DEF CreateEnvelope
      <4>5. QED
        BY <4>3, <4>4
    <3>2. CASE ~(active[r] = NoEnvelope /\ persisted[r] < MaxPreflights)
      BY <2>2, <3>2 DEF CreateEnvelope
    <3>3. QED
      BY <3>1, <3>2
  <2>3. ASSUME NEW hash \in 1 .. MaxPreflights, WriteEnvelope(r, hash)
        PROVE  active' = active
    BY <2>3 DEF WriteEnvelope
  <2>4. QED
    BY <2>1, <2>2, <2>3 DEF OwnerStep
<1>4. QED
  BY <1>1, <1>2, <1>3 DEF EnvelopesNumbered, TypeOK

LEMMA TypeStep == TypeOK /\ EnvelopesNumbered /\ [Next]_vars => TypeOK' /\ EnvelopesNumbered'
<1> SUFFICES ASSUME TypeOK, EnvelopesNumbered, [Next]_vars
             PROVE  TypeOK' /\ EnvelopesNumbered'
  OBVIOUS
<1>1. ASSUME NEW r \in Requests, OwnerStep(r)
      PROVE  TypeOK' /\ EnvelopesNumbered'
  BY <1>1, OwnerTyped, OwnerNumbered
<1>2. ASSUME NEW d \in Dispatchers,
             NEW r \in Requests, NEW approval \in 1 .. MaxPreflights, Begin(d, r, approval)
      PROVE  TypeOK' /\ EnvelopesNumbered'
  BY <1>2, ClaimTyped
<1>3. ASSUME NEW d \in Dispatchers, DispatcherStep(d) \/ Crash(d)
      PROVE  TypeOK' /\ EnvelopesNumbered'
  BY <1>3, ClaimTyped, GenerateTyped, SettleTyped, Zenon DEF DispatcherStep
<1>4. CASE NextDay
  BY <1>4, BoundsAssumption DEF NextDay, TypeOK, EnvelopesNumbered, Days, files, ledgers
<1>5. CASE UNCHANGED vars
  BY <1>5 DEF vars, TypeOK, EnvelopesNumbered, files, ledgers
<1>6. QED
  BY <1>1, <1>2, <1>3, <1>4, <1>5, Zenon DEF Next

\* Type correctness: the files, the ledgers and what the processes hold are always of
\* their types; an envelope in a file always has a hash that can be approved.
THEOREM DispatchTypeCorrect == Spec => []TypeOK
<1>1. Init => TypeOK /\ EnvelopesNumbered
  BY TypeInit DEF Init, EnvelopesNumbered, NoCall
<1>2. TypeOK /\ EnvelopesNumbered /\ [Next]_vars => (TypeOK /\ EnvelopesNumbered)'
  BY TypeStep
<1>3. QED
  BY <1>1, <1>2, PTL DEF Spec

(***************************************************************************)
(* What the steps have in common.                                          *)
(***************************************************************************)

\* Who owns an attempt after the step owned it before.
CarriedOn ==
    \A c \in Dispatchers :
        Owner(c)' => /\ Owner(c)
                     /\ calls'[c].request = calls[c].request
                     /\ calls'[c].envelope = calls[c].envelope

LEMMA OwnersStay ==
    ASSUME TypeOK, TypeOK', OwnersDiffer, FirstClosed, AnswerClosed, CarriedOn,
           UNCHANGED results,
           \A c \in Dispatchers : Unanswered(c)' => Unanswered(c),
           \A r \in Requests : Retried(r)' => Retried(r) /\ sent'[r][1] = sent[r][1]
    PROVE  OwnersDiffer' /\ FirstClosed' /\ AnswerClosed'
<1>1. OwnersDiffer'
  BY DEF OwnersDiffer, CarriedOn, Attempt
<1>2. FirstClosed'
  BY DEF FirstClosed, CarriedOn, Attempt
<1>3. AnswerClosed'
  BY DEF AnswerClosed, Unanswered, CarriedOn, Attempt
<1>4. QED
  BY <1>1, <1>2, <1>3

\* The ledger and the provider see nothing of the step.
LEMMA LedgersStay ==
    ASSUME TypeOK, TypeOK', OwnersRecorded, SentOnce, CarriedOn,
           UNCHANGED <<reservations, sent>>,
           \A c \in Dispatchers : Owner(c)' =>
                \/ calls'[c] = calls[c]
                \/ /\ calls[c].step \notin {"credential", "post"}
                   /\ calls'[c].step \notin {"credential", "post"}
    PROVE  OwnersRecorded' /\ SentOnce'
<1>1. SentOnce'
  BY DEF SentOnce
<1>2. ASSUME NEW c \in Dispatchers, Owner(c)'
      PROVE  OwnedRow(c)'
  <2>1. /\ Owner(c) /\ OwnedRow(c)
        /\ calls'[c].request = calls[c].request /\ Attempt(c)' = Attempt(c)
    BY <1>2 DEF CarriedOn, OwnersRecorded, Attempt
  <2>2. \/ calls'[c].step = calls[c].step
        \/ /\ calls[c].step \notin {"credential", "post"}
           /\ calls'[c].step \notin {"credential", "post"}
    BY <1>2
  <2>3. QED
    BY <2>1, <2>2 DEF OwnedRow
<1>3. QED
  BY <1>1, <1>2 DEF OwnersRecorded

LEMMA GrantsStay ==
    ASSUME TypeOK, TypeOK', RetriesGranted,
           \A r \in Requests :
               /\ Retried(r) => Retried(r)'
               /\ active'[r].dispatch_attempts = 1 =>
                    \/ active[r].dispatch_attempts = 1
                    \/ claimed[r].dispatch_attempts = 1
                    \/ Retried(r)
               /\ claimed'[r].dispatch_attempts = 1 =>
                    \/ active[r].dispatch_attempts = 1
                    \/ claimed[r].dispatch_attempts = 1
                    \/ Retried(r)
               /\ reservations'[r][2].state # "none" =>
                    reservations[r][2].state # "none" \/ Retried(r)
               /\ results'[r] = 2 => results[r] = 2 \/ Retried(r),
           \A c \in Dispatchers :
               \/ calls'[c] = calls[c]
               \/ /\ calls'[c].envelope.dispatch_attempts # 1
                  /\ calls'[c].step \notin {"restore", "look", "open", "compare", "rewrite", "publish"}
               \/ Retried(calls[c].request)'
    PROVE  RetriesGranted'
<1>1. ASSUME NEW r \in Requests
      PROVE  /\ active'[r].dispatch_attempts = 1 => Retried(r)'
             /\ claimed'[r].dispatch_attempts = 1 => Retried(r)'
             /\ reservations'[r][2].state # "none" => Retried(r)'
             /\ results'[r] = 2 => Retried(r)'
  BY DEF RetriesGranted
<1>2. ASSUME NEW c \in Dispatchers,
             \/ calls'[c].envelope.dispatch_attempts = 1
             \/ calls'[c].step \in {"restore", "look", "open", "compare", "rewrite", "publish"}
      PROVE  Retried(calls[c].request)'
  <2>1. CASE calls'[c] = calls[c]
    <3>1. Retried(calls[c].request)
      BY <1>2, <2>1 DEF RetriesGranted
    <3>2. calls[c].request \in Requests
      BY AttemptTyped
    <3>3. QED
      BY <2>1, <3>1, <3>2 DEF Retried
  <2>2. QED
    BY <1>2, <2>1
<1>3. QED
  BY <1>1, <1>2 DEF RetriesGranted, Retried

\* A step in which at most an owner gives up.
LEMMA QuietHeld ==
    ASSUME TypeOK, TypeOK', HeldInv, RetriesGranted',
           UNCHANGED <<reservations, results, sent>>,
           \A r \in Requests : Retried(r)' <=> Retried(r),
           \A c \in Dispatchers : calls'[c] = calls[c] \/ ~Owner(c)'
    PROVE  HeldInv'
<1>1. \A c \in Dispatchers : calls'[c] = calls[c] => Owner(c)' = Owner(c) /\ Unanswered(c)' = Unanswered(c)
  BY DEF Owner, Unanswered
<1>2. CarriedOn
  BY <1>1 DEF CarriedOn
<1>3. \A c \in Dispatchers : Unanswered(c)' => Unanswered(c)
  BY <1>1 DEF Unanswered
<1>4. OwnersDiffer' /\ FirstClosed' /\ AnswerClosed'
  BY <1>2, <1>3, OwnersStay DEF HeldInv
<1>5. OwnersRecorded' /\ SentOnce'
  BY <1>2, LedgersStay DEF HeldInv
<1>6. AnswerSent'
  BY DEF HeldInv, AnswerSent
<1>7. QED
  BY <1>4, <1>5, <1>6 DEF HeldInv

LEMMA OwnerHeld ==
    ASSUME TypeOK, TypeOK', HeldInv, NEW r \in Requests, OwnerStep(r)
    PROVE  HeldInv'
<1>1. UNCHANGED <<calls, reservations, results, journal, sent>>
  BY DEF OwnerStep, Persist, Approve, Cancel, UnlinkClaimed, Reconcile, DiscardActive, WriteEnvelope, CreateEnvelope, ledgers
<1>2. claimed' = claimed \/ claimed' = [claimed EXCEPT ![r] = NoEnvelope]
  BY DEF OwnerStep, Persist, Approve, Cancel, UnlinkClaimed, Reconcile, DiscardActive, WriteEnvelope, CreateEnvelope, UnlinkActive, files
<1>3. \/ active' = active
      \/ \E e \in [hash : Nat, dispatch_attempts : {0}, expires_at : Nat] :
            active' = [active EXCEPT ![r] = e]
  <2>0. NoEnvelope \in [hash : Nat, dispatch_attempts : {0}, expires_at : Nat]
    BY DEF NoEnvelope
  <2>1. CASE Persist(r) \/ Approve(r) \/ Cancel(r) \/ UnlinkClaimed(r) \/ Reconcile(r) \/ DiscardActive(r)
    <3>1. active' = active \/ active' = [active EXCEPT ![r] = NoEnvelope]
      BY <2>1 DEF Persist, Approve, Cancel, UnlinkClaimed, Reconcile, DiscardActive, UnlinkActive, files
    <3>2. QED
      BY <2>0, <3>1, Zenon
  <2>2. ASSUME NEW expires_at \in clock + 1 .. Horizon + 1, CreateEnvelope(r, expires_at),
               active' # active
        PROVE  \E e \in [hash : Nat, dispatch_attempts : {0}, expires_at : Nat] :
                    active' = [active EXCEPT ![r] = e]
    <3>1. persisted[r] + 1 \in Nat /\ expires_at \in Nat
      BY BoundsAssumption DEF TypeOK, Days
    <3>2. [hash |-> persisted[r] + 1, dispatch_attempts |-> 0, expires_at |-> expires_at]
            \in [hash : Nat, dispatch_attempts : {0}, expires_at : Nat]
      BY <3>1
    <3>3. active' = [active EXCEPT ![r] = [hash |-> persisted[r] + 1,
                        dispatch_attempts |-> 0, expires_at |-> expires_at]]
      BY <2>2, Zenon DEF CreateEnvelope
    <3>4. QED
      BY <3>2, <3>3, Zenon
  <2>3. ASSUME NEW hash \in 1 .. MaxPreflights, WriteEnvelope(r, hash)
        PROVE  active' = active
    BY <2>3 DEF WriteEnvelope
  <2>4. QED
    BY <2>1, <2>2, <2>3, Zenon DEF OwnerStep
<1>4. \A q \in Requests :
        /\ active'[q].dispatch_attempts = 1 => active[q].dispatch_attempts = 1
        /\ claimed'[q].dispatch_attempts = 1 => claimed[q].dispatch_attempts = 1
  <2>1. \A q \in Requests : claimed'[q].dispatch_attempts = 1 => claimed[q].dispatch_attempts = 1
    <3>1. \A q \in Requests : claimed'[q] = claimed[q] \/ claimed'[q] = NoEnvelope
      BY <1>2 DEF TypeOK
    <3>2. QED
      BY <3>1, EmptyFields
  <2>2. ASSUME NEW e \in [hash : Nat, dispatch_attempts : {0}, expires_at : Nat],
               active' = [active EXCEPT ![r] = e], NEW q \in Requests
        PROVE  active'[q].dispatch_attempts = 1 => active[q].dispatch_attempts = 1
    <3>1. e.dispatch_attempts = 0
      OBVIOUS
    <3>2. QED
      BY <2>2, <3>1 DEF TypeOK
  <2>3. QED
    BY <1>3, <2>1, <2>2, Zenon
<1>5. \A q \in Requests : Retried(q)' <=> Retried(q)
  BY <1>1 DEF Retried
<1>6. RetriesGranted'
  BY <1>1, <1>4, <1>5, GrantsStay DEF HeldInv
<1>7. QED
  BY <1>1, <1>5, <1>6, QuietHeld

\* A dispatcher moves where it owns nothing, with its own envelope or the claimed one.
LEMMA DispatcherQuiet ==
    ASSUME TypeOK, TypeOK', HeldInv, NEW d \in Dispatchers, Moved(d), ~Owner(d)',
           UNCHANGED <<reservations, results, sent>>,
           \A q \in Requests : Retried(q)' <=> Retried(q),
           \A q \in Requests :
                /\ active'[q].dispatch_attempts = 1 =>
                    active[q].dispatch_attempts = 1 \/ claimed[q].dispatch_attempts = 1 \/ Retried(q)
                /\ claimed'[q].dispatch_attempts = 1 =>
                    active[q].dispatch_attempts = 1 \/ claimed[q].dispatch_attempts = 1 \/ Retried(q),
           \/ /\ calls'[d].envelope.dispatch_attempts # 1
              /\ calls'[d].step \notin {"restore", "look", "open", "compare", "rewrite", "publish"}
           \/ Retried(calls[d].request)'
    PROVE  HeldInv'
<1>1. \A c \in Dispatchers : calls'[c] = calls[c] \/ ~Owner(c)'
  BY DEF Moved
<1>2. \A c \in Dispatchers : calls'[c] = calls[c] \/ c = d
  BY DEF Moved
<1>3. RetriesGranted'
  BY <1>2, GrantsStay DEF HeldInv
<1>4. QED
  BY <1>1, <1>3, QuietHeld

\* It goes on with its own envelope.
LEMMA EnvelopeGranted ==
    ASSUME TypeOK, HeldInv, NEW d \in Dispatchers, Kept(d),
           \A q \in Requests : Retried(q) => Retried(q)',
           \/ calls'[d].step \notin {"restore", "look", "open", "compare", "rewrite", "publish"}
           \/ calls[d].step \in {"restore", "look", "open", "compare", "rewrite", "publish"}
    PROVE  \/ /\ calls'[d].envelope.dispatch_attempts # 1
              /\ calls'[d].step \notin {"restore", "look", "open", "compare", "rewrite", "publish"}
           \/ Retried(calls[d].request)'
<1>1. calls[d].request \in Requests
  BY AttemptTyped
<1>2. CASE Retried(calls[d].request)
  BY <1>1, <1>2 DEF Kept, Retried
<1>3. CASE ~Retried(calls[d].request)
  BY <1>3 DEF Kept, HeldInv, RetriesGranted
<1>4. QED
  BY <1>2, <1>3

LEMMA ClaimHeld ==
    ASSUME TypeOK, TypeOK', HeldInv, NEW d \in Dispatchers,
           \/ \E r \in Requests, approval \in 1 .. MaxPreflights : Begin(d, r, approval)
           \/ Rename(d)
           \/ ReadClaim(d)
           \/ \E verdict \in BOOLEAN : CheckApproval(d, verdict)
    PROVE  HeldInv'
<1>1. UNCHANGED <<reservations, results, journal, sent>>
  BY DEF Begin, Rename, ReadClaim, CheckApproval, ledgers
<1>2. \A q \in Requests : Retried(q)' <=> Retried(q)
  BY <1>1 DEF Retried
<1>0. PICK r \in Requests : r = calls[d].request
  BY AttemptTyped
<1>3. \A q \in Requests :
        /\ active'[q].dispatch_attempts = 1 => active[q].dispatch_attempts = 1
        /\ claimed'[q].dispatch_attempts = 1 =>
                active[q].dispatch_attempts = 1 \/ claimed[q].dispatch_attempts = 1
  <2>1. \/ UNCHANGED files
        \/ /\ claimed' = [claimed EXCEPT ![r] = active[r]]
           /\ active' = [active EXCEPT ![r] = NoEnvelope]
    BY <1>0 DEF Begin, Rename, ReadClaim, CheckApproval
  <2>2. QED
    <3>1. \A q \in Requests :
            /\ active'[q] = active[q] \/ active'[q] = NoEnvelope
            /\ claimed'[q] = active[q] \/ claimed'[q] = claimed[q]
      BY <2>1 DEF TypeOK, files
    <3>2. QED
      BY <3>1, EmptyFields
<1>4. /\ Moved(d)
      /\ calls'[d].step \in {"idle", "rename", "read", "destroy", "check", "admit"}
      /\ \/ calls'[d].envelope.dispatch_attempts # 1
         \/ Retried(calls[d].request)'
  <2>1. ASSUME NEW q \in Requests, NEW approval \in 1 .. MaxPreflights, Begin(d, q, approval)
        PROVE  /\ Moved(d)
               /\ calls'[d].step = "rename"
               /\ calls'[d].envelope.dispatch_attempts # 1
    <3>0. approval \in 0 .. MaxPreflights
      BY BoundsAssumption
    <3>1. [NoCall EXCEPT !.step = "rename", !.request = q, !.approval = approval] \in Call
      BY <3>0, NoCallTyped DEF Call, Steps
    <3>2. PICK new \in Call :
            new = [NoCall EXCEPT !.step = "rename", !.request = q, !.approval = approval]
      BY <3>1, Zenon
    <3>3. calls' = [calls EXCEPT ![d] = new]
      BY <2>1, <3>2, Zenon DEF Begin
    <3>4. new.step = "rename" /\ new.envelope = NoEnvelope
      BY <3>2, NoCallTyped, EmptyFields DEF Call
    <3>5. Moved(d) /\ calls'[d] = new
      BY <3>3, CallReplaced
    <3>6. QED
      BY <3>4, <3>5, EmptyFields
  <2>2. CASE Leave(d)
    BY <2>2, LeaveReplaces
  <2>3. ASSUME NEW step \in {"read", "destroy"}, Goto(d, step)
        PROVE  /\ Moved(d)
               /\ calls'[d].step = step
               /\ calls'[d].envelope.dispatch_attempts # 1 \/ Retried(calls[d].request)'
    BY <1>2, <2>3, GotoReplaces, EnvelopeGranted DEF Kept, Steps
  <2>4. ASSUME calls' = [calls EXCEPT ![d].step = "check", ![d].envelope = claimed[r]]
        PROVE  /\ Moved(d)
               /\ calls'[d].step = "check"
               /\ calls'[d].envelope.dispatch_attempts # 1 \/ Retried(calls[d].request)'
    <3>1. claimed[r] \in Envelope
      BY DEF TypeOK
    <3>2. PICK new \in Call : new = [calls[d] EXCEPT !.step = "check", !.envelope = claimed[r]]
      BY <3>1, AttemptTyped DEF Call, Steps
    <3>3. new.step = "check" /\ new.envelope = claimed[r] /\ new.request = r
      BY <1>0, <3>2, AttemptTyped DEF Call
    <3>4. calls' = [calls EXCEPT ![d] = new]
      BY <2>4, <3>2 DEF TypeOK
    <3>5. Moved(d) /\ calls'[d] = new
      BY <3>4, CallReplaced
    <3>6. claimed[r].dispatch_attempts = 1 => Retried(r)
      BY DEF HeldInv, RetriesGranted
    <3>7. QED
      BY <1>1, <3>3, <3>5, <3>6 DEF Retried
  <2>5. ASSUME calls' = [calls EXCEPT ![d].step = "admit", ![d].now = clock]
        PROVE  /\ Moved(d)
               /\ calls'[d].step = "admit"
               /\ calls'[d].envelope.dispatch_attempts # 1 \/ Retried(calls[d].request)'
    <3>1. PICK new \in Call : new = [calls[d] EXCEPT !.step = "admit", !.now = clock]
      BY AttemptTyped, ZenonT(60) DEF Call, Steps, TypeOK
    <3>2. new.step = "admit" /\ new.envelope = calls[d].envelope /\ new.request = calls[d].request
      BY <3>1, AttemptTyped DEF Call
    <3>3. calls' = [calls EXCEPT ![d] = new]
      BY <2>5, <3>1 DEF TypeOK
    <3>4. Kept(d) /\ calls'[d].step = "admit"
      BY <3>2, <3>3, CallReplaced DEF Kept
    <3>5. QED
      BY <1>2, <3>4, EnvelopeGranted DEF Kept
  <2>6. QED
    <3>1. CASE Rename(d) \/ ReadClaim(d) \/ \E verdict \in BOOLEAN : CheckApproval(d, verdict)
      <4>1. \/ Leave(d) \/ (\E step \in {"read", "destroy"} : Goto(d, step))
            \/ calls' = [calls EXCEPT ![d].step = "check", ![d].envelope = claimed[r]]
            \/ calls' = [calls EXCEPT ![d].step = "admit", ![d].now = clock]
        BY <1>0, <3>1, Zenon DEF Rename, ReadClaim, CheckApproval
      <4>2. QED
        BY <2>2, <2>3, <2>4, <2>5, <4>1
    <3>2. QED
      BY <2>1, <3>1
<1>5. ~Owner(d)'
  BY <1>4 DEF Owner
<1>6. QED
  BY <1>1, <1>2, <1>3, <1>4, <1>5, DispatcherQuiet

LEMMA SettleHeld ==
    ASSUME TypeOK, TypeOK', HeldInv, NEW d \in Dispatchers,
           \/ RestoreRetry(d) \/ LookForActive(d) \/ OpenClaimed(d) \/ CompareInode(d) \/ RewriteClaimed(d)
           \/ Publish(d) \/ AuditBlocked(d) \/ DestroyClaim(d) \/ Crash(d)
    PROVE  HeldInv'
<1>0. PICK r \in Requests : r = calls[d].request
  BY AttemptTyped
<1>1. UNCHANGED <<reservations, results, sent>>
  BY DEF RestoreRetry, LookForActive, OpenClaimed, CompareInode, RewriteClaimed, Publish, AuditBlocked, DestroyClaim, Crash, ledgers
<1>2. \A q \in Requests : Retried(q)' <=> Retried(q)
  <2>1. CASE AuditBlocked(d)
    <3>1. journal' = [journal EXCEPT ![r] = @ \cup {<<"retry_blocked", Attempt(d)>>}]
      BY <1>0, <2>1 DEF AuditBlocked, Append
    <3>2. QED
      BY <3>1 DEF Retried, TypeOK
  <2>2. CASE ~AuditBlocked(d)
    <3>1. UNCHANGED journal
      BY <2>2 DEF RestoreRetry, LookForActive, OpenClaimed, CompareInode, RewriteClaimed, Publish, DestroyClaim, Crash, ledgers
    <3>2. QED
      BY <3>1 DEF Retried
  <2>3. QED
    BY <2>1, <2>2
<1>3. calls[d].step \in {"restore", "look", "open", "compare", "rewrite", "publish"} => Retried(r)
  BY <1>0 DEF HeldInv, RetriesGranted
<1>4. \A q \in Requests :
        /\ active'[q].dispatch_attempts = 1 =>
                active[q].dispatch_attempts = 1 \/ claimed[q].dispatch_attempts = 1 \/ Retried(q)
        /\ claimed'[q].dispatch_attempts = 1 =>
                active[q].dispatch_attempts = 1 \/ claimed[q].dispatch_attempts = 1 \/ Retried(q)
  <2>1. CASE RewriteClaimed(d)
    <3>1. Retried(r) /\ active' = active
      BY <1>3, <2>1, Zenon DEF RewriteClaimed
    <3>2. PICK e : claimed' = [claimed EXCEPT ![r] = e]
      BY <1>0, <2>1, Zenon DEF RewriteClaimed
    <3>3. \A q \in Requests : q = r \/ claimed'[q] = claimed[q]
      BY <3>2 DEF TypeOK
    <3>4. QED
      BY <3>1, <3>3
  <2>2. CASE ~RewriteClaimed(d)
    <3>1. \/ UNCHANGED <<active, claimed>>
          \/ UNCHANGED active /\ claimed' = [claimed EXCEPT ![r] = NoEnvelope]
          \/ active' = [active EXCEPT ![r] = claimed[r]] /\ claimed' = [claimed EXCEPT ![r] = NoEnvelope]
      BY <1>0, <2>2 DEF RestoreRetry, LookForActive, OpenClaimed, CompareInode, Publish, AuditBlocked, DestroyClaim, Crash, files
    <3>2. \A q \in Requests :
            /\ active'[q] = active[q] \/ active'[q] = claimed[q]
            /\ claimed'[q] = claimed[q] \/ claimed'[q] = NoEnvelope
      BY <3>1 DEF TypeOK
    <3>3. QED
      BY <3>2, EmptyFields
  <2>3. QED
    BY <2>1, <2>2
<1>5. ASSUME NEW step \in {"rewrite", "block"},
             calls' = [calls EXCEPT ![d].inode = NoEnvelope, ![d].step = step]
      PROVE  Kept(d) /\ calls'[d].step = step
  <2>1. PICK new \in Call : new = [calls[d] EXCEPT !.inode = NoEnvelope, !.step = step]
    BY AttemptTyped, NoCallTyped DEF Call, Steps
  <2>2. new.step = step /\ new.envelope = calls[d].envelope /\ new.request = calls[d].request
    BY <2>1, AttemptTyped DEF Call
  <2>3. calls' = [calls EXCEPT ![d] = new]
    BY <1>5, <2>1 DEF TypeOK
  <2>4. QED
    BY <2>2, <2>3, CallReplaced DEF Kept
<1>6. ASSUME calls' = [calls EXCEPT ![d].step = "compare", ![d].inode = claimed[r]]
      PROVE  Kept(d) /\ calls'[d].step = "compare"
  <2>0. claimed[r] \in Envelope
    BY DEF TypeOK
  <2>1. PICK new \in Call : new = [calls[d] EXCEPT !.step = "compare", !.inode = claimed[r]]
    BY <2>0, AttemptTyped DEF Call, Steps
  <2>2. new.step = "compare" /\ new.envelope = calls[d].envelope /\ new.request = calls[d].request
    BY <2>1, AttemptTyped DEF Call
  <2>3. calls' = [calls EXCEPT ![d] = new]
    BY <1>6, <2>1 DEF TypeOK
  <2>4. QED
    BY <2>2, <2>3, CallReplaced DEF Kept
<1>7. \/ Leave(d)
      \/ /\ Kept(d)
         /\ \/ calls'[d].step \in {"block", "blocked"}
            \/ /\ calls'[d].step \in {"look", "open", "compare", "rewrite", "publish"}
               /\ calls[d].step \in {"restore", "look", "open", "compare", "rewrite", "publish"}
  <2>1. CASE Publish(d) \/ AuditBlocked(d) \/ Crash(d)
    BY <2>1 DEF Publish, AuditBlocked, Crash
  <2>2. CASE DestroyClaim(d)
    BY <2>2, GotoReplaces DEF DestroyClaim, Steps
  <2>3. CASE RewriteClaimed(d)
    <3>1. Goto(d, "publish") /\ calls[d].step = "rewrite"
      BY <2>3, Zenon DEF RewriteClaimed
    <3>2. QED
      BY <3>1, GotoReplaces DEF Steps
  <2>4. CASE RestoreRetry(d) \/ LookForActive(d) \/ OpenClaimed(d)
    BY <1>0, <1>6, <2>4, GotoReplaces DEF RestoreRetry, LookForActive, OpenClaimed, Steps
  <2>5. CASE CompareInode(d)
    BY <1>0, <1>5, <2>5 DEF CompareInode
  <2>6. QED
    BY <2>1, <2>2, <2>3, <2>4, <2>5
<1>8. /\ Moved(d)
      /\ ~Owner(d)'
      /\ \/ /\ calls'[d].envelope.dispatch_attempts # 1
            /\ calls'[d].step \notin {"restore", "look", "open", "compare", "rewrite", "publish"}
         \/ Retried(calls[d].request)'
  <2>1. CASE Leave(d)
    BY <2>1, LeaveReplaces DEF Owner
  <2>2. CASE ~Leave(d)
    <3>1. Kept(d) /\ calls'[d].step \in {"block", "blocked", "look", "open", "compare", "rewrite", "publish"}
      BY <1>7, <2>2
    <3>2. \/ calls'[d].step \notin {"restore", "look", "open", "compare", "rewrite", "publish"}
          \/ calls[d].step \in {"restore", "look", "open", "compare", "rewrite", "publish"}
      BY <1>7, <2>2
    <3>3. QED
      BY <1>2, <3>1, <3>2, EnvelopeGranted DEF Kept, Owner
  <2>3. QED
    BY <2>1, <2>2
<1>9. QED
  BY <1>1, <1>2, <1>4, <1>8, DispatcherQuiet

\* An attempt ends without a retry, or before it began.
LEMMA FailHeld ==
    ASSUME TypeOK, TypeOK', HeldInv, NEW d \in Dispatchers,
           NEW code \in FailureCodes \ {"retryable"}, Fail(d, code),
           UNCHANGED <<files, reservations, results, journal, sent>>
    PROVE  HeldInv'
<1>1. Kept(d) /\ calls'[d].step = "failed" /\ calls'[d].failure = code
  BY FailReplaces
<1>2. \A q \in Requests : Retried(q)' <=> Retried(q)
  BY DEF Retried
<1>3. \/ /\ calls'[d].envelope.dispatch_attempts # 1
         /\ calls'[d].step \notin {"restore", "look", "open", "compare", "rewrite", "publish"}
      \/ Retried(calls[d].request)'
  BY <1>1, <1>2, EnvelopeGranted
<1>4. Moved(d) /\ ~Owner(d)'
  BY <1>1 DEF Kept, Owner
<1>5. QED
  BY <1>2, <1>3, <1>4, DispatcherQuiet DEF files

\* The journal closes an attempt that cannot be tried again.
LEMMA CloseHeld ==
    ASSUME TypeOK, TypeOK', HeldInv, NEW d \in Dispatchers,
           NEW entry \in Entries \ {"failed_retryable"}, Append(d, entry), Goto(d, "destroy"),
           UNCHANGED <<files, reservations, results, sent>>
    PROVE  HeldInv'
<1>1. Kept(d) /\ calls'[d].step = "destroy"
  BY GotoReplaces DEF Steps
<1>2. \A q \in Requests : Retried(q)' <=> Retried(q)
  <2>1. PICK r \in Requests : r = calls[d].request
    BY AttemptTyped
  <2>2. journal' = [journal EXCEPT ![r] = @ \cup {<<entry, Attempt(d)>>}]
    BY <2>1 DEF Append
  <2>3. QED
    BY <2>2 DEF Retried, TypeOK
<1>3. \/ /\ calls'[d].envelope.dispatch_attempts # 1
         /\ calls'[d].step \notin {"restore", "look", "open", "compare", "rewrite", "publish"}
      \/ Retried(calls[d].request)'
  BY <1>1, <1>2, EnvelopeGranted
<1>4. Moved(d) /\ ~Owner(d)'
  BY <1>1 DEF Kept, Owner
<1>5. QED
  BY <1>2, <1>3, <1>4, DispatcherQuiet DEF files

\* An owner goes on with its attempt.
LEMMA OwnerGoesOn ==
    ASSUME TypeOK, TypeOK', HeldInv, NEW d \in Dispatchers, Kept(d), Owner(d), Owner(d)',
           Unanswered(d)' => Unanswered(d),
           UNCHANGED <<files, results, journal>>,
           \A q \in Requests :
                /\ Retried(q) => sent'[q][1] = sent[q][1]
                /\ reservations'[q][2].state # "none" => reservations[q][2].state # "none"
    PROVE  CarriedOn /\ OwnersDiffer' /\ FirstClosed' /\ AnswerClosed' /\ RetriesGranted'
<1>1. \A q \in Requests : Retried(q)' <=> Retried(q)
  BY DEF Retried
<1>2. \A c \in Dispatchers : c # d => calls'[c] = calls[c] /\ Owner(c)' = Owner(c) /\ Unanswered(c)' = Unanswered(c)
  BY DEF Kept, Moved, Owner, Unanswered
<1>3. CarriedOn
  BY <1>2 DEF CarriedOn, Kept
<1>4. \A c \in Dispatchers : Unanswered(c)' => Unanswered(c)
  BY <1>2
<1>5. OwnersDiffer' /\ FirstClosed' /\ AnswerClosed'
  BY <1>1, <1>3, <1>4, OwnersStay DEF HeldInv
<1>6. calls'[d].step \notin {"restore", "look", "open", "compare", "rewrite", "publish"}
  BY DEF Owner
<1>7. \/ /\ calls'[d].envelope.dispatch_attempts # 1
         /\ calls'[d].step \notin {"restore", "look", "open", "compare", "rewrite", "publish"}
      \/ Retried(calls[d].request)'
  BY <1>1, <1>6, EnvelopeGranted
<1>8. RetriesGranted'
  BY <1>1, <1>2, <1>7, GrantsStay DEF HeldInv, files
<1>9. QED
  BY <1>3, <1>5, <1>8

\* An owner writes its own row, or sends its own attempt.
LEMMA RowAdvances ==
    ASSUME TypeOK, TypeOK', HeldInv, NEW d \in Dispatchers, Kept(d), Owner(d), Owner(d)',
           Unanswered(d)' => Unanswered(d),
           UNCHANGED <<files, results, journal>>,
           NEW r \in Requests, NEW a \in Attempts, r = calls[d].request, a = Attempt(d),
           \A q \in Requests, b \in Attempts : <<q, b>> # <<r, a>> =>
                reservations'[q][b] = reservations[q][b] /\ sent'[q][b] = sent[q][b],
           reservations'[r][a].state \in {"transport_started", "completed"}, sent'[r][a] <= 1,
           OwnedRow(d)'
    PROVE  HeldInv'
<1>1. reservations[r][a].state # "none"
  BY DEF HeldInv, OwnersRecorded, OwnedRow
<1>2. \A q \in Requests : reservations'[q][2].state # "none" => reservations[q][2].state # "none"
  BY <1>1 DEF Attempts
<1>3. \A q \in Requests : Retried(q) => sent'[q][1] = sent[q][1]
  <2>1. Retried(r) => a = 2
    BY DEF HeldInv, FirstClosed
  <2>2. QED
    BY <2>1 DEF Attempts
<1>4. CarriedOn /\ OwnersDiffer' /\ FirstClosed' /\ AnswerClosed' /\ RetriesGranted'
  BY <1>2, <1>3, OwnerGoesOn
<1>5. SentOnce'
  BY DEF HeldInv, SentOnce
<1>6. ASSUME NEW c \in Dispatchers, c # d, Owner(c)'
      PROVE  OwnedRow(c)'
  <2>1. Owner(c) /\ calls'[c] = calls[c] /\ Attempt(c)' = Attempt(c)
    BY <1>4, <1>6 DEF CarriedOn, Kept, Moved, Attempt
  <2>2. <<calls[c].request, Attempt(c)>> # <<r, a>>
    BY <1>6, <2>1 DEF HeldInv, OwnersDiffer
  <2>3. calls[c].request \in Requests /\ Attempt(c) \in Attempts
    BY AttemptTyped
  <2>4. OwnedRow(c)
    BY <2>1 DEF HeldInv, OwnersRecorded
  <2>5. QED
    BY <2>1, <2>2, <2>3, <2>4 DEF OwnedRow
<1>7. AnswerSent'
  <2>1. results[r] = a => sent'[r][a] = 1
    <3>1. CASE Unanswered(d)
      BY <3>1 DEF HeldInv, AnswerClosed
    <3>2. CASE ~Unanswered(d)
      <4>1. calls'[d].step \in {"record", "complete"}
        BY <3>2 DEF Unanswered
      <4>2. QED
        BY <4>1 DEF OwnedRow, Kept, Attempt
    <3>3. QED
      BY <3>1, <3>2
  <2>2. QED
    BY <2>1 DEF HeldInv, AnswerSent
<1>8. QED
  BY <1>4, <1>5, <1>6, <1>7 DEF HeldInv, OwnersRecorded

\* mark_transport_started and record_success
LEMMA StateHeld ==
    ASSUME TypeOK, TypeOK', HeldInv, NEW d \in Dispatchers,
           NEW state \in {"transport_started", "completed"},
           \/ calls[d].step = "credential" /\ Goto(d, "post") /\ state = "transport_started"
           \/ calls[d].step = "record" /\ Goto(d, "complete") /\ state = "completed",
           UNCHANGED <<files, results, journal, sent>>
    PROVE  reservations' = [reservations EXCEPT ![calls[d].request][Attempt(d)].state = state]
                => HeldInv'
<1>1. PICK r \in Requests, a \in Attempts : r = calls[d].request /\ a = Attempt(d)
  BY AttemptTyped
<1>2. ASSUME reservations'[r][a].state = state,
             \A q \in Requests, b \in Attempts :
                <<q, b>> # <<r, a>> => reservations'[q][b] = reservations[q][b]
      PROVE  HeldInv'
  <2>1. /\ Kept(d)
        /\ \/ calls[d].step = "credential" /\ calls'[d].step = "post" /\ state = "transport_started"
           \/ calls[d].step = "record" /\ calls'[d].step = "complete" /\ state = "completed"
    BY GotoReplaces DEF Steps
  <2>2. Owner(d) /\ Owner(d)' /\ (Unanswered(d)' => Unanswered(d))
    BY <2>1 DEF Owner, Unanswered
  <2>3. /\ calls[d].step = "credential" => sent[r][a] = 0
        /\ calls[d].step = "record" => sent[r][a] = 1
        /\ sent[r][a] <= 1
    BY <1>1, <2>2 DEF HeldInv, OwnersRecorded, OwnedRow, SentOnce
  <2>4. OwnedRow(d)'
    BY <1>1, <1>2, <2>1, <2>3 DEF OwnedRow, Attempt, Kept
  <2>5. QED
    BY <1>1, <1>2, <2>1, <2>2, <2>3, <2>4, RowAdvances
<1>3. reservations' = [reservations EXCEPT ![r][a].state = state] =>
        /\ reservations'[r][a].state = state
        /\ \A q \in Requests, b \in Attempts :
                <<q, b>> # <<r, a>> => reservations'[q][b] = reservations[q][b]
  <2>1. CASE state = "transport_started"
    BY <2>1, StateSet, Zenon
  <2>2. CASE state = "completed"
    BY <2>2, StateSet, Zenon
  <2>3. QED
    BY <2>1, <2>2, Zenon
<1>4. QED
  BY <1>1, <1>2, <1>3, Zenon

LEMMA PostHeld ==
    ASSUME TypeOK, TypeOK', HeldInv, NEW d \in Dispatchers, Post(d)
    PROVE  HeldInv'
<1>1. PICK r \in Requests, a \in Attempts : r = calls[d].request /\ a = Attempt(d)
  BY AttemptTyped
<1>2. sent' = [sent EXCEPT ![r][a] = @ + 1]
  BY <1>1 DEF Post
<1>3. /\ sent'[r][a] = sent[r][a] + 1
      /\ \A q \in Requests, b \in Attempts : <<q, b>> # <<r, a>> => sent'[q][b] = sent[q][b]
  BY <1>2 DEF TypeOK
<1>4. Kept(d) /\ calls'[d].step = "wait" /\ calls[d].step = "post"
  BY GotoReplaces DEF Steps, Post
<1>5. Owner(d) /\ Owner(d)' /\ Unanswered(d)
  BY <1>4 DEF Owner, Unanswered
<1>6. reservations[r][a].state = "transport_started" /\ sent[r][a] = 0
  BY <1>1, <1>4, <1>5 DEF HeldInv, OwnersRecorded, OwnedRow
<1>7. UNCHANGED <<files, reservations, results, journal>>
  BY DEF Post
<1>8. OwnedRow(d)'
  BY <1>1, <1>3, <1>4, <1>6, <1>7 DEF OwnedRow, Attempt, Kept
<1>9. QED
  BY <1>1, <1>3, <1>4, <1>5, <1>6, <1>7, <1>8, RowAdvances

\* admit inserts a row that nobody holds; a second attempt has the grant.
LEMMA AdmitHeld ==
    ASSUME TypeOK, TypeOK', HeldInv, NEW d \in Dispatchers, calls[d].step = "admit",
           Goto(d, "credential"), UNCHANGED <<files, results, journal, sent>>,
           NEW r \in Requests, NEW a \in Attempts, r = calls[d].request, a = Attempt(d),
           reservations[r][a].state = "none", reservations'[r][a].state = "reserved",
           \A q \in Requests, b \in Attempts :
                <<q, b>> # <<r, a>> => reservations'[q][b] = reservations[q][b]
    PROVE  HeldInv'
<1>1. Kept(d) /\ calls'[d].step = "credential"
  BY GotoReplaces DEF Steps
<1>2. /\ \A c \in Dispatchers : c # d =>
            /\ calls'[c] = calls[c] /\ Attempt(c)' = Attempt(c)
            /\ Owner(c)' = Owner(c) /\ Unanswered(c)' = Unanswered(c)
      /\ Attempt(d)' = a /\ calls'[d].request = r
  BY <1>1 DEF Kept, Moved, Owner, Unanswered, Attempt
<1>3. \A q \in Requests : Retried(q)' <=> Retried(q)
  BY DEF Retried
<1>4. \A c \in Dispatchers : Owner(c) => <<calls[c].request, Attempt(c)>> # <<r, a>>
  BY DEF HeldInv, OwnersRecorded, OwnedRow
<1>5. Retried(r) <=> a = 2
  <2>1. a = 2 => Retried(r)
    BY AttemptTyped DEF HeldInv, RetriesGranted
  <2>2. sent[r][a] = 0
    BY DEF HeldInv, SentOnce
  <2>3. Retried(r) => a # 1
    BY <2>2 DEF HeldInv, FirstClosed
  <2>4. QED
    BY <2>1, <2>3 DEF Attempts
<1>6. OwnersDiffer'
  <2>1. ASSUME NEW b \in Dispatchers, NEW c \in Dispatchers, b # c, Owner(b)', Owner(c)',
               calls'[b].request = calls'[c].request, Attempt(b)' = Attempt(c)'
        PROVE  FALSE
    <3>1. CASE b # d /\ c # d
      BY <1>2, <2>1, <3>1 DEF HeldInv, OwnersDiffer
    <3>2. CASE b = d
      BY <1>2, <1>4, <2>1, <3>2
    <3>3. CASE c = d
      BY <1>2, <1>4, <2>1, <3>3
    <3>4. QED
      BY <3>1, <3>2, <3>3
  <2>2. QED
    BY <2>1 DEF OwnersDiffer
<1>7. OwnersRecorded'
  <2>1. OwnedRow(d)'
    BY <1>1, <1>2 DEF OwnedRow, HeldInv, SentOnce
  <2>2. ASSUME NEW c \in Dispatchers, c # d, Owner(c)'
        PROVE  OwnedRow(c)'
    <3>1. Owner(c) /\ calls'[c] = calls[c] /\ Attempt(c)' = Attempt(c) /\ OwnedRow(c)
      BY <1>2, <2>2 DEF HeldInv, OwnersRecorded
    <3>2. calls[c].request \in Requests /\ Attempt(c) \in Attempts
      BY AttemptTyped
    <3>3. QED
      BY <1>4, <3>1, <3>2 DEF OwnedRow
  <2>3. QED
    BY <2>1, <2>2 DEF OwnersRecorded
<1>8. SentOnce'
  BY DEF HeldInv, SentOnce
<1>9. RetriesGranted'
  <2>1. \A q \in Requests :
            reservations'[q][2].state # "none" => reservations[q][2].state # "none" \/ Retried(q)
    BY <1>5 DEF Attempts
  <2>2. \/ /\ calls'[d].envelope.dispatch_attempts # 1
           /\ calls'[d].step \notin {"restore", "look", "open", "compare", "rewrite", "publish"}
        \/ Retried(calls[d].request)'
    BY <1>1, <1>3, EnvelopeGranted
  <2>3. QED
    BY <1>2, <1>3, <2>1, <2>2, GrantsStay DEF HeldInv, files
<1>10. FirstClosed'
  <2>1. ASSUME NEW q \in Requests, Retried(q)'
        PROVE  /\ sent'[q][1] = 1 /\ results'[q] # 1
               /\ \A c \in Dispatchers : Owner(c)' /\ calls'[c].request = q => Attempt(c)' = 2
    BY <1>2, <1>3, <1>5, <2>1 DEF HeldInv, FirstClosed
  <2>2. QED
    BY <2>1 DEF FirstClosed
<1>11. AnswerClosed'
  <2>1. results[r] # a
    BY DEF HeldInv, AnswerSent, SentOnce
  <2>2. QED
    BY <1>2, <2>1 DEF HeldInv, AnswerClosed
<1>12. AnswerSent'
  BY DEF HeldInv, AnswerSent
<1>13. QED
  BY <1>6, <1>7, <1>8, <1>9, <1>10, <1>11, <1>12 DEF HeldInv

\* The provider answers, or fails in a way that may be tried again.
LEMMA TransportHeld ==
    ASSUME TypeOK, TypeOK', HeldInv, NEW d \in Dispatchers, calls[d].step = "wait",
           Goto(d, "persist") \/ Fail(d, "retryable"),
           UNCHANGED <<files, reservations, results, journal, sent>>
    PROVE  HeldInv'
<1>1. /\ Kept(d)
      /\ calls'[d].step = "persist" \/ (calls'[d].step = "failed" /\ calls'[d].failure = "retryable")
  BY GotoReplaces, FailReplaces DEF Steps, FailureCodes, RetryableFailures
<1>2. Owner(d) /\ Owner(d)' /\ Unanswered(d)
  BY <1>1 DEF Owner, Unanswered
<1>3. CarriedOn /\ OwnersDiffer' /\ FirstClosed' /\ AnswerClosed' /\ RetriesGranted'
  BY <1>1, <1>2, OwnerGoesOn
<1>4. \A c \in Dispatchers : calls'[c] = calls[c] \/ c = d
  BY <1>1 DEF Kept, Moved
<1>5. OwnersRecorded' /\ SentOnce'
  BY <1>1, <1>3, <1>4, LedgersStay DEF HeldInv
<1>6. AnswerSent'
  BY DEF HeldInv, AnswerSent
<1>7. QED
  BY <1>3, <1>5, <1>6 DEF HeldInv

\* persist_validated publishes the answer of the attempt.
LEMMA PersistHeld ==
    ASSUME TypeOK, TypeOK', HeldInv, NEW d \in Dispatchers, calls[d].step = "persist",
           Goto(d, "record"), UNCHANGED <<files, reservations, journal, sent>>,
           NEW r \in Requests, NEW a \in Attempts, r = calls[d].request, a = Attempt(d),
           results' = [results EXCEPT ![r] = a]
    PROVE  HeldInv'
<1>1. Kept(d) /\ calls'[d].step = "record"
  BY GotoReplaces DEF Steps
<1>2. Owner(d) /\ Owner(d)' /\ ~Unanswered(d)' /\ Unanswered(d) /\ sent[r][a] = 1
  BY <1>1 DEF Owner, Unanswered, HeldInv, OwnersRecorded, OwnedRow
<1>3. \A c \in Dispatchers : c # d =>
        /\ calls'[c] = calls[c] /\ Attempt(c)' = Attempt(c)
        /\ Owner(c)' = Owner(c) /\ Unanswered(c)' = Unanswered(c)
  BY <1>1 DEF Kept, Moved, Owner, Unanswered, Attempt
<1>4. \A q \in Requests : Retried(q)' <=> Retried(q)
  BY DEF Retried
<1>5. CarriedOn
  BY <1>1, <1>2, <1>3 DEF CarriedOn, Kept
<1>6. results'[r] = a /\ \A q \in Requests : q # r => results'[q] = results[q]
  BY DEF TypeOK
<1>7. OwnersDiffer'
  BY <1>5 DEF HeldInv, OwnersDiffer, CarriedOn, Attempt
<1>8. OwnersRecorded' /\ SentOnce'
  <2>1. \A c \in Dispatchers : calls'[c] = calls[c] \/ c = d
    BY <1>1 DEF Kept, Moved
  <2>2. QED
    BY <1>1, <1>5, <2>1, LedgersStay DEF HeldInv
<1>9. RetriesGranted'
  <2>1. a = 2 => Retried(r)
    BY AttemptTyped DEF HeldInv, RetriesGranted
  <2>2. \A q \in Requests : results'[q] = 2 => results[q] = 2 \/ Retried(q)
    BY <1>6, <2>1
  <2>3. \/ /\ calls'[d].envelope.dispatch_attempts # 1
           /\ calls'[d].step \notin {"restore", "look", "open", "compare", "rewrite", "publish"}
        \/ Retried(calls[d].request)'
    BY <1>1, <1>4, EnvelopeGranted
  <2>4. QED
    BY <1>3, <1>4, <2>2, <2>3, GrantsStay DEF HeldInv, files
<1>10. FirstClosed'
  <2>1. Retried(r) => a = 2
    BY <1>2 DEF HeldInv, FirstClosed
  <2>2. QED
    BY <1>4, <1>5, <1>6, <2>1 DEF HeldInv, FirstClosed, CarriedOn, Attempt
<1>11. AnswerClosed'
  <2>1. ASSUME NEW c \in Dispatchers, Unanswered(c)'
        PROVE  results'[calls'[c].request] # Attempt(c)'
    <3>1. c # d /\ Unanswered(c) /\ calls'[c] = calls[c] /\ Attempt(c)' = Attempt(c)
      BY <1>2, <1>3, <2>1
    <3>2. calls[c].request = r => Attempt(c) # a
      BY <1>2, <3>1 DEF HeldInv, OwnersDiffer, Unanswered
    <3>3. calls[c].request \in Requests
      BY AttemptTyped
    <3>4. QED
      BY <1>6, <3>1, <3>2, <3>3 DEF HeldInv, AnswerClosed
  <2>2. QED
    BY <2>1 DEF AnswerClosed
<1>12. AnswerSent'
  BY <1>2, <1>6 DEF HeldInv, AnswerSent
<1>13. QED
  BY <1>7, <1>8, <1>9, <1>10, <1>11, <1>12 DEF HeldInv

\* A retryable failure is journalled: of the first attempt, it is the grant.
LEMMA RetryHeld ==
    ASSUME TypeOK, TypeOK', HeldInv, NEW d \in Dispatchers,
           calls[d].step = "failed", calls[d].failure = "retryable",
           Append(d, "failed_retryable"),
           \/ Goto(d, "restore") /\ calls[d].envelope.dispatch_attempts = 0
           \/ Goto(d, "destroy") /\ calls[d].envelope.dispatch_attempts # 0,
           UNCHANGED <<files, reservations, results, sent>>
    PROVE  HeldInv'
<1>1. PICK r \in Requests, a \in Attempts : r = calls[d].request /\ a = Attempt(d)
  BY AttemptTyped
<1>2. /\ Kept(d)
      /\ \/ calls'[d].step = "restore" /\ a = 1
         \/ calls'[d].step = "destroy" /\ a = 2
  BY <1>1, GotoReplaces, AttemptTyped DEF Steps, Attempts
<1>3. journal' = [journal EXCEPT ![r] = @ \cup {<<"failed_retryable", a>>}]
  BY <1>1 DEF Append
<1>4. \A q \in Requests : Retried(q)' <=> Retried(q) \/ (q = r /\ a = 1)
  <2>1. ASSUME NEW q \in Requests, q # r
        PROVE  journal'[q] = journal[q]
    BY <1>3, <2>1 DEF TypeOK
  <2>2. journal'[r] = journal[r] \cup {<<"failed_retryable", a>>}
    BY <1>3 DEF TypeOK
  <2>3. <<"failed_retryable", 1>> = <<"failed_retryable", a>> <=> a = 1
    OBVIOUS
  <2>4. QED
    BY <2>1, <2>2, <2>3 DEF Retried
<1>5. Owner(d) /\ ~Owner(d)' /\ Unanswered(d) /\ sent[r][a] = 1 /\ results[r] # a
  BY <1>1, <1>2 DEF Owner, Unanswered, HeldInv, OwnersRecorded, OwnedRow, AnswerClosed
<1>6. \A c \in Dispatchers : c # d =>
        /\ calls'[c] = calls[c] /\ Attempt(c)' = Attempt(c)
        /\ Owner(c)' = Owner(c) /\ Unanswered(c)' = Unanswered(c)
  BY <1>2 DEF Kept, Moved, Owner, Unanswered, Attempt
<1>7. CarriedOn
  BY <1>5, <1>6 DEF CarriedOn
<1>8. OwnersDiffer'
  BY <1>7 DEF HeldInv, OwnersDiffer, CarriedOn, Attempt
<1>9. OwnersRecorded' /\ SentOnce'
  BY <1>5, <1>6, <1>7, LedgersStay DEF HeldInv
<1>10. RetriesGranted'
  <2>1. a = 2 => Retried(r)
    BY <1>1, AttemptTyped DEF HeldInv, RetriesGranted
  <2>2. Retried(calls[d].request)'
    BY <1>1, <1>2, <1>4, <2>1 DEF Attempts, Kept
  <2>3. \A q \in Requests : Retried(q) => Retried(q)'
    BY <1>4
  <2>4. QED
    BY <1>6, <2>2, <2>3, GrantsStay DEF HeldInv, files
<1>11. FirstClosed'
  <2>1. ASSUME NEW q \in Requests, Retried(q)'
        PROVE  /\ sent'[q][1] = 1 /\ results'[q] # 1
               /\ \A c \in Dispatchers : Owner(c)' /\ calls'[c].request = q => Attempt(c)' = 2
    <3>1. CASE Retried(q)
      BY <1>5, <1>6, <3>1 DEF HeldInv, FirstClosed
    <3>2. CASE q = r /\ a = 1
      <4>1. ASSUME NEW c \in Dispatchers, Owner(c)', calls'[c].request = q
            PROVE  Attempt(c)' = 2
        <5>1. c # d /\ Owner(c) /\ calls[c].request = r /\ Attempt(c)' = Attempt(c)
          BY <1>5, <1>6, <3>2, <4>1
        <5>2. Attempt(c) # 1 /\ Attempt(c) \in Attempts
          BY <1>1, <1>5, <3>2, <5>1, AttemptTyped DEF HeldInv, OwnersDiffer
        <5>3. QED
          BY <5>1, <5>2 DEF Attempts
      <4>2. QED
        BY <1>5, <3>2, <4>1
    <3>3. QED
      BY <1>4, <2>1, <3>1, <3>2
  <2>2. QED
    BY <2>1 DEF FirstClosed
<1>12. AnswerClosed'
  BY <1>5, <1>6 DEF HeldInv, AnswerClosed, Unanswered
<1>13. AnswerSent'
  BY DEF HeldInv, AnswerSent
<1>14. QED
  BY <1>8, <1>9, <1>10, <1>11, <1>12, <1>13 DEF HeldInv

LEMMA GenerateHeld ==
    ASSUME TypeOK, TypeOK', HeldInv, NEW d \in Dispatchers,
           \/ Admit(d) \/ Post(d) \/ RecordSuccess(d) \/ AuditCompleted(d) \/ AuditFailed(d)
           \/ \E verdict \in BOOLEAN :
                MarkStarted(d, verdict) \/ TransportReturns(d, verdict) \/ PersistResult(d, verdict)
           \/ \E code \in {"retryable", "rejected"} : TransportFails(d, code)
    PROVE  HeldInv'
<1>0. PICK r \in Requests, a \in Attempts : r = calls[d].request /\ a = Attempt(d)
  BY AttemptTyped
<1>a. \A code \in {"rejected", "invalid_response", "invalid_authority", "budget_exceeded",
                   "missing_credential", "result_persistence"} :
        code \in FailureCodes \ {"retryable"}
  BY DEF FailureCodes, RetryableFailures
<1>1. CASE Admit(d)
  <2>1. UNCHANGED <<files, results, journal, sent>> /\ calls[d].step = "admit"
    BY <1>1, Zenon DEF Admit
  <2>2. \/ /\ Fail(d, "invalid_authority") \/ Fail(d, "budget_exceeded")
           /\ UNCHANGED reservations
        \/ /\ Goto(d, "credential") /\ reservations[r][a].state = "none"
           /\ reservations' = [reservations EXCEPT ![r][a] = [state |-> "reserved", day |-> calls[d].now]]
    BY <1>0, <1>1, Zenon DEF Admit
  <2>3. CASE Goto(d, "credential") /\ reservations[r][a].state = "none"
             /\ reservations' = [reservations EXCEPT ![r][a] = [state |-> "reserved", day |-> calls[d].now]]
    <3>1. [state |-> "reserved", day |-> calls[d].now] \in Reservation
      BY AttemptTyped DEF Call, Reservation
    <3>2. PICK row \in Reservation :
            row.state = "reserved" /\ reservations' = [reservations EXCEPT ![r][a] = row]
      <4>1. PICK row \in Reservation : row = [state |-> "reserved", day |-> calls[d].now]
        BY <3>1, Zenon
      <4>2. row.state = "reserved"
        BY <4>1
      <4>3. reservations' = [reservations EXCEPT ![r][a] = row]
        BY <2>3, <4>1, Zenon
      <4>4. QED
        BY <4>2, <4>3, Zenon
    <3>3. /\ reservations'[r][a].state = "reserved"
          /\ \A q \in Requests, b \in Attempts :
                <<q, b>> # <<r, a>> => reservations'[q][b] = reservations[q][b]
      BY <3>2 DEF TypeOK
    <3>4. QED
      BY <1>0, <2>1, <2>3, <3>3, AdmitHeld
  <2>4. CASE (Fail(d, "invalid_authority") \/ Fail(d, "budget_exceeded")) /\ UNCHANGED reservations
    BY <1>a, <2>1, <2>4, FailHeld
  <2>5. QED
    BY <2>2, <2>3, <2>4
<1>2. CASE Post(d)
  BY <1>2, PostHeld
<1>3. CASE RecordSuccess(d)
  BY <1>3, StateHeld, Zenon DEF RecordSuccess
<1>4. CASE AuditCompleted(d)
  BY <1>4, CloseHeld DEF AuditCompleted, Entries
<1>5. CASE AuditFailed(d)
  <2>1. CASE calls[d].failure = "retryable"
    BY <1>5, <2>1, RetryHeld DEF AuditFailed, Restorable, RetryableFailures
  <2>2. CASE calls[d].failure # "retryable"
    BY <1>5, <2>2, CloseHeld DEF AuditFailed, Restorable, RetryableFailures, Entries
  <2>3. QED
    BY <2>1, <2>2
<1>6. ASSUME NEW verdict \in BOOLEAN, MarkStarted(d, verdict)
      PROVE  HeldInv'
  <2>1. UNCHANGED <<files, results, journal, sent>> /\ calls[d].step = "credential"
    BY <1>6, Zenon DEF MarkStarted
  <2>2. CASE verdict
    BY <1>6, <2>1, <2>2, StateHeld, Zenon DEF MarkStarted
  <2>3. CASE ~verdict
    <3>1. Fail(d, "missing_credential") /\ UNCHANGED reservations
      BY <1>6, <2>3, Zenon DEF MarkStarted
    <3>2. QED
      BY <1>a, <2>1, <3>1, FailHeld
  <2>4. QED
    BY <2>2, <2>3
<1>7. ASSUME NEW verdict \in BOOLEAN, TransportReturns(d, verdict)
      PROVE  HeldInv'
  BY <1>7, <1>a, TransportHeld, FailHeld DEF TransportReturns, ledgers
<1>8. ASSUME NEW verdict \in BOOLEAN, PersistResult(d, verdict)
      PROVE  HeldInv'
  <2>1. UNCHANGED <<files, reservations, journal, sent>> /\ calls[d].step = "persist"
    BY <1>8 DEF PersistResult
  <2>2. \/ Goto(d, "record") /\ results' = [results EXCEPT ![r] = a]
        \/ Fail(d, "result_persistence") /\ UNCHANGED results
    BY <1>0, <1>8 DEF PersistResult
  <2>3. CASE Goto(d, "record") /\ results' = [results EXCEPT ![r] = a]
    BY <1>0, <2>1, <2>3, PersistHeld
  <2>4. CASE Fail(d, "result_persistence") /\ UNCHANGED results
    BY <1>a, <2>1, <2>4, FailHeld
  <2>5. QED
    BY <2>2, <2>3, <2>4
<1>9. ASSUME NEW code \in {"retryable", "rejected"}, TransportFails(d, code)
      PROVE  HeldInv'
  BY <1>9, <1>a, TransportHeld, FailHeld DEF TransportFails, ledgers
<1>10. QED
  BY <1>1, <1>2, <1>3, <1>4, <1>5, <1>6, <1>7, <1>8, <1>9

LEMMA HeldStep == TypeOK /\ TypeOK' /\ HeldInv /\ [Next]_vars => HeldInv'
<1> SUFFICES ASSUME TypeOK, TypeOK', HeldInv, [Next]_vars
             PROVE  HeldInv'
  OBVIOUS
<1>1. ASSUME NEW r \in Requests, OwnerStep(r)
      PROVE  HeldInv'
  BY <1>1, OwnerHeld
<1>2. ASSUME NEW d \in Dispatchers,
             NEW r \in Requests, NEW approval \in 1 .. MaxPreflights, Begin(d, r, approval)
      PROVE  HeldInv'
  BY <1>2, ClaimHeld
<1>3. ASSUME NEW d \in Dispatchers, DispatcherStep(d) \/ Crash(d)
      PROVE  HeldInv'
  BY <1>3, ClaimHeld, GenerateHeld, SettleHeld, Zenon DEF DispatcherStep
<1>4. CASE NextDay \/ UNCHANGED vars
  <2>1. UNCHANGED <<files, calls, reservations, results, journal, sent>>
    BY <1>4 DEF NextDay, vars, ledgers
  <2>2. \A q \in Requests : Retried(q)' <=> Retried(q)
    BY <2>1 DEF Retried
  <2>3. RetriesGranted'
    BY <2>1, <2>2, GrantsStay DEF HeldInv, files
  <2>4. QED
    BY <2>1, <2>2, <2>3, QuietHeld
<1>5. QED
  BY <1>1, <1>2, <1>3, <1>4, Zenon DEF Next

LEMMA HeldInit == Init => HeldInv
<1> SUFFICES ASSUME Init PROVE HeldInv
  OBVIOUS
<1>1. \A d \in Dispatchers : calls[d].step = "idle" /\ calls[d].envelope.dispatch_attempts = 0
  BY EmptyFields DEF Init
<1>2. \A d \in Dispatchers : ~Owner(d)
  BY <1>1 DEF Owner
<1>3. \A r \in Requests : active[r] = NoEnvelope /\ claimed[r] = NoEnvelope /\ results[r] = 0 /\ ~Retried(r)
  BY DEF Init, Retried
<1>4. \A r \in Requests, a \in Attempts : sent[r][a] = 0 /\ reservations[r][a].state = "none"
  BY DEF Init
<1>5. RetriesGranted
  BY <1>1, <1>3, <1>4, EmptyFields DEF RetriesGranted, Attempts
<1>6. QED
  BY <1>2, <1>3, <1>4, <1>5
  DEF HeldInv, OwnersDiffer, OwnersRecorded, SentOnce, FirstClosed, AnswerClosed, AnswerSent,
      Unanswered, Attempts

(***************************************************************************)
(* What a day is charged: only admit adds to it, one row at a time and     *)
(* within the counters it has read in the same transaction.                *)
(***************************************************************************)
LEMMA ChargedStays ==
    ASSUME TypeOK, NEW day,
           \A q \in Requests, b \in Attempts :
                /\ reservations'[q][b].state = "none" <=> reservations[q][b].state = "none"
                /\ reservations'[q][b].day = reservations[q][b].day
    PROVE  DayWithin(day) => DayWithin(day)'
<1>1. Charged(day)' = Charged(day)
  BY DEF Charged
<1>2. Retries(day)' = Retries(day)
  BY <1>1 DEF Retries
<1>3. QED
  BY <1>1, <1>2, Zenon DEF DayWithin

LEMMA ChargedGrows ==
    ASSUME TypeOK, NEW r \in Requests, NEW a \in Attempts, NEW now \in Days, NEW day \in Days,
           reservations'[r][a].state = "reserved", reservations'[r][a].day = now,
           reservations[r][a].state = "none",
           \A q \in Requests, b \in Attempts :
                <<q, b>> # <<r, a>> => reservations'[q][b] = reservations[q][b],
           WithinLimits(now, a), DayWithin(day)
    PROVE  DayWithin(day)'
<1>1. CASE day # now
  <2>1. Charged(day)' = Charged(day)
    BY <1>1 DEF Charged
  <2>2. Retries(day)' = Retries(day)
    BY <2>1 DEF Retries
  <2>3. QED
    BY <2>1, <2>2, Zenon DEF DayWithin
<1>2. CASE day = now
  <2>1. Charged(day)' = Charged(day) \cup {<<r, a>>}
    <3>1. ASSUME NEW x \in Requests \X Attempts, x # <<r, a>>
          PROVE  x \in Charged(day)' <=> x \in Charged(day)
      <4>1. x[1] \in Requests /\ x[2] \in Attempts /\ <<x[1], x[2]>> # <<r, a>>
        BY <3>1
      <4>2. QED
        BY <4>1 DEF Charged
    <3>2. <<r, a>> \in Charged(day)'
      BY <1>2 DEF Charged
    <3>3. Charged(day) \subseteq Requests \X Attempts /\ Charged(day)' \subseteq Requests \X Attempts
      BY DEF Charged
    <3>4. QED
      BY <3>1, <3>2, <3>3
  <2>2. /\ IsFiniteSet(Charged(day)') /\ Cardinality(Charged(day)) \in Nat
        /\ Cardinality(Charged(day)') <= Cardinality(Charged(day)) + 1
    <3>1. IsFiniteSet(Charged(day)) /\ Cardinality(Charged(day)) \in Nat
      BY FS_CardinalityType DEF DayWithin
    <3>2. /\ IsFiniteSet(Charged(day) \cup {<<r, a>>})
          /\ \/ Cardinality(Charged(day) \cup {<<r, a>>}) = Cardinality(Charged(day))
             \/ Cardinality(Charged(day) \cup {<<r, a>>}) = Cardinality(Charged(day)) + 1
      BY <3>1, FS_AddElement
    <3>3. QED
      BY <2>1, <3>1, <3>2
  <2>3. Cardinality(Charged(day)') <= MaxRequests
    <3>1. Cardinality(Charged(day)') \in Nat
      BY <2>2, FS_CardinalityType
    <3>2. Cardinality(Charged(day)) < MaxRequests
      BY <1>2 DEF WithinLimits
    <3>3. QED
      BY <2>2, <3>1, <3>2, LimitsAssumption
  <2>4. IsFiniteSet(Retries(day)) /\ Cardinality(Retries(day)) \in Nat
    <3>1. Retries(day) \subseteq Charged(day)
      BY DEF Retries
    <3>2. QED
      BY <3>1, FS_Subset, FS_CardinalityType DEF DayWithin
  <2>5. Cardinality(Retries(day)') <= MaxRetries
    <3>1. CASE a = 1
      <4>1. Retries(day)' = Retries(day)
        BY <2>1, <3>1 DEF Retries
      <4>2. QED
        BY <4>1 DEF DayWithin
    <3>2. CASE a = 2
      <4>1. Retries(day)' = Retries(day) \cup {<<r, a>>}
        <5>1. <<r, a>>[2] = 2
          BY <3>2
        <5>2. QED
          BY <2>1, <5>1, Zenon DEF Retries
      <4>2. Cardinality(Retries(day)') <= Cardinality(Retries(day)) + 1
        <5>1. \/ Cardinality(Retries(day) \cup {<<r, a>>}) = Cardinality(Retries(day))
              \/ Cardinality(Retries(day) \cup {<<r, a>>}) = Cardinality(Retries(day)) + 1
          BY <2>4, FS_AddElement
        <5>2. QED
          BY <2>4, <4>1, <5>1
      <4>3. Cardinality(Retries(day)') \in Nat
        BY <2>4, <4>1, FS_AddElement, FS_CardinalityType
      <4>4. QED
        BY <1>2, <2>4, <3>2, <4>2, <4>3, LimitsAssumption DEF WithinLimits
    <3>3. QED
      BY <3>1, <3>2 DEF Attempts
  <2>6. QED
    BY <2>2, <2>3, <2>5 DEF DayWithin
<1>3. QED
  BY <1>1, <1>2

DaysWithin == \A day \in Days : DayWithin(day)

LEMMA DaysStep == TypeOK /\ TypeOK' /\ HeldInv /\ DaysWithin /\ [Next]_vars => DaysWithin'
<1> SUFFICES ASSUME TypeOK, TypeOK', HeldInv, DaysWithin, [Next]_vars, NEW day \in Days
             PROVE  DayWithin(day)'
  BY DEF DaysWithin
<1>0. DayWithin(day)
  BY DEF DaysWithin
<1>1. CASE UNCHANGED reservations
  BY <1>0, <1>1, ChargedStays
<1>2. ASSUME NEW d \in Dispatchers, Admit(d), reservations' # reservations
      PROVE  DayWithin(day)'
  <2>1. PICK r \in Requests, a \in Attempts : r = calls[d].request /\ a = Attempt(d)
    BY AttemptTyped
  <2>2. calls[d].now \in Days
    BY AttemptTyped DEF Call
  <2>3. /\ reservations[r][a].state = "none" /\ WithinLimits(calls[d].now, a)
        /\ reservations' = [reservations EXCEPT ![r][a] = [state |-> "reserved", day |-> calls[d].now]]
    BY <1>2, <2>1, Zenon DEF Admit
  <2>4. [state |-> "reserved", day |-> calls[d].now] \in Reservation
    BY <2>2 DEF Reservation
  <2>5. PICK row \in Reservation : row = [state |-> "reserved", day |-> calls[d].now]
    BY <2>4, Zenon
  <2>6. row.state = "reserved" /\ row.day = calls[d].now
    BY <2>5
  <2>7. reservations' = [reservations EXCEPT ![r][a] = row]
    BY <2>3, <2>5, Zenon
  <2>8. /\ reservations'[r][a] = row
        /\ \A q \in Requests, b \in Attempts :
                <<q, b>> # <<r, a>> => reservations'[q][b] = reservations[q][b]
    BY <2>7 DEF TypeOK
  <2>9. QED
    BY <1>0, <2>2, <2>3, <2>6, <2>8, ChargedGrows
<1>3. ASSUME NEW d \in Dispatchers, Owner(d), NEW state \in {"transport_started", "completed"},
             calls[d].step \in {"credential", "record"}
      PROVE  reservations' = [reservations EXCEPT ![calls[d].request][Attempt(d)].state = state]
                => DayWithin(day)'
  <2>1. PICK r \in Requests, a \in Attempts : r = calls[d].request /\ a = Attempt(d)
    BY AttemptTyped
  <2>2. reservations[r][a].state # "none"
    BY <1>3, <2>1 DEF HeldInv, OwnersRecorded, OwnedRow
  <2>3. ASSUME reservations'[r][a].state = state,
               reservations'[r][a].day = reservations[r][a].day,
               \A q \in Requests, b \in Attempts :
                    <<q, b>> # <<r, a>> => reservations'[q][b] = reservations[q][b]
        PROVE  DayWithin(day)'
    <3>1. \A q \in Requests, b \in Attempts :
            /\ reservations'[q][b].state = "none" <=> reservations[q][b].state = "none"
            /\ reservations'[q][b].day = reservations[q][b].day
      BY <2>2, <2>3
    <3>2. QED
      BY <1>0, <3>1, ChargedStays
  <2>4. reservations' = [reservations EXCEPT ![r][a].state = state] =>
            /\ reservations'[r][a].state = state
            /\ reservations'[r][a].day = reservations[r][a].day
            /\ \A q \in Requests, b \in Attempts :
                    <<q, b>> # <<r, a>> => reservations'[q][b] = reservations[q][b]
    <3>1. CASE state = "transport_started"
      BY <3>1, StateSet, ZenonT(60)
    <3>2. CASE state = "completed"
      BY <3>2, StateSet, Zenon
    <3>3. QED
      BY <1>3, <3>1, <3>2, Zenon
  <2>5. QED
    BY <2>1, <2>3, <2>4, Zenon
<1>4. ASSUME NEW d \in Dispatchers, NEW verdict \in BOOLEAN, MarkStarted(d, verdict),
             reservations' # reservations
      PROVE  DayWithin(day)'
  <2>1. /\ calls[d].step = "credential"
        /\ reservations' = [reservations EXCEPT
                ![calls[d].request][Attempt(d)].state = "transport_started"]
    BY <1>4, Zenon DEF MarkStarted
  <2>2. calls[d].step = "credential" => Owner(d)
    BY DEF Owner
  <2>3. QED
    BY <1>3, <2>1, <2>2, Zenon
<1>5. ASSUME NEW d \in Dispatchers, RecordSuccess(d)
      PROVE  DayWithin(day)'
  <2>1. /\ calls[d].step = "record"
        /\ reservations' = [reservations EXCEPT ![calls[d].request][Attempt(d)].state = "completed"]
    BY <1>5, Zenon DEF RecordSuccess
  <2>2. calls[d].step = "record" => Owner(d)
    BY DEF Owner
  <2>3. QED
    BY <1>3, <2>1, <2>2, Zenon
<1>6. ASSUME NEW d \in Dispatchers, DispatcherStep(d), ~Admit(d), ~RecordSuccess(d),
             \A verdict \in BOOLEAN : ~MarkStarted(d, verdict)
      PROVE  UNCHANGED reservations
  BY <1>6 DEF DispatcherStep, Rename, ReadClaim, Post, AuditCompleted, AuditFailed, RestoreRetry, LookForActive, OpenClaimed,
        CompareInode, RewriteClaimed, Publish, AuditBlocked, DestroyClaim, CheckApproval,
        TransportReturns, PersistResult, TransportFails, ledgers
<1>7. ASSUME NEW d \in Dispatchers, DispatcherStep(d)
      PROVE  DayWithin(day)'
  BY <1>1, <1>2, <1>4, <1>5, <1>6, <1>7, Zenon
<1>8. ASSUME \A d \in Dispatchers : ~DispatcherStep(d)
      PROVE  UNCHANGED reservations
  BY <1>8 DEF Next, OwnerStep, Persist, Approve, Cancel, UnlinkClaimed, Reconcile, DiscardActive, WriteEnvelope, CreateEnvelope,
        Begin, Crash, NextDay, vars, ledgers
<1>9. QED
  BY <1>1, <1>7, <1>8, Zenon

(***************************************************************************)
(* The theorems                                                            *)
(***************************************************************************)
DispatchInv == TypeOK /\ EnvelopesNumbered /\ HeldInv /\ DaysWithin

LEMMA DispatchInductive == Spec => []DispatchInv
<1>1. Init => DispatchInv
  <2>1. ASSUME Init, NEW day \in Days
        PROVE  DayWithin(day)
    <3>1. Charged(day) = {}
      BY <2>1 DEF Init, Charged
    <3>2. Retries(day) = {}
      BY <3>1 DEF Retries
    <3>3. QED
      BY <3>1, <3>2, FS_EmptySet, LimitsAssumption DEF DayWithin
  <2>2. Init => EnvelopesNumbered
    BY EmptyFields DEF Init, EnvelopesNumbered
  <2>3. QED
    BY <2>1, <2>2, TypeInit, HeldInit DEF DispatchInv, DaysWithin
<1>2. DispatchInv /\ [Next]_vars => DispatchInv'
  BY TypeStep, HeldStep, DaysStep DEF DispatchInv
<1>3. QED
  BY <1>1, <1>2, PTL DEF Spec

\* Only one claimant reaches the transport boundary: for any number of dispatchers,
\* requests and envelopes, two dispatchers are never in the transport of one request,
\* also not one of them with the first attempt and the other with the second.
THEOREM Exclusive == Spec => []TransportExclusive
<1>1. DispatchInv => TransportExclusive
  <2> SUFFICES ASSUME DispatchInv, NEW c \in Dispatchers, NEW d \in Dispatchers,
                      InTransport(c), InTransport(d), calls[c].request = calls[d].request
               PROVE  c = d
    BY DEF TransportExclusive
  <2>1. TypeOK /\ HeldInv /\ Owner(c) /\ Owner(d)
    BY DEF DispatchInv, InTransport, Owner
  <2>2. /\ Attempt(c) \in Attempts /\ Attempt(d) \in Attempts /\ calls[c].request \in Requests
        /\ Attempt(c) = 2 => Retried(calls[c].request)
        /\ Attempt(d) = 2 => Retried(calls[d].request)
    BY <2>1, AttemptTyped DEF HeldInv, RetriesGranted
  <2>3. Attempt(c) = Attempt(d)
    BY <2>1, <2>2 DEF Attempts, HeldInv, FirstClosed
  <2>4. QED
    BY <2>1, <2>3 DEF HeldInv, OwnersDiffer
<1>2. QED
  BY <1>1, DispatchInductive, PTL

\* An attempt never reaches the provider twice, and the second attempt reaches it only
\* when the journal has the first one's retryable failure, crashes at every point of
\* generate_protected included.
THEOREM NoReplay == Spec => []NeverReplayed
<1>1. DispatchInv => NeverReplayed
  <2> SUFFICES ASSUME TypeOK, HeldInv PROVE NeverReplayed
    BY DEF DispatchInv
  <2>1. ASSUME NEW r \in Requests, sent[r][2] > 0
        PROVE  sent[r][1] = 1 /\ <<"failed_retryable", 1>> \in journal[r]
    <3>1. reservations[r][2].state # "none"
      BY <2>1 DEF HeldInv, SentOnce, Attempts
    <3>2. Retried(r)
      BY <3>1 DEF HeldInv, RetriesGranted
    <3>3. QED
      BY <3>2 DEF HeldInv, FirstClosed, Retried
  <2>2. QED
    BY <2>1 DEF NeverReplayed, HeldInv, SentOnce
<1>2. QED
  BY <1>1, DispatchInductive, PTL

\* What has reached the provider is charged, and no day is charged more requests or
\* retries than its limits, whatever the limits and however many processes admit.
THEOREM Charging == Spec => []SentIsCharged
<1>1. DispatchInv => SentIsCharged
  <2> SUFFICES ASSUME TypeOK, HeldInv, DaysWithin PROVE SentIsCharged
    BY DEF DispatchInv
  <2>1. ASSUME NEW r \in Requests, NEW a \in Attempts, sent[r][a] > 0
        PROVE  reservations[r][a].state \in {"transport_started", "completed"}
    <3>1. reservations[r][a].state \notin {"none", "reserved"}
      BY <2>1 DEF HeldInv, SentOnce
    <3>2. reservations[r][a] \in Reservation
      BY DEF TypeOK
    <3>3. QED
      BY <3>1, <3>2 DEF Reservation
  <2>2. QED
    BY <2>1 DEF SentIsCharged, DaysWithin, DayWithin
<1>2. QED
  BY <1>1, DispatchInductive, PTL

\* A request whose validated answer is stored is never sent again.
THEOREM AnswerStands == Spec => AnsweredFinal
<1>1. DispatchInv /\ [Next]_vars => [\A r \in Requests : results[r] # 0 => sent'[r] = sent[r]]_vars
  <2> SUFFICES ASSUME DispatchInv, Next, NEW r \in Requests, results[r] # 0
               PROVE  sent'[r] = sent[r]
    OBVIOUS
  <2>0. TypeOK /\ HeldInv
    BY DEF DispatchInv
  <2>1. ASSUME NEW d \in Dispatchers, Post(d), calls[d].request = r
        PROVE  FALSE
    <3>1. Owner(d) /\ Unanswered(d)
      BY <2>1 DEF Post, Owner, Unanswered
    <3>2. Attempt(d) \in Attempts /\ results[r] \in Attempts /\ results[r] # Attempt(d)
      BY <2>0, <2>1, <3>1, AttemptTyped DEF HeldInv, AnswerClosed, TypeOK
    <3>3. Attempt(d) = 2 => Retried(r)
      BY <2>0, <2>1, AttemptTyped DEF HeldInv, RetriesGranted
    <3>4. results[r] = 2 => Retried(r)
      BY <2>0 DEF HeldInv, RetriesGranted
    <3>5. Retried(r) => results[r] # 1 /\ Attempt(d) = 2
      BY <2>0, <2>1, <3>1 DEF HeldInv, FirstClosed
    <3>6. QED
      BY <3>2, <3>3, <3>4, <3>5 DEF Attempts
  <2>2. ASSUME NEW d \in Dispatchers, Post(d)
        PROVE  sent'[r] = sent[r]
    <3>1. calls[d].request # r
      BY <2>1, <2>2
    <3>2. calls[d].request \in Requests
      BY <2>0, AttemptTyped
    <3>3. QED
      BY <2>0, <2>2, <3>1, <3>2 DEF Post, TypeOK
  <2>3. ASSUME \A d \in Dispatchers : ~Post(d)
        PROVE  sent' = sent
    BY <2>3, ZenonT(60)
    DEF Next, OwnerStep, Persist, Approve, Cancel, UnlinkClaimed, Reconcile, DiscardActive, WriteEnvelope, CreateEnvelope,
        Begin, Crash, NextDay, DispatcherStep, Rename, ReadClaim, Admit, RecordSuccess, MarkStarted,
        AuditCompleted, AuditFailed, RestoreRetry, LookForActive, OpenClaimed, CompareInode, RewriteClaimed, Publish,
        AuditBlocked, DestroyClaim, CheckApproval, TransportReturns, PersistResult, TransportFails,
        ledgers
  <2>4. QED
    BY <2>2, <2>3
<1>2. QED
  BY <1>1, DispatchInductive, PTL DEF Spec, AnsweredFinal
=============================================================================
