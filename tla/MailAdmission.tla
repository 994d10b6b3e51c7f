---------------------------- MODULE MailAdmission ----------------------------
(***************************************************************************)
(* Bounded retrieval of Outlook metadata and its admission                 *)
(* (src/src/edn/connectors/microsoft_outlook/connector.py, admission.py,   *)
(* client.py, models.py, src/src/edn/connectors/admission.py).             *)
(*                                                                         *)
(* A search bound to an approved scope reads the configured folders one    *)
(* after the other up to a limit, and then decides on every record of the  *)
(* batch.  The relationship snapshots a decision rests on grow old and are *)
(* replaced between the approval and the search.                           *)
(*                                                                         *)
(* Abstractions: a record is its id and what the decisions tell apart;     *)
(* times count days; the authority id, a hash of the policy with its       *)
(* snapshots, is the policy itself.  Graph is external and returns         *)
(* anything; addresses and subjects are matched as a whole.  The client is *)
(* the protocol GraphOutlookClient; the Graph client of the repository     *)
(* answers for the Inbox only and refuses any other folder.                *)
(***************************************************************************)
EXTENDS Integers, Sequences, FiniteSets

CONSTANTS
    MailLimit,           \* limit of search_messages
    SnapshotAge,         \* EmailAdmissionPolicy.max_age
    WindowDays,          \* MailWindow in days
    AdmissionHorizon     \* bound: the last day

ASSUME MailAdmissionAssumption ==
    /\ MailLimit \in 1 .. 25
    /\ SnapshotAge \in Nat \ {0} /\ WindowDays \in Nat \ {0} /\ AdmissionHorizon \in Nat

VARIABLES
    scopeMode,       \* OutlookConfig.scope_mode
    snapshots,       \* the relationship snapshots of the connector's policy
    granted,         \* the admission scope the owner has approved
    search,          \* the search under way, and its result
    admissionDay

admissionVars == <<scopeMode, snapshots, granted, search, admissionDay>>

-----------------------------------------------------------------------------
\* Records as Graph returns them; odd is what is wrong with one: no usable address, a folder
\* that is not configured, or a body (which stands for a missing id or timestamp too).
MailFolders == <<"inbox", "projects">>

Mail(id, sender, edn, project, received, odd) ==
    [id |-> id, sender |-> sender, edn |-> edn, project |-> project,
     received |-> received, odd |-> odd]

Records ==
    {Mail(1, "client", FALSE, FALSE, 1, "plain"),
     Mail(1, "other", TRUE, FALSE, 1, "plain"),
     Mail(2, "client", TRUE, FALSE, 0, "plain"),
     Mail(3, "other", FALSE, TRUE, 1, "plain"),
     Mail(4, "other", FALSE, FALSE, 1, "plain"),
     Mail(5, "other", TRUE, FALSE, 1, "unaddressed"),
     Mail(6, "client", TRUE, FALSE, 1, "other_folder"),
     Mail(7, "client", TRUE, FALSE, 1, "with_body")}

\* Snapshots: what a source says of an exact sender or project code.
Relation(signal, entity) == [signal |-> signal, entity |-> entity]
RelationshipSnapshot(state, checked, relations) ==
    [state |-> state, checked |-> checked, relations |-> relations]

SnapshotChoices ==
    [clients : {RelationshipSnapshot("retrieved", 0, {Relation("client", "A")}), RelationshipSnapshot("empty", 1, {}),
                RelationshipSnapshot("partial", 1, {Relation("client", "A")})},
     projects : {RelationshipSnapshot("retrieved", 1, {Relation("project", "A")}),
                 RelationshipSnapshot("retrieved", 1, {Relation("client", "B")}),
                 RelationshipSnapshot("unavailable", 0, {})}]
Sources == {"clients", "projects"}

\* _gap: a snapshot that proves nothing now.
Gap(snapshot, now) ==
    \/ snapshot.state \notin {"retrieved", "empty"}
    \/ snapshot.checked > now
    \/ now - snapshot.checked > SnapshotAge

Matched(relation, record) ==
    IF relation.signal = "project" THEN record.project ELSE record.sender = relation.signal

Matches(policy, record, now) ==
    {r \in UNION {policy[s].relations : s \in {t \in Sources : ~Gap(policy[t], now)}} :
        Matched(r, record)}

Ambiguous(relations) == \E r, q \in relations : r.signal = q.signal /\ r.entity # q.entity

\* decide: relevance of one record on its own.
Relevance(policy, record, now) ==
    LET matches == Matches(policy, record, now)
    IN IF record.odd = "unaddressed" THEN "malformed_metadata"
       ELSE IF Ambiguous(matches) THEN "ambiguous_relationship"
       ELSE IF record.edn \/ matches # {} THEN "admitted"
       ELSE IF \E s \in Sources : Gap(policy[s], now) THEN "unavailable"
       ELSE "no_edn_relevance_signal"

InWindow(record, now) == now - WindowDays <= record.received /\ record.received <= now

\* _admit_batch: conflicts and boundaries come before relevance.
Decided(raw, k, policy, now) ==
    IF \E j \in DOMAIN raw : raw[j].id = raw[k].id /\ raw[j] # raw[k] THEN "conflicting_metadata"
    ELSE IF \E j \in 1 .. k - 1 : raw[j].id = raw[k].id THEN "duplicate_record"
    ELSE IF raw[k].odd \in {"unaddressed", "with_body"} THEN "malformed_metadata"
    ELSE IF raw[k].odd = "other_folder" THEN "outside_folder_boundary"
    ELSE IF ~InWindow(raw[k], now) THEN "outside_time_boundary"
    ELSE Relevance(policy, raw[k], now)

Coverage(policy, now, admitted) ==
    {s \in Sources : Gap(policy[s], now)}
       \cup (IF admitted = {} THEN {"no_admissible_evidence"} ELSE {})

-----------------------------------------------------------------------------
\* Searches.
SomePolicy == CHOOSE c \in SnapshotChoices : TRUE
NoSearch == [pc |-> "idle", now |-> 0, folder |-> 1, raw |-> <<>>, policy |-> SomePolicy,
             decisions |-> <<>>, admitted |-> {}, reasons |-> {}]

\* _validate_request: the request's scope names the policy the connector has now.
BeginSearch ==
    /\ search.pc = "idle"
    /\ snapshots \in granted
    /\ search' = [NoSearch EXCEPT !.pc = "read", !.now = admissionDay, !.policy = snapshots]
    /\ UNCHANGED <<scopeMode, snapshots, granted, admissionDay>>

RoomLeft == MailLimit - Len(search.raw)

\* One GET of one folder, cut to what remains of the limit.
ReadFolder(page) ==
    /\ search.pc = "read" /\ search.folder <= Len(MailFolders) /\ RoomLeft > 0
    /\ Len(page) <= RoomLeft
    /\ search' = [search EXCEPT !.raw = @ \o page, !.folder = @ + 1]
    /\ UNCHANGED <<scopeMode, snapshots, granted, admissionDay>>

FolderUnavailable ==
    /\ search.pc = "read" /\ search.folder <= Len(MailFolders) /\ RoomLeft > 0
    /\ search' = NoSearch
    /\ UNCHANGED <<scopeMode, snapshots, granted, admissionDay>>

ReadingDone ==
    search.pc = "read" /\ (search.folder > Len(MailFolders) \/ RoomLeft = 0)

AdmitBatch ==
    LET raw == search.raw
        decisions == [k \in DOMAIN raw |-> Decided(raw, k, search.policy, search.now)]
        admitted == {k \in DOMAIN raw : decisions[k] = "admitted"}
    IN /\ ReadingDone /\ scopeMode = "admission-v2"
       /\ search' = [search EXCEPT !.pc = "done", !.decisions = decisions, !.admitted = admitted,
                        !.reasons = Coverage(search.policy, search.now, admitted)]
       /\ UNCHANGED <<scopeMode, snapshots, granted, admissionDay>>

\* V1: _message filters by category before it looks at anything else, and a record with a
\* body, without an id or without its timestamps ends the search; missing or malformed
\* addresses do not.
Filtered(record) == scopeMode = "category-required" /\ ~record.edn
Refused(record) == ~Filtered(record) /\ record.odd = "with_body"

FilterBatch ==
    LET raw == search.raw
    IN /\ ReadingDone /\ scopeMode # "admission-v2"
       /\ search' = IF \E k \in DOMAIN raw : Refused(raw[k]) THEN NoSearch
                    ELSE [search EXCEPT !.pc = "done",
                             !.admitted = {k \in DOMAIN raw :
                                 /\ ~Filtered(raw[k]) /\ raw[k].odd # "other_folder"
                                 /\ InWindow(raw[k], search.now)}]
       /\ UNCHANGED <<scopeMode, snapshots, granted, admissionDay>>

EndSearch ==
    /\ search.pc = "done"
    /\ search' = NoSearch
    /\ UNCHANGED <<scopeMode, snapshots, granted, admissionDay>>

\* The owner approves a scope that names the policy; the host builds a connector with
\* other snapshots.  V1 has no admission policy.
ApproveScope ==
    /\ search.pc = "idle"
    /\ granted' = {snapshots}
    /\ UNCHANGED <<scopeMode, snapshots, search, admissionDay>>

ReplaceSnapshots(new) ==
    /\ search.pc = "idle" /\ scopeMode = "admission-v2"
    /\ snapshots' = new
    /\ UNCHANGED <<scopeMode, granted, search, admissionDay>>

AdmissionTick ==
    /\ search.pc = "idle" /\ admissionDay < AdmissionHorizon
    /\ admissionDay' = admissionDay + 1
    /\ UNCHANGED <<scopeMode, snapshots, granted, search>>

Pages == {<<>>} \cup {<<r>> : r \in Records} \cup (Records \X Records)

AdmissionInit ==
    /\ scopeMode \in {"admission-v2", "category-required", "dedicated-edn"}
    /\ snapshots = SomePolicy
    /\ granted = {}
    /\ search = NoSearch
    /\ admissionDay = 0

AdmissionNext ==
    \/ ApproveScope
    \/ \E new \in SnapshotChoices : ReplaceSnapshots(new)
    \/ AdmissionTick
    \/ BeginSearch
    \/ \E page \in Pages : ReadFolder(page)
    \/ FolderUnavailable
    \/ AdmitBatch
    \/ FilterBatch
    \/ EndSearch

-----------------------------------------------------------------------------
AdmissionTypeOK ==
    /\ scopeMode \in {"admission-v2", "category-required", "dedicated-edn"}
    /\ snapshots \in SnapshotChoices /\ granted \subseteq SnapshotChoices
    /\ search.pc \in {"idle", "read", "done"} /\ search.now \in 0 .. AdmissionHorizon
    /\ search.folder \in 1 .. Len(MailFolders) + 1 /\ Len(search.raw) <= MailLimit
    /\ search.admitted \subseteq DOMAIN search.raw
    /\ admissionDay \in 0 .. AdmissionHorizon

\* An admitted record is the only record of its id in the batch but for exact copies, of
\* which one counts; it is from the configured folders and the window; and it has the
\* category or one entity that sources checked within their age agree on, in the very
\* snapshots the owner approved.  A record is rejected for lack of relevance only if every
\* source was usable, and an unusable source is always reported (_admit_batch, decide).
AdmissionConfined ==
    search.pc = "done" =>
       /\ \A k \in search.admitted :
            LET r == search.raw[k]
            IN /\ r.odd \in {"plain", "unaddressed"}
               /\ r.received \in search.now - WindowDays .. search.now
               /\ scopeMode = "admission-v2" =>
                    /\ r.odd = "plain"
                    /\ \A j \in DOMAIN search.raw \ {k} : search.raw[j].id = r.id =>
                          search.raw[j] = r /\ j \notin search.admitted
                    /\ search.policy \in granted
                    /\ LET fresh == {s \in Sources :
                              /\ search.policy[s].state \in {"retrieved", "empty"}
                              /\ search.policy[s].checked \in search.now - SnapshotAge .. search.now}
                           says == {q \in UNION {search.policy[s].relations : s \in fresh} :
                                       Matched(q, r)}
                       IN /\ r.edn \/ says # {}
                          /\ \A p, q \in says : p.signal = q.signal => p = q
       /\ scopeMode = "admission-v2" =>
            /\ \A s \in Sources : Gap(search.policy[s], search.now) => s \in search.reasons
            /\ \A k \in DOMAIN search.raw : search.decisions[k] = "no_edn_relevance_signal" =>
                  search.reasons \subseteq {"no_admissible_evidence"}
=============================================================================
