----------------------------- MODULE Delegation -----------------------------
(***************************************************************************)
(* Bounded delegated authority: the store of src/edn/development/          *)
(* delegation.py (grants, claims and the audit chain in one SQLite file)   *)
(* and the command line of delegation_cli.py, which uses it in several     *)
(* transactions of its own per command.                                    *)
(*                                                                         *)
(* A transaction is an action.  A refusal that writes nothing is not an    *)
(* action: the command just ends.  Times count days.  Hashes stand for     *)
(* what they bind; nobody edits the file behind the program's back, so a   *)
(* hash that is present verifies exactly when the row still is what was    *)
(* hashed.                                                                 *)
(***************************************************************************)
EXTENDS Integers, Sequences, FiniteSets

CONSTANTS
    GrantIds,
    OperationIds,
    Sessions,            \* processes that run the command line
    MaxGrantDuration,    \* _MAX_GRANT_DURATION in days
    DelegationHorizon,   \* bound: the last day
    MaxDenials           \* bound: operation_denied events of all grants

ASSUME DelegationAssumption ==
    /\ GrantIds # {} /\ OperationIds # {}
    /\ MaxGrantDuration \in Nat /\ DelegationHorizon \in Nat /\ MaxDenials \in Nat

VARIABLES
    grants,    \* table grants
    claims,    \* table claims
    trail,     \* table audit: the events of each grant in sequence order
    sessions,  \* what each command line process is doing
    reported,  \* the operations a session has been told are its to perform
    today

delegationVars == <<grants, claims, trail, sessions, reported, today>>

DelegationDays == 0 .. DelegationHorizon

(***************************************************************************)
(* Grants.                                                                 *)
(***************************************************************************)

\* One operation of each family the checks tell apart.
PathOperations == {"repository.write"}
ValidationOperations == {"validation.pytest"}
GitOperations == {"git.push.current_upstream"}
PA005Operations == {"pa005.inbox.read"}
PA009Operations == {"pa009.preflight", "pa009.dispatch"}
DelegatedOperations ==
    PathOperations \cup ValidationOperations \cup GitOperations \cup PA005Operations \cup PA009Operations

ProhibitedOperations == {"git.merge"}

\* The owner, repository and branch a grant, a request or a session is about.
Binding == [owner : {"owner", "stranger"}, branch : {"feature/a", "feature/b", "main"}]

\* boundary stands for the provider, model, policy, domain, classification and the six
\* fixed PA-009 limits, each of which is only ever compared for equality.
Boundaries009 == {"approved", "altered"}
SourceScopes == {"inbox", "unapproved"}
ApprovedScopes == {"inbox"}
Categories == {"metadata", "unapproved"}
ApprovedCategories == {"metadata"}
Mechanisms == {"env", "unapproved"}
ApprovedMechanisms == {"env"}

Grant == [binding : Binding, starts_at : DelegationDays, expires_at : 0 .. DelegationHorizon + 1,
          operations : SUBSET (DelegatedOperations \cup ProhibitedOperations),
          scopes : SUBSET SourceScopes, categories : SUBSET Categories,
          mechanisms : SUBSET Mechanisms, boundary : Boundaries009]

\* DelegatedGrant.__post_init__; allowed_paths always lie within the repository.
GrantValid(grant) ==
    /\ grant.binding.branch # "main"
    /\ grant.starts_at < grant.expires_at
    /\ grant.expires_at - grant.starts_at <= MaxGrantDuration
    /\ grant.operations # {}
    /\ grant.operations \subseteq DelegatedOperations
    /\ grant.scopes \subseteq ApprovedScopes
    /\ grant.categories \subseteq ApprovedCategories
    /\ grant.mechanisms \subseteq ApprovedMechanisms
    /\ grant.boundary = "approved"

GrantStates == {"none", "active", "revoked", "killed"}
TerminalStates == {"revoked", "killed"}

Owner(branch) == [owner |-> "owner", branch |-> branch]

NoGrant == [state |-> "none", grant |->
    [binding |-> Owner("main"), starts_at |-> 0, expires_at |-> 0, operations |-> {},
     scopes |-> {}, categories |-> {}, mechanisms |-> {}, boundary |-> "approved"]]

Within(g, instant) ==
    grants[g].grant.starts_at <= instant /\ instant < grants[g].grant.expires_at

Live(g, instant) == grants[g].state = "active" /\ Within(g, instant)

(***************************************************************************)
(* Requests, and the reasons to deny one.                                  *)
(***************************************************************************)

PathKinds == {"inside", "outside", "symlink"}

Request == [operation : DelegatedOperations \cup ProhibitedOperations, binding : Binding,
            paths : SUBSET PathKinds, scopes : SUBSET SourceScopes,
            categories : SUBSET Categories, boundary : Boundaries009,
            mechanism : Mechanisms \cup {""}, controls_verified : BOOLEAN,
            validation_passed : BOOLEAN, exact_upstream : BOOLEAN, preflight_hash : BOOLEAN]

BranchDrift(grant, request) ==
    request.binding.branch # grant.binding.branch \/ request.binding.branch = "main"

\* A mutant: symbolic links are not looked for.
PathDriftLinks(request) == "outside" \in request.paths

\* _is_within an allowed path, and no component is a symbolic link.
PathDrift(request) == ~ request.paths \subseteq {"inside"}

PA005ControlsMissing(request) ==
    request.operation \in PA005Operations /\ (request.scopes = {} \/ ~ request.controls_verified)

GitPreconditionsFailed(request) ==
    request.operation \in GitOperations /\ ~ (request.validation_passed /\ request.exact_upstream)

PA009Matches(grant, request) ==
    /\ request.boundary = grant.boundary
    /\ request.categories \subseteq grant.categories
    /\ request.mechanism \in grant.mechanisms
    /\ request.controls_verified

PA009Drift(grant, request) ==
    /\ request.operation \in PA009Operations
    /\ \/ ~ PA009Matches(grant, request)
       \/ request.operation = "pa009.dispatch" /\ ~ (request.preflight_hash /\ request.controls_verified)

\* _denial_reason: any of its reasons; which one is only wording.
Denied(g, request, instant) ==
    LET grant == grants[g].grant
    IN \/ ~ Live(g, instant)
       \/ request.binding.owner # grant.binding.owner
       \/ request.operation \in ProhibitedOperations
       \/ request.operation \notin grant.operations
       \/ BranchDrift(grant, request)
       \/ PathDrift(request)
       \/ ~ request.scopes \subseteq grant.scopes
       \/ request.operation \in PathOperations /\ request.paths = {}
       \/ PA005ControlsMissing(request)
       \/ GitPreconditionsFailed(request)
       \/ PA009Drift(grant, request)

\* What a caller may ask: a request that asserts everything its family needs, or one that
\* departs from it in one place.
Asserted(operation, binding) ==
    [operation |-> operation, binding |-> binding, paths |-> {"inside"}, scopes |-> {"inbox"},
     categories |-> ApprovedCategories, boundary |-> "approved", mechanism |-> "env",
     controls_verified |-> TRUE, validation_passed |-> TRUE, exact_upstream |-> TRUE, preflight_hash |-> TRUE]

Departures ==
    LET ask(operation) == Asserted(operation, Owner("feature/a"))
    IN {[ask("repository.write") EXCEPT !.paths = p] : p \in {{}, {"outside"}, {"inside", "symlink"}}}
       \cup {[ask("validation.pytest") EXCEPT !.binding = b] :
                b \in {Owner("feature/b"), Owner("main"), [owner |-> "stranger", branch |-> "feature/a"]}}
       \cup {[ask("git.push.current_upstream") EXCEPT !.validation_passed = FALSE],
             [ask("git.push.current_upstream") EXCEPT !.exact_upstream = FALSE]}
       \cup {[ask("pa005.inbox.read") EXCEPT !.scopes = s] : s \in {{}, SourceScopes}}
       \cup {[ask("pa009.preflight") EXCEPT !.mechanism = m] : m \in {"", "unapproved"}}
       \cup {[ask("pa009.preflight") EXCEPT !.categories = c] : c \in {{}, Categories}}
       \cup {[ask("pa009.preflight") EXCEPT !.boundary = "altered"],
             [ask("pa009.dispatch") EXCEPT !.preflight_hash = FALSE]}
       \cup {[ask(operation) EXCEPT !.controls_verified = FALSE] :
                operation \in PA005Operations \cup PA009Operations}

Requests ==
    Departures \cup {Asserted(operation, Owner("feature/a")) :
                        operation \in DelegatedOperations \cup ProhibitedOperations}

(***************************************************************************)
(* What the owner's documents promise of an admitted operation, operation  *)
(* by operation and without the order of the checks.                       *)
(***************************************************************************)
Admissible(grant, request) ==
    /\ request.operation \in grant.operations /\ request.binding = grant.binding
    /\ request.paths \cap {"outside", "symlink"} = {}
    /\ request.scopes \subseteq ApprovedScopes
    /\ CASE request.operation = "repository.write" -> request.paths # {}
         [] request.operation = "validation.pytest" -> TRUE
         [] request.operation = "git.push.current_upstream" ->
                request.validation_passed /\ request.exact_upstream
         [] request.operation = "pa005.inbox.read" ->
                request.scopes = {"inbox"} /\ request.controls_verified
         [] request.operation \in {"pa009.preflight", "pa009.dispatch"} ->
                /\ request.boundary = "approved" /\ request.categories \subseteq ApprovedCategories
                /\ request.mechanism = "env" /\ request.controls_verified
                /\ request.operation = "pa009.dispatch" => request.preflight_hash
         [] OTHER -> FALSE

(***************************************************************************)
(* Claims, audit and sessions.                                             *)
(***************************************************************************)

\* bound: the state the row's hash was computed for, "none" for a row that was written
\* before the column existed.  admissible is what the documents say of its request.
ClaimRow == [state : {"none", "claimed", "completed"}, grant : GrantIds,
             bound : {"none", "claimed", "completed"}, admissible : BOOLEAN]

SomeGrant == CHOOSE g \in GrantIds : TRUE

NoClaim == [state |-> "none", grant |-> SomeGrant, bound |-> "none", admissible |-> TRUE]

LegacyClaim == [NoClaim EXCEPT !.state = "completed"]

Under(row, g) == row.state # "none" /\ row.grant = g

IntegrityVerified(row) == row.bound # "none" /\ row.bound = row.state

Events == {"grant_activated", "grant_revoked", "grant_killed",
           "operation_denied", "operation_claimed", "operation_completed"}

\* _audit: the event follows the last one of its grant.
Audit(g, event) == trail' = [trail EXCEPT ![g] = Append(@, event)]

Occurrences(g, event) == Cardinality({i \in DOMAIN trail[g] : trail[g][i] = event})

Session == [step : {"idle", "resolved", "claimed", "recorded", "validated"},
            grant : GrantIds, operation : OperationIds, instant : DelegationDays]

IdleSession == [step |-> "idle", grant |-> SomeGrant,
                operation |-> CHOOSE o \in OperationIds : TRUE, instant |-> 0]

DelegationInit ==
    /\ grants = [g \in GrantIds |-> NoGrant]
    /\ claims \in [OperationIds -> {NoClaim, LegacyClaim}]
    /\ trail = [g \in GrantIds |-> <<>>]
    /\ sessions = [s \in Sessions |-> IdleSession]
    /\ reported = {}
    /\ today = 0

(***************************************************************************)
(* The owner.                                                              *)
(***************************************************************************)

\* activate: the approval names this grant, its hash and its expiry; a grant id is used once.
Activate(g, grant) ==
    /\ grants[g].state = "none"
    /\ GrantValid(grant)
    /\ today < grant.expires_at
    /\ grants' = [grants EXCEPT ![g] = [state |-> "active", grant |-> grant]]
    /\ Audit(g, "grant_activated")
    /\ UNCHANGED <<claims, sessions, reported, today>>

Terminal(g, state) ==
    /\ grants[g].state = "active"
    /\ grants' = [grants EXCEPT ![g].state = state]
    /\ Audit(g, IF state = "revoked" THEN "grant_revoked" ELSE "grant_killed")
    /\ UNCHANGED <<claims, sessions, reported, today>>

Revoke(g, owner) == owner = grants[g].grant.binding.owner /\ Terminal(g, "revoked")

EngageKillSwitch(g) == Terminal(g, "killed")

NewDay ==
    /\ today < DelegationHorizon
    /\ today' = today + 1
    /\ UNCHANGED <<grants, claims, trail, sessions, reported>>

(***************************************************************************)
(* The store's transactions on claims, and the commands made of them.      *)
(***************************************************************************)

Denials == UNION {{<<g, i>> : i \in {j \in DOMAIN trail[g] : trail[g][j] = "operation_denied"}} : g \in GrantIds}

ClaimDenied(g, request, instant) ==
    /\ Cardinality(Denials) < MaxDenials
    /\ Denied(g, request, instant)
    /\ Audit(g, "operation_denied")
    /\ UNCHANGED claims

\* The primary key on operation_id refuses a second claim of it.
ClaimInserted(g, operation, request, instant) ==
    /\ claims[operation] = NoClaim
    /\ ~ Denied(g, request, instant)
    /\ claims' = [claims EXCEPT ![operation] = [state |-> "claimed", grant |-> g, bound |-> "claimed",
                    admissible |-> Admissible(grants[g].grant, request)]]
    /\ Audit(g, "operation_claimed")

Executable(g, operation, instant) ==
    /\ Live(g, instant)
    /\ Under(claims[operation], g)
    /\ claims[operation].state = "claimed" /\ IntegrityVerified(claims[operation])

\* resolve_active, then audit_events, at the instant the command was started.
Resolve(s, binding) ==
    /\ sessions[s].step = "idle"
    /\ \E g \in GrantIds :
        /\ {h \in GrantIds : Live(h, today) /\ grants[h].grant.binding = binding} = {g}
        /\ sessions' = [sessions EXCEPT ![s] =
                [IdleSession EXCEPT !.step = "resolved", !.grant = g, !.instant = today]]
    /\ UNCHANGED <<grants, claims, trail, reported, today>>

\* _request takes the binding and the boundary from the grant and asks for the assertions
\* of the operation's family before the store sees it.
CliAdmits(grant, request) ==
    /\ request.operation \in DelegatedOperations
    /\ request.binding = grant.binding /\ request.boundary = grant.boundary
    /\ ~ (request.operation \in PathOperations /\ request.paths = {})
    /\ ~ GitPreconditionsFailed(request)
    /\ ~ PA005ControlsMissing(request)
    /\ request.operation \in PA009Operations => request.mechanism # "" /\ request.controls_verified
    /\ request.operation = "pa009.dispatch" => request.preflight_hash

CliClaim(s, operation, request) ==
    /\ sessions[s].step = "resolved"
    /\ CliAdmits(grants[sessions[s].grant].grant, request)
    /\ \/ /\ ClaimDenied(sessions[s].grant, request, sessions[s].instant)
          /\ sessions' = [sessions EXCEPT ![s] = IdleSession]
       \/ /\ ClaimInserted(sessions[s].grant, operation, request, sessions[s].instant)
          /\ sessions' = [sessions EXCEPT ![s].step = "claimed", ![s].operation = operation]
    /\ UNCHANGED <<grants, reported, today>>

\* A mutant: the claim is reported as it was made, without validate_claim.
ConfirmClaimUnchecked(s) ==
    /\ sessions[s].step = "claimed"
    /\ reported' = reported \cup {sessions[s].operation}
    /\ sessions' = [sessions EXCEPT ![s] = IdleSession]
    /\ UNCHANGED <<grants, claims, trail, today>>

\* claim goes on with validate_claim; only then is the claim reported.
ConfirmClaim(s) ==
    /\ sessions[s].step = "claimed"
    /\ reported' = reported \cup {o \in {sessions[s].operation} : Executable(sessions[s].grant, o, sessions[s].instant)}
    /\ sessions' = [sessions EXCEPT ![s] = IdleSession]
    /\ UNCHANGED <<grants, claims, trail, today>>

\* claim_record, for validate, complete and claim-status.
ReadRecord(s, operation) ==
    /\ sessions[s].step = "resolved"
    /\ Under(claims[operation], sessions[s].grant) /\ IntegrityVerified(claims[operation])
    /\ sessions' = [sessions EXCEPT ![s].step = "recorded", ![s].operation = operation]
    /\ UNCHANGED <<grants, claims, trail, reported, today>>

ValidateClaim(s) ==
    /\ sessions[s].step = "recorded"
    /\ Executable(sessions[s].grant, sessions[s].operation, sessions[s].instant)
    /\ sessions' = [sessions EXCEPT ![s].step = "validated"]
    /\ UNCHANGED <<grants, claims, trail, reported, today>>

\* A mutant: complete trusts the validation that preceded it.
CompleteUnchecked(s) ==
    /\ sessions[s].step = "validated"
    /\ claims' = [claims EXCEPT ![sessions[s].operation].state = "completed",
                               ![sessions[s].operation].bound = "completed"]
    /\ Audit(sessions[s].grant, "operation_completed")
    /\ sessions' = [sessions EXCEPT ![s] = IdleSession]
    /\ UNCHANGED <<grants, reported, today>>

\* complete checks the grant and the claim again in its own transaction.
Complete(s) ==
    LET operation == sessions[s].operation
    IN /\ sessions[s].step = "validated"
       /\ Executable(sessions[s].grant, operation, sessions[s].instant)
       /\ claims' = [claims EXCEPT ![operation].state = "completed", ![operation].bound = "completed"]
       /\ Audit(sessions[s].grant, "operation_completed")
       /\ sessions' = [sessions EXCEPT ![s] = IdleSession]
       /\ UNCHANGED <<grants, reported, today>>

\* A program that uses the store itself may ask anything.
StoreClaim(g, operation, request) ==
    /\ grants[g].state # "none"
    /\ ClaimDenied(g, request, today) \/ ClaimInserted(g, operation, request, today)
    /\ UNCHANGED <<grants, sessions, reported, today>>

\* The command ends: done, refused, or its process died.
EndCommand(s) ==
    /\ sessions[s].step # "idle"
    /\ sessions' = [sessions EXCEPT ![s] = IdleSession]
    /\ UNCHANGED <<grants, claims, trail, reported, today>>

\* The owner may draft a grant of everything delegable for any interval, or one that asks
\* for more; only a valid one can be constructed.
Drafts ==
    LET whole == {[binding |-> Owner("feature/a"), starts_at |-> from, expires_at |-> to,
                   operations |-> DelegatedOperations, scopes |-> ApprovedScopes,
                   categories |-> ApprovedCategories, mechanisms |-> ApprovedMechanisms,
                   boundary |-> "approved"] :
                      from \in DelegationDays, to \in DelegationDays \cup {DelegationHorizon + 1}}
        broader(d) == {[d EXCEPT !.binding = Owner("main")], [d EXCEPT !.boundary = "altered"],
                       [d EXCEPT !.scopes = SourceScopes], [d EXCEPT !.categories = Categories],
                       [d EXCEPT !.mechanisms = Mechanisms],
                       [d EXCEPT !.operations = @ \cup ProhibitedOperations]}
    IN whole \cup UNION {broader(d) : d \in whole}

DelegationNext ==
    \/ \E g \in GrantIds :
        \/ \E grant \in Drafts : Activate(g, grant)
        \/ Revoke(g, "owner")
        \/ EngageKillSwitch(g)
        \/ \E operation \in OperationIds, request \in Requests : StoreClaim(g, operation, request)
    \/ \E s \in Sessions :
        \/ Resolve(s, Owner("feature/a"))
        \/ \E operation \in OperationIds, request \in Requests : CliClaim(s, operation, request)
        \/ \E operation \in OperationIds : ReadRecord(s, operation)
        \/ ConfirmClaim(s) \/ ValidateClaim(s) \/ Complete(s) \/ EndCommand(s)
    \/ NewDay

(***************************************************************************)
(* Properties.                                                             *)
(***************************************************************************)
DelegationTypeOK ==
    /\ grants \in [GrantIds -> [state : GrantStates, grant : Grant]]
    /\ claims \in [OperationIds -> ClaimRow]
    /\ \A g \in GrantIds : \A i \in DOMAIN trail[g] : trail[g][i] \in Events
    /\ sessions \in [Sessions -> Session]
    /\ reported \subseteq OperationIds
    /\ today \in DelegationDays

\* Whatever grant the owner drafted and whatever a caller asserted, an operation that was
\* claimed is one the owner's documents allow (DelegatedGrant, _request, _denial_reason).
AdmittedWithinGrant == \A o \in OperationIds : claims[o].admissible

\* The audit chain tells the story of the tables (claim, complete, activate, _terminal):
\* activation first and once, the end last but for refusals, one operation_claimed per
\* claim of the grant and one operation_completed per completed one.
DelegationAuditAgrees ==
    \A g \in GrantIds :
        LET mine == {o \in OperationIds : claims[o].grant = g /\ claims[o].bound # "none"}
            done == {o \in mine : claims[o].state = "completed"}
        IN /\ Occurrences(g, "operation_claimed") = Cardinality(mine)
           /\ Occurrences(g, "operation_completed") = Cardinality(done)
           /\ (grants[g].state = "none") = (trail[g] = <<>>)
           /\ \A i \in DOMAIN trail[g] :
                /\ (trail[g][i] = "grant_activated") = (i = 1)
                /\ trail[g][i] \in {"grant_revoked", "grant_killed"} =>
                    /\ grants[g].state \in TerminalStates
                    /\ \A j \in i + 1 .. Len(trail[g]) : trail[g][j] = "operation_denied"

\* Once a grant is revoked or killed, a command that had resolved or validated it before
\* gains nothing: no claim of it is made, completed or reported any more, and the grant
\* stays as it is.  A claim whose work was going on then stays claimed for good.
TerminalGrantFrozen ==
    [][\A g \in GrantIds : grants[g].state \in TerminalStates =>
        /\ grants'[g] = grants[g]
        /\ \A o \in OperationIds :
            /\ Under(claims[o], g) \/ Under(claims'[o], g) => claims'[o] = claims[o]
            /\ o \in reported' \ reported => ~ Under(claims[o], g)]_delegationVars
=============================================================================
