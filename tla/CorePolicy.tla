----------------------------- MODULE CorePolicy -----------------------------
(***************************************************************************)
(* Who may use which capability: the capability registry, the permission   *)
(* policy and their composition in src/edn/core (registry.py, policy.py,   *)
(* permissions.py, security.py, references.py, onboarding.py).             *)
(*                                                                         *)
(* The registry is changed by register and unregister; the policy is the   *)
(* owner's configuration, whose rules come and go; time passes.  Decisions *)
(* are pure: they are operators, evaluated in every state.  Of the nine    *)
(* identifier selectors of a rule, which all work alike, the operations    *)
(* stand for all; the resource scope works differently and is kept.        *)
(***************************************************************************)
EXTENDS Integers, FiniteSets

CONSTANTS
    MaxRules,       \* bound: rules in force at once
    PolicyHorizon   \* bound: the last moment

ASSUME PolicyAssumption == MaxRules \in Nat /\ PolicyHorizon \in Nat \ {0}

VARIABLES
    capability,  \* the registered capability, or Unregistered
    rules,       \* PolicySet.rules
    moment

policyVars == <<capability, rules, moment>>

(***************************************************************************)
(* Principals, domains and requests.                                       *)
(***************************************************************************)
Domains == [id : {"EDN", "CLIENT"}, tenant : {"none", "home", "away"}]

\* PrincipalContext: every active domain is the principal's own tenant's or nobody's.
Principals == [tenant : {"home"},
               active : {{[id |-> "EDN", tenant |-> "none"], [id |-> "EDN", tenant |-> "home"]}}]

AllowsDomain(principal, domain) ==
    domain.tenant \in {"none", principal.tenant} /\ domain \in principal.active

\* is_evidence_eligible
EvidenceEligible(principal, domain) == AllowsDomain(principal, domain)

Operations == {"read", "write"}
ResourceScopes == {"folder", "mailbox"}

\* PermissionRequest refuses a domain of another tenant.
PermissionRequests ==
    {r \in [principal : Principals, operation : Operations, domain : Domains,
            scope : SUBSET ResourceScopes] : r.domain.tenant \in {"none", r.principal.tenant}}

(***************************************************************************)
(* The registry.                                                           *)
(***************************************************************************)
CapabilityStatuses == {"ready", "unavailable", "authentication_required", "permission_required",
                       "approval_required", "degraded", "disabled", "indeterminate"}

Runtime == [status : CapabilityStatuses, authenticated : BOOLEAN,
            unavailable_dependencies : BOOLEAN, missing_permissions : BOOLEAN]

Manifest == [operations : (SUBSET Operations) \ {{}}, domains : (SUBSET {"EDN", "CLIENT"}) \ {{}}]

Unregistered == [registered |-> FALSE]

Registered == [registered : {TRUE}, manifest : Manifest, runtime : Runtime]

\* CapabilityRegistry.resolve: the first of its checks that fails gives the status.
Resolution(operation, domain) ==
    IF ~ capability.registered THEN "indeterminate"
    ELSE LET runtime == capability.runtime
         IN CASE \/ operation \notin capability.manifest.operations
                 \/ domain.id \notin capability.manifest.domains -> "unavailable"
              [] OTHER ->
                 IF runtime.status \in {"disabled", "indeterminate"} THEN runtime.status
                 ELSE IF ~ runtime.authenticated THEN "authentication_required"
                 ELSE IF runtime.unavailable_dependencies THEN "unavailable"
                 ELSE IF runtime.missing_permissions THEN "permission_required"
                 ELSE runtime.status

(***************************************************************************)
(* The policy.                                                             *)
(***************************************************************************)
PermissionOutcomes == {"allowed", "allowed_within_scope", "approval_required",
                       "temporarily_allowed", "prohibited", "indeterminate"}

Never == PolicyHorizon + 1

\* An empty selector selects everything.
Rule == [outcome : PermissionOutcomes \ {"indeterminate"},
         operations : {{}, {"read"}}, scopes : {{}, {"folder"}}, expires_at : {1, Never},
         approval_ref : {"none", "owner"}]

\* PolicyRule.__post_init__
RuleValid(rule) ==
    /\ (rule.outcome = "temporarily_allowed") = (rule.expires_at # Never)
    /\ rule.outcome = "temporarily_allowed" => rule.approval_ref # "none"
    /\ rule.outcome = "allowed_within_scope" => rule.scopes # {}

Specificity(rule) ==
    Cardinality({s \in {<<"operations", rule.operations>>, <<"scopes", rule.scopes>>} : s[2] # {}})

RuleMatches(rule, request) ==
    /\ rule.operations = {} \/ request.operation \in rule.operations
    /\ rule.scopes = {} \/ (request.scope # {} /\ request.scope \subseteq rule.scopes)

\* A mutant: a rule that has expired no longer matches, and the one it overrode returns.
MatchingUnexpired(request) == {rule \in rules : RuleMatches(rule, request) /\ moment < rule.expires_at}

Matching(request) == {rule \in rules : RuleMatches(rule, request)}

MostSpecific(matches) ==
    {rule \in matches : \A other \in matches : Specificity(other) <= Specificity(rule)}

\* What must agree between equally specific rules.
Signature(rule) == <<rule.outcome, rule.scopes, rule.expires_at, rule.approval_ref>>

Prohibits(rule) == rule.outcome = "prohibited"

\* PermissionEvaluator.evaluate
Permission(request) ==
    LET matches == Matching(request)
        finalists == MostSpecific(matches)
        selected == CHOOSE rule \in finalists : TRUE
    IN CASE ~ AllowsDomain(request.principal, request.domain) -> "prohibited"
         [] OTHER ->
            IF \E rule \in matches : Prohibits(rule) THEN "prohibited"
            ELSE IF matches = {} THEN "indeterminate"
            ELSE IF Cardinality({Signature(rule) : rule \in finalists}) # 1 THEN "indeterminate"
            ELSE IF moment >= selected.expires_at THEN "indeterminate"
            ELSE selected.outcome

\* PermissionDecision.is_allowed; a temporary decision that has expired was not returned.
PermissionAllows(outcome) == outcome \in {"allowed", "allowed_within_scope", "temporarily_allowed"}

\* evaluate_capability_use
UseDecision(request) ==
    LET status == Resolution(request.operation, request.domain)
        permission == Permission(request)
    IN CASE permission = "prohibited" -> "prohibited"
         [] permission # "prohibited" /\ status # "ready" -> status
         [] OTHER -> IF permission = "approval_required" THEN "approval_required"
                     ELSE IF PermissionAllows(permission) THEN "ready" ELSE "indeterminate"

\* CapabilityOnboardingPlanner.plan: a request is prepared for a registered capability that is not ready.
OnboardingRequested(operation, domain) ==
    capability.registered /\ Resolution(operation, domain) # "ready"

(***************************************************************************)
(* Behaviour.                                                              *)
(***************************************************************************)
PolicyInit ==
    /\ capability = Unregistered
    /\ rules = {}
    /\ moment = 0

\* The runtime facts a capability is registered with: all well, or one thing amiss.
Runtimes ==
    LET well == [status |-> "ready", authenticated |-> TRUE, unavailable_dependencies |-> FALSE,
                 missing_permissions |-> FALSE]
    IN {[well EXCEPT !.status = s] : s \in CapabilityStatuses}
       \cup {[well EXCEPT !.authenticated = FALSE], [well EXCEPT !.unavailable_dependencies = TRUE],
             [well EXCEPT !.missing_permissions = TRUE],
             [well EXCEPT !.status = "disabled", !.authenticated = FALSE]}

Register(manifest, runtime) ==
    /\ ~ capability.registered
    /\ capability' = [registered |-> TRUE, manifest |-> manifest, runtime |-> runtime]
    /\ UNCHANGED <<rules, moment>>

Unregister ==
    /\ capability.registered
    /\ capability' = Unregistered
    /\ UNCHANGED <<rules, moment>>

AddRule(rule) ==
    /\ RuleValid(rule) /\ rule \notin rules /\ Cardinality(rules) < MaxRules
    /\ rules' = rules \cup {rule}
    /\ UNCHANGED <<capability, moment>>

RemoveRule(rule) ==
    /\ rules' = rules \ {rule}
    /\ UNCHANGED <<capability, moment>>

PolicyTick ==
    /\ moment < PolicyHorizon
    /\ moment' = moment + 1
    /\ UNCHANGED <<capability, rules>>

Manifests == {[operations |-> {"read"}, domains |-> {"EDN"}], [operations |-> Operations, domains |-> {"CLIENT"}]}

PolicyNext ==
    \/ \E manifest \in Manifests, runtime \in Runtimes : Register(manifest, runtime)
    \/ Unregister
    \/ \E rule \in Rule : AddRule(rule)
    \/ \E rule \in rules : RemoveRule(rule)
    \/ PolicyTick

(***************************************************************************)
(* Properties.                                                             *)
(***************************************************************************)
PolicyTypeOK ==
    /\ capability = Unregistered \/ capability \in Registered
    /\ rules \subseteq Rule
    /\ moment \in 0 .. PolicyHorizon

\* A use that is found ready is ready by every authority on its own: the domain is one the
\* principal is active in, the capability is registered for it and sound, no rule that
\* matches prohibits it, and no rule at least as specific as the one that allows it says
\* anything else; and nobody is asked to onboard what is ready (evaluate_capability_use).
ReadyJustified ==
    \A r \in PermissionRequests : UseDecision(r) = "ready" =>
        /\ EvidenceEligible(r.principal, r.domain)
        /\ capability.registered
        /\ r.operation \in capability.manifest.operations /\ r.domain.id \in capability.manifest.domains
        /\ capability.runtime = [status |-> "ready", authenticated |-> TRUE,
                                 unavailable_dependencies |-> FALSE, missing_permissions |-> FALSE]
        /\ ~ \E rule \in rules : RuleMatches(rule, r) /\ Prohibits(rule)
        /\ \E allow \in rules :
            /\ RuleMatches(allow, r) /\ PermissionAllows(allow.outcome) /\ moment < allow.expires_at
            /\ \A rule \in rules : RuleMatches(rule, r) /\ Specificity(rule) >= Specificity(allow) =>
                    /\ rule.outcome = allow.outcome /\ rule.expires_at = allow.expires_at
                    /\ rule.approval_ref = allow.approval_ref
        /\ ~ OnboardingRequested(r.operation, r.domain)

\* Authority is only ever given: the clock, an unregistration and a further prohibition
\* never make a request ready that was not (an expired temporary rule still counts as the
\* most specific one, so that what it overrode does not come back).
OnlyGrantsGrant ==
    [][(/\ policyVars' # policyVars
        /\ capability' = capability \/ capability' = Unregistered
        /\ rules \subseteq rules' /\ \A rule \in rules' \ rules : Prohibits(rule)) =>
            \A r \in PermissionRequests : UseDecision(r)' = "ready" => UseDecision(r) = "ready"]_policyVars
=============================================================================
