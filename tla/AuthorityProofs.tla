---------------------------- MODULE AuthorityProofs ----------------------------
(***************************************************************************)
(* Proofs about who may do what: the delegated authority, the development  *)
(* orchestrator and the capability policy.                                 *)
(***************************************************************************)
EXTENDS Delegation, Orchestrator, CorePolicy, SequenceTheorems, FiniteSetTheorems, TLAPS

(***************************************************************************)
(* Delegated authority.                                                    *)
(***************************************************************************)

\* The grants, claims and audit events as far as the properties need them.
DelegationTypes ==
    /\ grants \in [GrantIds -> [state : GrantStates, grant : Grant]]
    /\ claims \in [OperationIds -> ClaimRow]
    /\ trail \in [GrantIds -> Seq(Events)]
    /\ sessions \in [Sessions -> Session]
    /\ reported \subseteq OperationIds
    /\ today \in DelegationDays

\* Only a grant that could be constructed was activated, and a command works on such a one.
GrantsConstructed ==
    /\ \A g \in GrantIds : grants[g].state # "none" => GrantValid(grants[g].grant)
    /\ \A s \in Sessions : sessions[s].step # "idle" => grants[sessions[s].grant].state # "none"

ClaimsOf(g) == {o \in OperationIds : claims[o].grant = g /\ claims[o].bound # "none"}
CompletedOf(g) == {o \in ClaimsOf(g) : claims[o].state = "completed"}

\* DelegationAuditAgrees in two parts: the counts, and the order of the events.
CountsTell(g) ==
    /\ Occurrences(g, "operation_claimed") = Cardinality(ClaimsOf(g))
    /\ Occurrences(g, "operation_completed") = Cardinality(CompletedOf(g))

\* A trail that begins with its activation and closes with its end, but for refusals.
Ordered(t) ==
    \A i \in DOMAIN t :
        /\ t[i] = "grant_activated" <=> i = 1
        /\ t[i] \in {"grant_revoked", "grant_killed"} =>
            \A j \in i + 1 .. Len(t) : t[j] = "operation_denied"

HasEnded(t) == \E i \in DOMAIN t : t[i] \in {"grant_revoked", "grant_killed"}

StoryTold(g) ==
    /\ grants[g].state = "none" <=> trail[g] = <<>>
    /\ Ordered(trail[g])
    /\ HasEnded(trail[g]) => grants[g].state \in TerminalStates

ClaimsFinite == \A g \in GrantIds : IsFiniteSet(ClaimsOf(g))

DelegationInv ==
    /\ DelegationTypes
    /\ GrantsConstructed
    /\ ClaimsFinite
    /\ AdmittedWithinGrant
    /\ \A g \in GrantIds : CountsTell(g) /\ StoryTold(g)

LEMMA AuditTold ==
  ASSUME \A g \in GrantIds : CountsTell(g) /\ StoryTold(g) PROVE DelegationAuditAgrees
<1>1. ASSUME NEW g \in GrantIds
      PROVE  /\ (grants[g].state = "none") = (trail[g] = <<>>)
             /\ \A i \in DOMAIN trail[g] : (trail[g][i] = "grant_activated") = (i = 1)
  BY <1>1 DEF StoryTold, Ordered
<1>2. QED
  BY <1>1, ZenonT(60)
  DEF DelegationAuditAgrees, CountsTell, StoryTold, Ordered, HasEnded, ClaimsOf, CompletedOf

LEMMA SomeIds ==
  /\ SomeGrant \in GrantIds /\ (CHOOSE o \in OperationIds : TRUE) \in OperationIds
BY DelegationAssumption DEF SomeGrant

LEMMA ClaimShapes ==
  /\ NoClaim \in ClaimRow /\ LegacyClaim \in ClaimRow
  /\ NoClaim.bound = "none" /\ LegacyClaim.bound = "none"
  /\ NoClaim.state = "none" /\ LegacyClaim.state = "completed"
  /\ NoClaim.admissible /\ LegacyClaim.admissible
BY SomeIds DEF NoClaim, LegacyClaim, ClaimRow

LEMMA IdleSessionShape == IdleSession \in Session /\ IdleSession.step = "idle"
BY SomeIds, DelegationAssumption DEF IdleSession, Session, DelegationDays

LEMMA NoGrantShape ==
  NoGrant \in [state : GrantStates, grant : Grant] /\ NoGrant.state = "none"
<1>1. Owner("main") \in Binding
  BY DEF Owner, Binding
<1>2. 0 \in DelegationDays /\ 0 \in 0 .. DelegationHorizon + 1
  BY DelegationAssumption DEF DelegationDays
<1>3. QED
  BY <1>1, <1>2 DEF NoGrant, Grant, GrantStates, Boundaries009

\* Every binding a draft or a request is about is a binding.
LEMMA DraftsTyped == Drafts \subseteq Grant
<1> DEFINE whole == {[binding |-> Owner("feature/a"), starts_at |-> from, expires_at |-> to,
                      operations |-> DelegatedOperations, scopes |-> ApprovedScopes,
                      categories |-> ApprovedCategories, mechanisms |-> ApprovedMechanisms, boundary |-> "approved"] :
                         from \in DelegationDays, to \in DelegationDays \cup {DelegationHorizon + 1}}
           broader(d) == {[d EXCEPT !.binding = Owner("main")], [d EXCEPT !.boundary = "altered"],
                          [d EXCEPT !.scopes = SourceScopes], [d EXCEPT !.categories = Categories],
                          [d EXCEPT !.mechanisms = Mechanisms],
                          [d EXCEPT !.operations = @ \cup ProhibitedOperations]}
<1>1. \A branch \in {"feature/a", "main"} : Owner(branch) \in Binding
  BY DEF Owner, Binding
<1>2. DelegationDays \cup {DelegationHorizon + 1} \subseteq 0 .. DelegationHorizon + 1
  BY DelegationAssumption DEF DelegationDays
<1>3. /\ ApprovedScopes \subseteq SourceScopes /\ ApprovedMechanisms \subseteq Mechanisms
      /\ ApprovedCategories \subseteq Categories /\ "approved" \in Boundaries009 /\ "altered" \in Boundaries009
  BY DEF ApprovedScopes, SourceScopes, ApprovedMechanisms, Mechanisms, ApprovedCategories, Categories, Boundaries009
<1>4. whole \subseteq Grant
  BY <1>1, <1>2, <1>3 DEF Grant
<1>5. \A d \in Grant : broader(d) \subseteq Grant
  BY <1>1, <1>3 DEF Grant
<1>6. Drafts = whole \cup UNION {broader(d) : d \in whole}
  BY DEF Drafts
<1> HIDE DEF whole, broader
<1>7. QED
  BY <1>4, <1>5, <1>6, Zenon

LEMMA RequestsBound == \A request \in Requests : request.binding \in Binding
<1>1. \A branch \in {"feature/a", "feature/b", "main"} : Owner(branch) \in Binding
  BY DEF Owner, Binding
<1>2. [owner |-> "stranger", branch |-> "feature/a"] \in Binding
  BY DEF Binding
<1>3. \A operation \in DelegatedOperations \cup ProhibitedOperations :
        Asserted(operation, Owner("feature/a")).binding \in Binding
  BY <1>1 DEF Asserted
<1>4. \A request \in Departures : request.binding \in Binding
  BY <1>1, <1>2, ZenonT(60) DEF Departures, Asserted
<1>5. QED
  BY <1>3, <1>4 DEF Requests

LEMMA DelegationInitInv == DelegationInit => DelegationInv
<1> SUFFICES ASSUME DelegationInit PROVE DelegationInv
  OBVIOUS
<1> USE DEF DelegationInit
<1>1. \A o \in OperationIds : claims[o] \in {NoClaim, LegacyClaim}
  OBVIOUS
<1>2. DelegationTypes
  <2>1. 0 \in DelegationDays
    BY DelegationAssumption DEF DelegationDays
  <2>2. <<>> \in Seq(Events)
    OBVIOUS
  <2>3. QED
    BY <2>1, <2>2, ClaimShapes, IdleSessionShape, NoGrantShape DEF DelegationTypes
<1>3. \A g \in GrantIds : ClaimsOf(g) = {} /\ CompletedOf(g) = {}
  BY <1>1, ClaimShapes DEF ClaimsOf, CompletedOf
<1>4. ClaimsFinite
  BY <1>3, FS_EmptySet DEF ClaimsFinite
<1>5. AdmittedWithinGrant
  BY <1>1, ClaimShapes DEF AdmittedWithinGrant
<1>6. GrantsConstructed
  BY NoGrantShape, IdleSessionShape DEF GrantsConstructed
<1>7. ASSUME NEW g \in GrantIds PROVE CountsTell(g) /\ StoryTold(g)
  <2>1. grants[g].state = "none" /\ trail[g] = <<>>
    BY NoGrantShape
  <2>2. \A event \in Events : {i \in DOMAIN trail[g] : trail[g][i] = event} = {}
    BY <2>1
  <2>3. Cardinality({}) = 0
    BY FS_EmptySet
  <2>4. \A event \in Events : Occurrences(g, event) = 0
    <3> SUFFICES ASSUME NEW event \in Events PROVE Occurrences(g, event) = 0
      OBVIOUS
    <3>1. {i \in DOMAIN trail[g] : trail[g][i] = event} = {}
      BY <2>2
    <3>2. QED
      BY <2>3, <3>1 DEF Occurrences
  <2>5. "operation_claimed" \in Events /\ "operation_completed" \in Events
    BY DEF Events
  <2>6. CountsTell(g)
    BY <1>3, <2>3, <2>4, <2>5, Zenon DEF CountsTell
  <2>7. StoryTold(g)
    BY <2>1 DEF StoryTold, Ordered, HasEnded
  <2>8. QED
    BY <2>6, <2>7
<1>8. QED
  BY <1>2, <1>4, <1>5, <1>6, <1>7 DEF DelegationInv

(***************************************************************************)
(* What a step does to the audit trail.                                    *)
(***************************************************************************)

\* The places of an event in a trail.
Places(t, x) == {i \in DOMAIN t : t[i] = x}

LEMMA PlacesAppend ==
  ASSUME NEW t \in Seq(Events), NEW e \in Events, NEW x \in Events
  PROVE  /\ IsFiniteSet(Places(t, x)) /\ Cardinality(Places(t, x)) \in Nat
         /\ e = x => Cardinality(Places(Append(t, e), x)) = Cardinality(Places(t, x)) + 1
         /\ e # x => Places(Append(t, e), x) = Places(t, x)
<1>1. DOMAIN t = 1 .. Len(t) /\ Len(t) \in Nat
  OBVIOUS
<1>2. IsFiniteSet(DOMAIN t)
  <2>1. 1 \in Int /\ Len(t) \in Int
    BY <1>1
  <2>2. IsFiniteSet(1 .. Len(t))
    BY <2>1, FS_Interval, Zenon
  <2>3. QED
    BY <1>1, <2>2
<1>3. IsFiniteSet(Places(t, x))
  <2>1. Places(t, x) \subseteq DOMAIN t
    BY DEF Places
  <2>2. QED
    BY <1>2, <2>1, FS_Subset, Zenon
<1>4. Cardinality(Places(t, x)) \in Nat
  BY <1>3, FS_CardinalityType
<1>5. /\ Append(t, e) \in Seq(Events) /\ Len(Append(t, e)) = Len(t) + 1
      /\ DOMAIN Append(t, e) = 1 .. Len(t) + 1
      /\ \A i \in 1 .. Len(t) : Append(t, e)[i] = t[i]
      /\ Append(t, e)[Len(t) + 1] = e
  OBVIOUS
<1>6. ASSUME e = x PROVE Cardinality(Places(Append(t, e), x)) = Cardinality(Places(t, x)) + 1
  <2>1. Places(Append(t, e), x) = Places(t, x) \cup {Len(t) + 1}
    BY <1>1, <1>5, <1>6 DEF Places
  <2>2. Len(t) + 1 \notin Places(t, x)
    BY <1>1 DEF Places
  <2>3. QED
    BY <1>3, <2>1, <2>2, FS_AddElement
<1>7. ASSUME e # x PROVE Places(Append(t, e), x) = Places(t, x)
  BY <1>1, <1>5, <1>7 DEF Places
<1>8. QED
  BY <1>3, <1>4, <1>6, <1>7

LEMMA OrderedAppend ==
  ASSUME NEW t \in Seq(Events), t # <<>>, NEW e \in Events, e # "grant_activated",
         Ordered(t), e = "operation_denied" \/ ~ HasEnded(t)
  PROVE  /\ Append(t, e) # <<>> /\ Ordered(Append(t, e))
         /\ e \notin {"grant_revoked", "grant_killed"} => (HasEnded(Append(t, e)) <=> HasEnded(t))
<1>1. DOMAIN t = 1 .. Len(t) /\ Len(t) \in Nat /\ Len(t) # 0
  BY EmptySeq
<1>2. /\ Append(t, e) \in Seq(Events) /\ Len(Append(t, e)) = Len(t) + 1
      /\ DOMAIN Append(t, e) = 1 .. Len(t) + 1
      /\ \A i \in 1 .. Len(t) : Append(t, e)[i] = t[i]
      /\ Append(t, e)[Len(t) + 1] = e
  OBVIOUS
<1>3. Append(t, e) # <<>>
  BY <1>1, <1>2
<1>4. Ordered(Append(t, e))
  <2>1. ASSUME NEW i \in 1 .. Len(t) + 1
        PROVE  /\ Append(t, e)[i] = "grant_activated" <=> i = 1
               /\ Append(t, e)[i] \in {"grant_revoked", "grant_killed"} =>
                   \A j \in i + 1 .. Len(t) + 1 : Append(t, e)[j] = "operation_denied"
    <3>1. CASE i = Len(t) + 1
      BY <1>1, <1>2, <3>1
    <3>2. CASE i \in 1 .. Len(t)
      <4>1. Append(t, e)[i] = t[i]
        BY <1>2, <3>2
      <4>2. t[i] = "grant_activated" <=> i = 1
        BY <1>1, <3>2 DEF Ordered
      <4>3. ASSUME t[i] \in {"grant_revoked", "grant_killed"}, NEW j \in i + 1 .. Len(t) + 1
            PROVE  Append(t, e)[j] = "operation_denied"
        <5>1. HasEnded(t)
          BY <1>1, <3>2, <4>3 DEF HasEnded
        <5>2. CASE j = Len(t) + 1
          BY <1>2, <5>1, <5>2
        <5>3. CASE j \in i + 1 .. Len(t)
          BY <1>1, <1>2, <3>2, <4>3, <5>3 DEF Ordered
        <5>4. QED
          BY <1>1, <5>2, <5>3
      <4>4. QED
        BY <4>1, <4>2, <4>3
    <3>3. QED
      BY <1>1, <3>1, <3>2
  <2>2. QED
    BY <1>2, <2>1 DEF Ordered
<1>5. ASSUME e \notin {"grant_revoked", "grant_killed"} PROVE HasEnded(Append(t, e)) <=> HasEnded(t)
  BY <1>1, <1>2, <1>5 DEF HasEnded
<1>6. QED
  BY <1>3, <1>4, <1>5

LEMMA AuditStep ==
  ASSUME DelegationTypes, NEW g \in GrantIds, NEW event \in Events, Audit(g, event)
  PROVE  /\ trail' \in [GrantIds -> Seq(Events)]
         /\ trail'[g] = Append(trail[g], event)
         /\ \A h \in GrantIds : h # g => trail'[h] = trail[h]
         /\ \A h \in GrantIds : \A x \in Events :
              IF h = g /\ x = event THEN Occurrences(h, x)' = Occurrences(h, x) + 1
              ELSE Occurrences(h, x)' = Occurrences(h, x)
         /\ \A h \in GrantIds : \A x \in Events : Occurrences(h, x) \in Nat
<1>1. trail \in [GrantIds -> Seq(Events)]
  BY DEF DelegationTypes
<1>2. trail' = [trail EXCEPT ![g] = Append(@, event)]
  BY DEF Audit
<1>3. Append(trail[g], event) \in Seq(Events)
  BY <1>1
<1>4. /\ trail' \in [GrantIds -> Seq(Events)] /\ trail'[g] = Append(trail[g], event)
      /\ \A h \in GrantIds : h # g => trail'[h] = trail[h]
  BY <1>1, <1>2, <1>3
<1>5. ASSUME NEW h \in GrantIds, NEW x \in Events
      PROVE  /\ Occurrences(h, x) = Cardinality(Places(trail[h], x))
             /\ Occurrences(h, x)' = Cardinality(Places(trail'[h], x))
  BY DEF Occurrences, Places
<1>6. ASSUME NEW h \in GrantIds, NEW x \in Events
      PROVE  /\ IF h = g /\ x = event THEN Occurrences(h, x)' = Occurrences(h, x) + 1
                ELSE Occurrences(h, x)' = Occurrences(h, x)
             /\ Occurrences(h, x) \in Nat
  <2>1. PICK t \in Seq(Events) : t = trail[h]
    BY <1>1
  <2>2. /\ Cardinality(Places(t, x)) \in Nat
        /\ event = x => Cardinality(Places(Append(t, event), x)) = Cardinality(Places(t, x)) + 1
        /\ event # x => Places(Append(t, event), x) = Places(t, x)
    BY PlacesAppend, Zenon
  <2>3. CASE h = g
    <3>1. Occurrences(h, x) = Cardinality(Places(t, x))
      BY <1>5, <2>1
    <3>2. trail'[h] = Append(t, event)
      BY <1>4, <2>1, <2>3
    <3>3. Occurrences(h, x)' = Cardinality(Places(Append(t, event), x))
      BY <1>5, <3>2
    <3>4. QED
      BY <2>2, <2>3, <3>1, <3>3
  <2>4. CASE h # g
    BY <1>4, <1>5, <2>1, <2>2, <2>4
  <2>5. QED
    BY <2>3, <2>4
<1>7. QED
  BY <1>4, <1>6, Zenon

(***************************************************************************)
(* What is admitted.                                                       *)
(***************************************************************************)

\* _denial_reason finds nothing: the request is one the owner's documents allow.
LEMMA AdmittedIsAdmissible ==
  ASSUME DelegationTypes, GrantsConstructed, NEW g \in GrantIds, NEW request \in Requests,
         NEW instant, ~ Denied(g, request, instant)
  PROVE  grants[g].state = "active" /\ Admissible(grants[g].grant, request) = TRUE
<1>1. PICK grant \in Grant : grant = grants[g].grant
  BY DEF DelegationTypes
<1>2. grants[g].state = "active"
  BY DEF Denied, Live
<1>3. GrantValid(grant)
  BY <1>1, <1>2 DEF GrantsConstructed
<1>4. /\ request.binding.owner = grant.binding.owner
      /\ request.operation \in grant.operations
      /\ ~ BranchDrift(grant, request) /\ ~ PathDrift(request)
      /\ request.scopes \subseteq grant.scopes
      /\ ~ (request.operation \in PathOperations /\ request.paths = {})
      /\ ~ PA005ControlsMissing(request) /\ ~ GitPreconditionsFailed(request)
      /\ ~ PA009Drift(grant, request)
  BY <1>1, Zenon DEF Denied
<1>5. request.binding = grant.binding
  <2>1. request.binding \in Binding /\ grant.binding \in Binding
    BY RequestsBound DEF Grant
  <2>2. request.binding.branch = grant.binding.branch
    BY <1>4 DEF BranchDrift
  <2>3. QED
    BY <1>4, <2>1, <2>2 DEF Binding
<1>6. request.paths \cap {"outside", "symlink"} = {}
  BY <1>4 DEF PathDrift
<1>7. request.scopes \subseteq {"inbox"}
  BY <1>3, <1>4 DEF GrantValid, ApprovedScopes
<1>8. request.operation \in DelegatedOperations
  BY <1>3, <1>4 DEF GrantValid
<1>9. request.operation \in PA009Operations =>
        /\ request.boundary = "approved" /\ request.categories \subseteq ApprovedCategories
        /\ request.mechanism = "env" /\ request.controls_verified
        /\ request.operation = "pa009.dispatch" => request.preflight_hash
  BY <1>3, <1>4 DEF GrantValid, PA009Drift, PA009Matches, ApprovedMechanisms
<1>10. Admissible(grant, request)
  <2> USE <1>4, <1>5, <1>6, <1>7 DEF Admissible, ApprovedScopes
  <2>1. CASE request.operation = "repository.write"
    BY <2>1 DEF PathOperations
  <2>2. CASE request.operation = "validation.pytest"
    BY <2>2
  <2>3. CASE request.operation = "git.push.current_upstream"
    BY <2>3 DEF GitPreconditionsFailed, GitOperations
  <2>4. CASE request.operation = "pa005.inbox.read"
    BY <2>4 DEF PA005ControlsMissing, PA005Operations
  <2>5. CASE request.operation = "pa009.preflight"
    BY <1>9, <2>5 DEF PA009Operations
  <2>6. CASE request.operation = "pa009.dispatch"
    BY <1>9, <2>6 DEF PA009Operations
  <2>7. QED
    BY <1>8, <2>1, <2>2, <2>3, <2>4, <2>5, <2>6
       DEF DelegatedOperations, PathOperations, ValidationOperations, GitOperations, PA005Operations,
           PA009Operations
<1>11. QED
  BY <1>1, <1>2, <1>10

(***************************************************************************)
(* The two transactions that write a claim.                                *)
(***************************************************************************)

LEMMA ClaimInsertedStep ==
  ASSUME DelegationInv, NEW g \in GrantIds, NEW operation \in OperationIds, NEW request \in Requests,
         NEW instant, ClaimInserted(g, operation, request, instant)
  PROVE  /\ grants[g].state = "active"
         /\ claims' \in [OperationIds -> ClaimRow]
         /\ AdmittedWithinGrant' /\ ClaimsFinite'
         /\ \A h \in GrantIds : CountsTell(h)'
<1>1. /\ DelegationTypes /\ GrantsConstructed /\ ClaimsFinite /\ AdmittedWithinGrant
      /\ \A h \in GrantIds : CountsTell(h)
  BY DEF DelegationInv
<1>2. /\ claims[operation] = NoClaim /\ ~ Denied(g, request, instant)
      /\ Audit(g, "operation_claimed")
      /\ claims' = [claims EXCEPT ![operation] = [state |-> "claimed", grant |-> g, bound |-> "claimed",
                      admissible |-> Admissible(grants[g].grant, request)]]
  BY DEF ClaimInserted
<1>3. grants[g].state = "active" /\ Admissible(grants[g].grant, request) = TRUE
  BY <1>1, <1>2, AdmittedIsAdmissible, Zenon
<1>4. claims' = [claims EXCEPT ![operation] = [state |-> "claimed", grant |-> g, bound |-> "claimed",
                   admissible |-> TRUE]]
  BY <1>2, <1>3
<1>5. claims \in [OperationIds -> ClaimRow]
  BY <1>1 DEF DelegationTypes
<1>6. claims' \in [OperationIds -> ClaimRow]
  <2>1. [state |-> "claimed", grant |-> g, bound |-> "claimed", admissible |-> TRUE] \in ClaimRow
    BY DEF ClaimRow
  <2>2. QED
    BY <1>4, <1>5, <2>1
<1>7. /\ \A o \in OperationIds : o # operation => claims'[o] = claims[o]
      /\ claims'[operation].state = "claimed" /\ claims'[operation].grant = g
      /\ claims'[operation].bound = "claimed" /\ claims'[operation].admissible
  BY <1>4, <1>5
<1>8. claims[operation].bound = "none"
  BY <1>2, ClaimShapes
<1>9. AdmittedWithinGrant'
  BY <1>1, <1>7 DEF AdmittedWithinGrant
<1>10. /\ ClaimsOf(g)' = ClaimsOf(g) \cup {operation} /\ CompletedOf(g)' = CompletedOf(g)
       /\ operation \notin ClaimsOf(g)
  BY <1>7, <1>8 DEF ClaimsOf, CompletedOf
<1>11. \A h \in GrantIds : h # g => ClaimsOf(h)' = ClaimsOf(h) /\ CompletedOf(h)' = CompletedOf(h)
  BY <1>7, <1>8 DEF ClaimsOf, CompletedOf
<1>12. ClaimsFinite'
  <2>1. ASSUME NEW h \in GrantIds PROVE IsFiniteSet(ClaimsOf(h)')
    BY <1>1, <1>10, <1>11, FS_AddElement DEF ClaimsFinite
  <2>2. QED
    BY <2>1 DEF ClaimsFinite
<1>13. Cardinality(ClaimsOf(g)') = Cardinality(ClaimsOf(g)) + 1
  BY <1>1, <1>10, FS_AddElement DEF ClaimsFinite
<1>14. "operation_claimed" \in Events /\ "operation_completed" \in Events
  BY DEF Events
<1>15. ASSUME NEW h \in GrantIds PROVE CountsTell(h)'
  <2>1. /\ IF h = g THEN Occurrences(h, "operation_claimed")' = Occurrences(h, "operation_claimed") + 1
           ELSE Occurrences(h, "operation_claimed")' = Occurrences(h, "operation_claimed")
        /\ Occurrences(h, "operation_completed")' = Occurrences(h, "operation_completed")
    BY <1>1, <1>2, <1>14, AuditStep
  <2>2. CountsTell(h)
    BY <1>1
  <2>3. Occurrences(h, "operation_completed")' = Cardinality(CompletedOf(h)')
    BY <1>10, <1>11, <2>1, <2>2 DEF CountsTell
  <2>4. Occurrences(h, "operation_claimed")' = Cardinality(ClaimsOf(h)')
    BY <1>10, <1>11, <1>13, <2>1, <2>2 DEF CountsTell
  <2>5. QED
    BY <2>3, <2>4 DEF CountsTell
<1>16. QED
  BY <1>3, <1>6, <1>9, <1>12, <1>15

LEMMA CompleteStep ==
  ASSUME DelegationInv, NEW s \in Sessions, Complete(s)
  PROVE  /\ grants[sessions[s].grant].state = "active"
         /\ claims' \in [OperationIds -> ClaimRow]
         /\ AdmittedWithinGrant' /\ ClaimsFinite'
         /\ \A h \in GrantIds : CountsTell(h)'
<1>1. /\ DelegationTypes /\ ClaimsFinite /\ AdmittedWithinGrant
      /\ \A h \in GrantIds : CountsTell(h)
  BY DEF DelegationInv
<1>2. PICK g \in GrantIds, operation \in OperationIds :
        g = sessions[s].grant /\ operation = sessions[s].operation
  BY <1>1 DEF DelegationTypes, Session
<1>3. /\ Executable(g, operation, sessions[s].instant) /\ Audit(g, "operation_completed")
      /\ claims' = [claims EXCEPT ![operation].state = "completed", ![operation].bound = "completed"]
  BY <1>2, Zenon DEF Complete
<1>4. grants[g].state = "active"
  BY <1>3 DEF Executable, Live
<1>5. claims[operation].grant = g /\ claims[operation].state = "claimed" /\ claims[operation].bound # "none"
  BY <1>3, Zenon DEF Executable, Under, IntegrityVerified
<1>6. claims \in [OperationIds -> ClaimRow]
  BY <1>1 DEF DelegationTypes
<1>7. /\ \A o \in OperationIds : o # operation => claims'[o] = claims[o]
      /\ claims'[operation].state = "completed" /\ claims'[operation].grant = g
      /\ claims'[operation].bound = "completed" /\ claims'[operation].admissible = claims[operation].admissible
      /\ claims' \in [OperationIds -> ClaimRow]
  BY <1>3, <1>5, <1>6 DEF ClaimRow
<1>8. AdmittedWithinGrant'
  BY <1>1, <1>7 DEF AdmittedWithinGrant
<1>9. \A h \in GrantIds : ClaimsOf(h)' = ClaimsOf(h)
  BY <1>5, <1>7 DEF ClaimsOf
<1>10. CompletedOf(g)' = CompletedOf(g) \cup {operation} /\ operation \notin CompletedOf(g)
  BY <1>5, <1>7 DEF ClaimsOf, CompletedOf
<1>11. \A h \in GrantIds : h # g => CompletedOf(h)' = CompletedOf(h)
  BY <1>5, <1>7 DEF ClaimsOf, CompletedOf
<1>12. ClaimsFinite'
  BY <1>1, <1>9 DEF ClaimsFinite
<1>13. Cardinality(CompletedOf(g)') = Cardinality(CompletedOf(g)) + 1
  <2>1. CompletedOf(g) \subseteq ClaimsOf(g) /\ IsFiniteSet(ClaimsOf(g))
    BY <1>1 DEF CompletedOf, ClaimsFinite
  <2>2. IsFiniteSet(CompletedOf(g))
    BY <2>1, FS_Subset, Zenon
  <2>3. QED
    BY <1>10, <2>2, FS_AddElement
<1>14. "operation_claimed" \in Events /\ "operation_completed" \in Events
  BY DEF Events
<1>15. ASSUME NEW h \in GrantIds PROVE CountsTell(h)'
  <2>1. /\ IF h = g THEN Occurrences(h, "operation_completed")' = Occurrences(h, "operation_completed") + 1
           ELSE Occurrences(h, "operation_completed")' = Occurrences(h, "operation_completed")
        /\ Occurrences(h, "operation_claimed")' = Occurrences(h, "operation_claimed")
    BY <1>1, <1>3, <1>14, AuditStep
  <2>2. CountsTell(h)
    BY <1>1
  <2>3. Occurrences(h, "operation_claimed")' = Cardinality(ClaimsOf(h)')
    BY <1>9, <2>1, <2>2 DEF CountsTell
  <2>4. Occurrences(h, "operation_completed")' = Cardinality(CompletedOf(h)')
    BY <1>10, <1>11, <1>13, <2>1, <2>2 DEF CountsTell
  <2>5. QED
    BY <2>3, <2>4 DEF CountsTell
<1>16. QED
  BY <1>2, <1>4, <1>7, <1>8, <1>12, <1>15

(***************************************************************************)
(* The story a trail tells.                                                *)
(***************************************************************************)

\* An event of an operation, written while the tables of the grants stay as they are.
LEMMA OperationAudited ==
  ASSUME DelegationInv, NEW g \in GrantIds,
         NEW event \in {"operation_denied", "operation_claimed", "operation_completed"},
         Audit(g, event), UNCHANGED grants, grants[g].state # "none",
         event = "operation_denied" \/ grants[g].state = "active"
  PROVE  \A h \in GrantIds : StoryTold(h)'
<1>1. DelegationTypes /\ \A h \in GrantIds : StoryTold(h)
  BY DEF DelegationInv
<1>2. event \in Events /\ event # "grant_activated" /\ event \notin {"grant_revoked", "grant_killed"}
  BY DEF Events
<1>3. trail'[g] = Append(trail[g], event) /\ \A h \in GrantIds : h # g => trail'[h] = trail[h]
  BY <1>1, <1>2, AuditStep, Zenon
<1>4. PICK t \in Seq(Events) : t = trail[g]
  BY <1>1 DEF DelegationTypes
<1>5. t # <<>> /\ Ordered(t) /\ (HasEnded(t) => grants[g].state \in TerminalStates)
  BY <1>1, <1>4 DEF StoryTold
<1>6. event = "operation_denied" \/ ~ HasEnded(t)
  BY <1>5 DEF TerminalStates
<1>7. Append(t, event) # <<>> /\ Ordered(Append(t, event)) /\ (HasEnded(Append(t, event)) <=> HasEnded(t))
  BY <1>2, <1>5, <1>6, OrderedAppend, Zenon
<1>8. trail'[g] = Append(t, event)
  BY <1>3, <1>4
<1>9. StoryTold(g)'
  BY <1>5, <1>7, <1>8 DEF StoryTold
<1>10. ASSUME NEW h \in GrantIds, h # g PROVE StoryTold(h)'
  <2>1. StoryTold(h) /\ trail'[h] = trail[h]
    BY <1>1, <1>3, <1>10
  <2>2. QED
    BY <2>1 DEF StoryTold
<1>11. QED
  BY <1>9, <1>10

\* A grant that is activated, revoked or killed.
LEMMA GrantAudited ==
  ASSUME DelegationInv, NEW g \in GrantIds,
         NEW event \in {"grant_activated", "grant_revoked", "grant_killed"}, Audit(g, event),
         \A h \in GrantIds : h # g => grants'[h] = grants[h],
         IF event = "grant_activated" THEN grants[g].state = "none" /\ grants'[g].state = "active"
         ELSE grants[g].state = "active" /\ grants'[g].state \in TerminalStates
  PROVE  \A h \in GrantIds : StoryTold(h)'
<1>1. DelegationTypes /\ \A h \in GrantIds : StoryTold(h)
  BY DEF DelegationInv
<1>2. event \in Events
  BY DEF Events
<1>3. trail'[g] = Append(trail[g], event) /\ \A h \in GrantIds : h # g => trail'[h] = trail[h]
  BY <1>1, <1>2, AuditStep, Zenon
<1>4. PICK t \in Seq(Events) : t = trail[g]
  BY <1>1 DEF DelegationTypes
<1>5. /\ grants[g].state = "none" <=> t = <<>>
      /\ Ordered(t) /\ (HasEnded(t) => grants[g].state \in TerminalStates)
  BY <1>1, <1>4 DEF StoryTold
<1>6. trail'[g] = Append(t, event)
  BY <1>3, <1>4
<1>7. ASSUME event = "grant_activated" PROVE StoryTold(g)'
  <2>1. t = <<>>
    BY <1>5, <1>7
  <2>2. trail'[g] = <<event>>
    BY <1>6, <2>1
  <2>3. Ordered(<<event>>) /\ ~ HasEnded(<<event>>) /\ <<event>> # <<>>
    BY <1>7 DEF Ordered, HasEnded
  <2>4. QED
    BY <1>7, <2>2, <2>3 DEF StoryTold
<1>8. ASSUME event # "grant_activated" PROVE StoryTold(g)'
  <2>1. t # <<>> /\ ~ HasEnded(t)
    BY <1>5, <1>8 DEF TerminalStates
  <2>2. Append(t, event) # <<>> /\ Ordered(Append(t, event))
    BY <1>2, <1>5, <1>8, <2>1, OrderedAppend, Zenon
  <2>3. grants'[g].state # "none" /\ grants'[g].state \in TerminalStates
    BY <1>8 DEF TerminalStates
  <2>4. QED
    BY <1>6, <2>2, <2>3 DEF StoryTold
<1>9. ASSUME NEW h \in GrantIds, h # g PROVE StoryTold(h)'
  <2>1. StoryTold(h) /\ trail'[h] = trail[h] /\ grants'[h] = grants[h]
    BY <1>1, <1>3, <1>9
  <2>2. QED
    BY <2>1 DEF StoryTold
<1>10. StoryTold(g)'
  BY <1>7, <1>8
<1>11. QED
  BY <1>9, <1>10

\* Whoever does not write a claim leaves the counts to an event that is not counted.
LEMMA CountsKept ==
  ASSUME DelegationInv, NEW g \in GrantIds, UNCHANGED claims,
         NEW event \in {"grant_activated", "grant_revoked", "grant_killed", "operation_denied"},
         Audit(g, event)
  PROVE  \A h \in GrantIds : CountsTell(h)'
<1>1. DelegationTypes /\ \A h \in GrantIds : CountsTell(h)
  BY DEF DelegationInv
<1>2. event \in Events /\ "operation_claimed" \in Events /\ "operation_completed" \in Events
  BY DEF Events
<1>3. ASSUME NEW h \in GrantIds PROVE CountsTell(h)'
  <2>1. /\ Occurrences(h, "operation_claimed")' = Occurrences(h, "operation_claimed")
        /\ Occurrences(h, "operation_completed")' = Occurrences(h, "operation_completed")
    BY <1>1, <1>2, AuditStep
  <2>2. ClaimsOf(h)' = ClaimsOf(h) /\ CompletedOf(h)' = CompletedOf(h)
    BY DEF ClaimsOf, CompletedOf
  <2>3. CountsTell(h)
    BY <1>1
  <2>4. QED
    BY <2>1, <2>2, <2>3 DEF CountsTell
<1>4. QED
  BY <1>3

(***************************************************************************)
(* Every step of the delegation keeps its invariant.                       *)
(***************************************************************************)

\* A step that writes no table: only sessions, what they were told, or the day.
LEMMA TablesKept ==
  ASSUME DelegationInv, UNCHANGED <<grants, claims, trail>>, DelegationTypes',
         \A s \in Sessions : sessions'[s].step # "idle" =>
             \/ sessions[s].step # "idle" /\ sessions'[s].grant = sessions[s].grant
             \/ grants[sessions'[s].grant].state # "none"
  PROVE  DelegationInv'
<1>1. GrantsConstructed'
  BY DEF DelegationInv, GrantsConstructed
<1>2. ASSUME NEW h \in GrantIds
      PROVE  /\ ClaimsOf(h)' = ClaimsOf(h) /\ CompletedOf(h)' = CompletedOf(h)
             /\ Occurrences(h, "operation_claimed")' = Occurrences(h, "operation_claimed")
             /\ Occurrences(h, "operation_completed")' = Occurrences(h, "operation_completed")
  BY DEF ClaimsOf, CompletedOf, Occurrences
<1>3. ClaimsFinite' /\ AdmittedWithinGrant'
  BY <1>2 DEF DelegationInv, ClaimsFinite, AdmittedWithinGrant
<1>4. ASSUME NEW h \in GrantIds PROVE CountsTell(h)' /\ StoryTold(h)'
  BY <1>2 DEF DelegationInv, CountsTell, StoryTold
<1>5. QED
  BY <1>1, <1>3, <1>4 DEF DelegationInv

LEMMA ActivateKeeps ==
  ASSUME DelegationInv, NEW g \in GrantIds, NEW grant \in Drafts, Activate(g, grant)
  PROVE  DelegationInv'
<1>1. /\ GrantValid(grant) /\ grants[g].state = "none" /\ Audit(g, "grant_activated")
      /\ grants' = [grants EXCEPT ![g] = [state |-> "active", grant |-> grant]]
      /\ UNCHANGED <<claims, sessions, reported, today>>
  BY DEF Activate
<1>2. DelegationTypes /\ GrantsConstructed
  BY DEF DelegationInv
<1>3. grant \in Grant
  BY DraftsTyped
<1>4. /\ grants' \in [GrantIds -> [state : GrantStates, grant : Grant]]
      /\ grants'[g].state = "active" /\ grants'[g].grant = grant
      /\ \A h \in GrantIds : h # g => grants'[h] = grants[h]
  BY <1>1, <1>2, <1>3 DEF DelegationTypes, GrantStates
<1>5. trail' \in [GrantIds -> Seq(Events)]
  BY <1>1, <1>2, AuditStep DEF Events
<1>6. DelegationTypes'
  BY <1>1, <1>2, <1>4, <1>5 DEF DelegationTypes
<1>7. GrantsConstructed'
  <2>1. \A h \in GrantIds : grants'[h].state # "none" => GrantValid(grants'[h].grant)
    BY <1>1, <1>2, <1>4 DEF GrantsConstructed
  <2>2. \A s \in Sessions : sessions'[s].step # "idle" => grants'[sessions'[s].grant].state # "none"
    <3>1. \A s \in Sessions : sessions[s].grant \in GrantIds
      BY <1>2 DEF DelegationTypes, Session
    <3>2. \A h \in GrantIds : grants[h].state # "none" => grants'[h].state # "none"
      BY <1>4
    <3>3. QED
      BY <1>1, <1>2, <3>1, <3>2 DEF GrantsConstructed
  <2>3. QED
    BY <2>1, <2>2 DEF GrantsConstructed
<1>8. \A h \in GrantIds : CountsTell(h)'
  BY <1>1, CountsKept
<1>9. \A h \in GrantIds : StoryTold(h)'
  BY <1>1, <1>4, GrantAudited
<1>10. ClaimsFinite' /\ AdmittedWithinGrant'
  BY <1>1 DEF DelegationInv, ClaimsFinite, ClaimsOf, AdmittedWithinGrant
<1>11. QED
  BY <1>6, <1>7, <1>8, <1>9, <1>10 DEF DelegationInv

LEMMA TerminalKeeps ==
  ASSUME DelegationInv, NEW g \in GrantIds, NEW state \in TerminalStates, Terminal(g, state)
  PROVE  DelegationInv'
<1> DEFINE event == IF state = "revoked" THEN "grant_revoked" ELSE "grant_killed"
<1>1. /\ grants[g].state = "active" /\ grants' = [grants EXCEPT ![g].state = state]
      /\ Audit(g, event) /\ UNCHANGED <<claims, sessions, reported, today>>
  BY DEF Terminal
<1>2. DelegationTypes /\ GrantsConstructed
  BY DEF DelegationInv
<1>3. event \in {"grant_revoked", "grant_killed"} /\ event \in Events
  BY DEF Events
<1>4. /\ grants' \in [GrantIds -> [state : GrantStates, grant : Grant]]
      /\ grants'[g].state = state /\ grants'[g].grant = grants[g].grant
      /\ \A h \in GrantIds : h # g => grants'[h] = grants[h]
  BY <1>1, <1>2 DEF DelegationTypes, GrantStates, TerminalStates
<1> HIDE DEF event
<1>5. trail' \in [GrantIds -> Seq(Events)]
  BY <1>1, <1>2, <1>3, AuditStep
<1>6. DelegationTypes'
  BY <1>1, <1>2, <1>4, <1>5 DEF DelegationTypes
<1>7. GrantsConstructed'
  <2>1. \A h \in GrantIds : grants[h].state # "none" <=> grants'[h].state # "none"
    BY <1>1, <1>4 DEF TerminalStates
  <2>2. \A h \in GrantIds : grants'[h].grant = grants[h].grant
    BY <1>4
  <2>3. \A s \in Sessions : sessions[s].grant \in GrantIds
    BY <1>2 DEF DelegationTypes, Session
  <2>4. QED
    BY <1>1, <1>2, <2>1, <2>2, <2>3 DEF GrantsConstructed
<1>8. \A h \in GrantIds : CountsTell(h)'
  BY <1>1, <1>3, CountsKept
<1>9. \A h \in GrantIds : StoryTold(h)'
  BY <1>1, <1>3, <1>4, GrantAudited
<1>10. ClaimsFinite' /\ AdmittedWithinGrant'
  BY <1>1 DEF DelegationInv, ClaimsFinite, ClaimsOf, AdmittedWithinGrant
<1>11. QED
  BY <1>6, <1>7, <1>8, <1>9, <1>10 DEF DelegationInv

\* The claim transaction, whoever runs it: sessions stay with the grants they resolved.
LEMMA ClaimKeeps ==
  ASSUME DelegationInv, NEW g \in GrantIds, NEW operation \in OperationIds, NEW request \in Requests,
         NEW instant, grants[g].state # "none", UNCHANGED <<grants, reported, today>>,
         ClaimDenied(g, request, instant) \/ ClaimInserted(g, operation, request, instant),
         sessions' \in [Sessions -> Session],
         \A s \in Sessions : sessions'[s].step # "idle" =>
             sessions[s].step # "idle" /\ sessions'[s].grant = sessions[s].grant
  PROVE  DelegationInv'
<1>1. DelegationTypes /\ GrantsConstructed
  BY DEF DelegationInv
<1>2. GrantsConstructed'
  BY <1>1 DEF GrantsConstructed
<1>3. CASE ClaimDenied(g, request, instant)
  <2>1. Audit(g, "operation_denied") /\ UNCHANGED claims
    BY <1>3 DEF ClaimDenied
  <2>2. trail' \in [GrantIds -> Seq(Events)]
    BY <1>1, <2>1, AuditStep DEF Events
  <2>3. DelegationTypes'
    BY <1>1, <2>1, <2>2 DEF DelegationTypes
  <2>4. \A h \in GrantIds : CountsTell(h)'
    BY <2>1, CountsKept
  <2>5. \A h \in GrantIds : StoryTold(h)'
    BY <2>1, OperationAudited
  <2>6. ClaimsFinite' /\ AdmittedWithinGrant'
    BY <2>1 DEF DelegationInv, ClaimsFinite, ClaimsOf, AdmittedWithinGrant
  <2>7. QED
    BY <1>2, <2>3, <2>4, <2>5, <2>6 DEF DelegationInv
<1>4. CASE ClaimInserted(g, operation, request, instant)
  <2>1. Audit(g, "operation_claimed")
    BY <1>4 DEF ClaimInserted
  <2>2. /\ grants[g].state = "active" /\ claims' \in [OperationIds -> ClaimRow]
        /\ AdmittedWithinGrant' /\ ClaimsFinite' /\ \A h \in GrantIds : CountsTell(h)'
    BY <1>4, ClaimInsertedStep, Zenon
  <2>3. trail' \in [GrantIds -> Seq(Events)]
    BY <1>1, <2>1, AuditStep DEF Events
  <2>4. DelegationTypes'
    BY <1>1, <2>2, <2>3 DEF DelegationTypes
  <2>5. \A h \in GrantIds : StoryTold(h)'
    BY <2>1, <2>2, OperationAudited
  <2>6. QED
    BY <1>2, <2>2, <2>4, <2>5 DEF DelegationInv
<1>5. QED
  BY <1>3, <1>4

LEMMA CliClaimKeeps ==
  ASSUME DelegationInv, NEW s \in Sessions, NEW operation \in OperationIds, NEW request \in Requests,
         CliClaim(s, operation, request)
  PROVE  DelegationInv'
<1>1. DelegationTypes /\ GrantsConstructed
  BY DEF DelegationInv
<1>2. PICK g \in GrantIds, instant \in DelegationDays :
        g = sessions[s].grant /\ instant = sessions[s].instant
  BY <1>1 DEF DelegationTypes, Session
<1>3. /\ sessions[s].step = "resolved" /\ UNCHANGED <<grants, reported, today>>
      /\ \/ /\ ClaimDenied(g, request, instant)
            /\ sessions' = [sessions EXCEPT ![s] = IdleSession]
         \/ /\ ClaimInserted(g, operation, request, instant)
            /\ sessions' = [sessions EXCEPT ![s].step = "claimed", ![s].operation = operation]
  BY <1>2, Zenon DEF CliClaim
<1>4. grants[g].state # "none"
  BY <1>1, <1>2, <1>3 DEF GrantsConstructed
<1>5. sessions \in [Sessions -> Session]
  BY <1>1 DEF DelegationTypes
<1>6. sessions' \in [Sessions -> Session]
  BY <1>3, <1>5, IdleSessionShape DEF Session
<1>7. \A u \in Sessions : sessions'[u].step # "idle" =>
        sessions[u].step # "idle" /\ sessions'[u].grant = sessions[u].grant
  BY <1>3, <1>5, IdleSessionShape DEF Session
<1>8. ClaimDenied(g, request, instant) \/ ClaimInserted(g, operation, request, instant)
  BY <1>3
<1>9. UNCHANGED <<grants, reported, today>>
  BY <1>3
<1>10. QED
  BY <1>4, <1>6, <1>7, <1>8, <1>9, ClaimKeeps, Zenon

LEMMA CompleteKeeps ==
  ASSUME DelegationInv, NEW s \in Sessions, Complete(s)
  PROVE  DelegationInv'
<1>1. DelegationTypes /\ GrantsConstructed
  BY DEF DelegationInv
<1>2. PICK g \in GrantIds : g = sessions[s].grant
  BY <1>1 DEF DelegationTypes, Session
<1>3. /\ Audit(g, "operation_completed") /\ sessions' = [sessions EXCEPT ![s] = IdleSession]
      /\ UNCHANGED <<grants, reported, today>>
  BY <1>2, Zenon DEF Complete
<1>4. /\ grants[g].state = "active" /\ claims' \in [OperationIds -> ClaimRow]
      /\ AdmittedWithinGrant' /\ ClaimsFinite' /\ \A h \in GrantIds : CountsTell(h)'
  BY <1>2, CompleteStep, Zenon
<1>5. trail' \in [GrantIds -> Seq(Events)]
  BY <1>1, <1>3, AuditStep DEF Events
<1>6. DelegationTypes'
  BY <1>1, <1>3, <1>4, <1>5, IdleSessionShape DEF DelegationTypes
<1>7. GrantsConstructed'
  <2>1. sessions \in [Sessions -> Session]
    BY <1>1 DEF DelegationTypes
  <2>2. \A u \in Sessions : sessions'[u].step # "idle" => sessions'[u] = sessions[u]
    BY <1>3, <2>1, IdleSessionShape
  <2>3. QED
    BY <1>1, <1>3, <2>2 DEF GrantsConstructed
<1>8. \A h \in GrantIds : StoryTold(h)'
  BY <1>3, <1>4, OperationAudited
<1>9. QED
  BY <1>4, <1>6, <1>7, <1>8 DEF DelegationInv

\* Resolve, the two reads, the report of a claim, and the end of a command.
LEMMA SessionKeeps ==
  ASSUME DelegationInv, NEW s \in Sessions,
         \/ Resolve(s, Owner("feature/a")) \/ ConfirmClaim(s) \/ ValidateClaim(s) \/ EndCommand(s)
         \/ \E operation \in OperationIds : ReadRecord(s, operation)
  PROVE  DelegationInv'
<1>1. DelegationTypes
  BY DEF DelegationInv
<1>2. sessions \in [Sessions -> Session]
  BY <1>1 DEF DelegationTypes
<1>3. CASE Resolve(s, Owner("feature/a"))
  <2>1. PICK g \in GrantIds :
          /\ {h \in GrantIds : Live(h, today) /\ grants[h].grant.binding = Owner("feature/a")} = {g}
          /\ sessions' = [sessions EXCEPT ![s] =
                [IdleSession EXCEPT !.step = "resolved", !.grant = g, !.instant = today]]
    BY <1>3, Zenon DEF Resolve
  <2>2. UNCHANGED <<grants, claims, trail, reported, today>>
    BY <1>3 DEF Resolve
  <2>3. Live(g, today)
    BY <2>1
  <2>4. grants[g].state # "none"
    BY <2>3 DEF Live
  <2>5. PICK first \in Session : first = [IdleSession EXCEPT !.step = "resolved"]
    BY IdleSessionShape DEF Session
  <2>6. PICK second \in Session : second = [first EXCEPT !.grant = g]
    BY DEF Session
  <2>7. PICK third \in Session : third = [second EXCEPT !.instant = today]
    BY <1>1 DEF DelegationTypes, Session
  <2>8. third = [IdleSession EXCEPT !.step = "resolved", !.grant = g, !.instant = today]
    BY <2>5, <2>6, <2>7
  <2>9. third.grant = g
    BY <2>6, <2>7 DEF Session
  <2>10. sessions' \in [Sessions -> Session] /\ sessions'[s] = third
         /\ \A u \in Sessions : u # s => sessions'[u] = sessions[u]
    BY <1>2, <2>1, <2>8
  <2>11. DelegationTypes'
    BY <1>1, <2>2, <2>10 DEF DelegationTypes
  <2>12. \A u \in Sessions : sessions'[u].step # "idle" =>
            \/ sessions[u].step # "idle" /\ sessions'[u].grant = sessions[u].grant
            \/ grants[sessions'[u].grant].state # "none"
    BY <2>4, <2>9, <2>10
  <2>13. UNCHANGED <<grants, claims, trail>>
    BY <2>2
  <2>14. QED
    BY <2>11, <2>12, <2>13, TablesKept, Zenon
<1>4. CASE ConfirmClaim(s) \/ ValidateClaim(s) \/ EndCommand(s)
           \/ \E operation \in OperationIds : ReadRecord(s, operation)
  <2>1. UNCHANGED <<grants, claims, trail, today>>
    BY <1>4 DEF ConfirmClaim, ValidateClaim, EndCommand, ReadRecord
  <2>2. /\ sessions[s].step # "idle"
        /\ \/ sessions' = [sessions EXCEPT ![s] = IdleSession]
           \/ sessions' = [sessions EXCEPT ![s].step = "validated"]
           \/ \E operation \in OperationIds :
                sessions' = [sessions EXCEPT ![s].step = "recorded", ![s].operation = operation]
    BY <1>4 DEF ConfirmClaim, ValidateClaim, EndCommand, ReadRecord
  <2>3. sessions' \in [Sessions -> Session]
    BY <1>2, <2>2, IdleSessionShape DEF Session
  <2>4. reported' \subseteq OperationIds
    <3>1. reported \subseteq OperationIds /\ sessions[s].operation \in OperationIds
      BY <1>1 DEF DelegationTypes, Session
    <3>2. reported' = reported \/ reported' \subseteq reported \cup {sessions[s].operation}
      BY <1>4 DEF ConfirmClaim, ValidateClaim, EndCommand, ReadRecord
    <3>3. QED
      BY <3>1, <3>2
  <2>5. DelegationTypes'
    BY <1>1, <2>1, <2>3, <2>4 DEF DelegationTypes
  <2>6. \A u \in Sessions : sessions'[u].step # "idle" =>
            sessions[u].step # "idle" /\ sessions'[u].grant = sessions[u].grant
    BY <1>2, <2>2, IdleSessionShape DEF Session
  <2>7. UNCHANGED <<grants, claims, trail>>
    BY <2>1
  <2>8. QED
    BY <2>5, <2>6, <2>7, TablesKept, Zenon
<1>5. QED
  BY <1>3, <1>4

LEMMA DelegationStep == DelegationInv /\ [DelegationNext]_delegationVars => DelegationInv'
<1> SUFFICES ASSUME DelegationInv, [DelegationNext]_delegationVars PROVE DelegationInv'
  OBVIOUS
<1>1. DelegationTypes
  BY DEF DelegationInv
<1>2. ASSUME NEW g \in GrantIds, NEW grant \in Drafts, Activate(g, grant) PROVE DelegationInv'
  BY <1>2, ActivateKeeps
<1>3. ASSUME NEW g \in GrantIds, Revoke(g, "owner") \/ EngageKillSwitch(g) PROVE DelegationInv'
  <2>1. \E state \in TerminalStates : Terminal(g, state)
    BY <1>3 DEF Revoke, EngageKillSwitch, TerminalStates
  <2>2. QED
    BY <2>1, TerminalKeeps, Zenon
<1>4. ASSUME NEW g \in GrantIds, NEW operation \in OperationIds, NEW request \in Requests,
             StoreClaim(g, operation, request)
      PROVE  DelegationInv'
  <2>1. PICK instant : instant = today
    OBVIOUS
  <2>2. /\ grants[g].state # "none" /\ UNCHANGED <<grants, reported, today>> /\ UNCHANGED sessions
        /\ ClaimDenied(g, request, instant) \/ ClaimInserted(g, operation, request, instant)
    BY <1>4, <2>1 DEF StoreClaim
  <2>3. sessions' \in [Sessions -> Session]
    BY <1>1, <2>2 DEF DelegationTypes
  <2>4. \A s \in Sessions : sessions'[s].step # "idle" =>
            sessions[s].step # "idle" /\ sessions'[s].grant = sessions[s].grant
    BY <2>2
  <2>5. QED
    BY <2>2, <2>3, <2>4, ClaimKeeps, Zenon
<1>5. ASSUME NEW s \in Sessions, NEW operation \in OperationIds, NEW request \in Requests,
             CliClaim(s, operation, request)
      PROVE  DelegationInv'
  BY <1>5, CliClaimKeeps
<1>6. ASSUME NEW s \in Sessions, Complete(s) PROVE DelegationInv'
  BY <1>6, CompleteKeeps
<1>7. CASE NewDay \/ UNCHANGED delegationVars
  <2>1. UNCHANGED <<grants, claims, trail>> /\ UNCHANGED sessions /\ UNCHANGED reported
    BY <1>7 DEF NewDay, delegationVars
  <2>2. today' \in DelegationDays
    BY <1>1, <1>7, DelegationAssumption DEF NewDay, delegationVars, DelegationTypes, DelegationDays
  <2>3. DelegationTypes'
    BY <1>1, <2>1, <2>2 DEF DelegationTypes
  <2>4. \A s \in Sessions : sessions'[s].step # "idle" =>
            sessions[s].step # "idle" /\ sessions'[s].grant = sessions[s].grant
    BY <2>1
  <2>5. UNCHANGED <<grants, claims, trail>>
    BY <2>1
  <2>6. QED
    BY <2>3, <2>4, <2>5, TablesKept, Zenon
<1>8. QED
  BY <1>2, <1>3, <1>4, <1>5, <1>6, <1>7, SessionKeeps, Zenon DEF DelegationNext

(***************************************************************************)
(* A grant that has ended.                                                 *)
(***************************************************************************)

\* What a step may do to the claims and reports of grant g once it has ended.
Frozen(g) ==
    /\ grants'[g] = grants[g]
    /\ \A o \in OperationIds :
        /\ Under(claims[o], g) \/ Under(claims'[o], g) => claims'[o] = claims[o]
        /\ o \in reported' \ reported => ~ Under(claims[o], g)

LEMMA ClaimElsewhere ==
  ASSUME DelegationInv, NEW g \in GrantIds, grants[g].state \in TerminalStates,
         NEW h \in GrantIds, NEW operation \in OperationIds, NEW request, NEW instant,
         ClaimDenied(h, request, instant) \/ ClaimInserted(h, operation, request, instant),
         UNCHANGED <<grants, reported, today>>
  PROVE  Frozen(g)
<1>1. claims \in [OperationIds -> ClaimRow]
  BY DEF DelegationInv, DelegationTypes
<1>2. CASE ClaimDenied(h, request, instant)
  BY <1>2 DEF ClaimDenied, Frozen
<1>3. CASE ClaimInserted(h, operation, request, instant)
  <2>1. PICK admissible : admissible = Admissible(grants[h].grant, request)
    OBVIOUS
  <2>2. /\ claims[operation] = NoClaim /\ grants[h].state = "active"
        /\ claims' = [claims EXCEPT ![operation] = [state |-> "claimed", grant |-> h, bound |-> "claimed",
                        admissible |-> admissible]]
    BY <1>3, <2>1, Zenon DEF ClaimInserted, Denied, Live
  <2>3. h # g
    BY <2>2 DEF TerminalStates
  <2>4. /\ \A o \in OperationIds : o # operation => claims'[o] = claims[o]
        /\ claims'[operation].grant = h /\ claims[operation].state = "none"
    BY <1>1, <2>2, ClaimShapes
  <2>5. QED
    BY <2>3, <2>4 DEF Frozen, Under
<1>4. QED
  BY <1>2, <1>3

LEMMA FrozenStep ==
  ASSUME DelegationInv, DelegationNext, NEW g \in GrantIds, grants[g].state \in TerminalStates
  PROVE  Frozen(g)
<1>1. DelegationTypes
  BY DEF DelegationInv
<1>2. ASSUME NEW h \in GrantIds, NEW grant \in Drafts, Activate(h, grant) PROVE Frozen(g)
  <2>1. h # g
    BY <1>2 DEF Activate, TerminalStates
  <2>2. QED
    BY <1>1, <1>2, <2>1 DEF Activate, DelegationTypes, Frozen
<1>3. ASSUME NEW h \in GrantIds, Revoke(h, "owner") \/ EngageKillSwitch(h) PROVE Frozen(g)
  <2>1. h # g
    BY <1>3 DEF Revoke, EngageKillSwitch, Terminal, TerminalStates
  <2>2. QED
    BY <1>1, <1>3, <2>1 DEF Revoke, EngageKillSwitch, Terminal, DelegationTypes, Frozen
<1>4. ASSUME NEW h \in GrantIds, NEW operation \in OperationIds, NEW request \in Requests,
             StoreClaim(h, operation, request)
      PROVE  Frozen(g)
  <2>1. ClaimDenied(h, request, today) \/ ClaimInserted(h, operation, request, today)
    BY <1>4 DEF StoreClaim
  <2>2. UNCHANGED <<grants, reported, today>>
    BY <1>4 DEF StoreClaim
  <2>3. QED
    BY <2>1, <2>2, ClaimElsewhere, Zenon
<1>5. ASSUME NEW s \in Sessions, NEW operation \in OperationIds, NEW request \in Requests,
             CliClaim(s, operation, request)
      PROVE  Frozen(g)
  <2>1. PICK h \in GrantIds : h = sessions[s].grant
    BY <1>1 DEF DelegationTypes, Session
  <2>2. \/ ClaimDenied(h, request, sessions[s].instant)
        \/ ClaimInserted(h, operation, request, sessions[s].instant)
    BY <1>5, <2>1, Zenon DEF CliClaim
  <2>3. UNCHANGED <<grants, reported, today>>
    BY <1>5 DEF CliClaim
  <2>4. QED
    BY <2>2, <2>3, ClaimElsewhere, Zenon
<1>6. ASSUME NEW s \in Sessions, Complete(s) PROVE Frozen(g)
  <2>1. PICK h \in GrantIds, operation \in OperationIds :
          h = sessions[s].grant /\ operation = sessions[s].operation
    BY <1>1 DEF DelegationTypes, Session
  <2>2. /\ Executable(h, operation, sessions[s].instant) /\ UNCHANGED <<grants, reported, today>>
        /\ claims' = [claims EXCEPT ![operation].state = "completed", ![operation].bound = "completed"]
    BY <1>6, <2>1, Zenon DEF Complete
  <2>3. grants[h].state = "active" /\ claims[operation].grant = h
    BY <2>2, Zenon DEF Executable, Live, Under
  <2>4. h # g
    BY <2>3 DEF TerminalStates
  <2>5. /\ \A o \in OperationIds : o # operation => claims'[o] = claims[o]
        /\ claims'[operation].grant = h
    BY <1>1, <2>2, <2>3 DEF DelegationTypes, ClaimRow
  <2>6. QED
    BY <2>2, <2>3, <2>4, <2>5 DEF Frozen, Under
<1>7. ASSUME NEW s \in Sessions, ConfirmClaim(s) PROVE Frozen(g)
  <2>1. PICK h \in GrantIds, instant \in DelegationDays :
          h = sessions[s].grant /\ instant = sessions[s].instant
    BY <1>1 DEF DelegationTypes, Session
  <2>2. UNCHANGED <<grants, claims, trail, today>>
    BY <1>7 DEF ConfirmClaim
  <2>3. \A o \in reported' \ reported : Executable(h, o, instant)
    BY <1>7, <2>1 DEF ConfirmClaim
  <2>4. \A o \in reported' \ reported : grants[h].state = "active" /\ claims[o].grant = h
    BY <2>3, Zenon DEF Executable, Live, Under
  <2>5. QED
    BY <2>2, <2>4 DEF Frozen, Under, TerminalStates
<1>8. ASSUME NEW s \in Sessions,
             \/ Resolve(s, Owner("feature/a")) \/ ValidateClaim(s) \/ EndCommand(s)
             \/ \E operation \in OperationIds : ReadRecord(s, operation)
      PROVE  Frozen(g)
  <2>1. UNCHANGED <<grants, claims, reported>>
    BY <1>8, Zenon DEF Resolve, ValidateClaim, EndCommand, ReadRecord
  <2>2. QED
    BY <2>1 DEF Frozen
<1>9. CASE NewDay
  BY <1>9 DEF NewDay, Frozen
<1>10. QED
  BY <1>2, <1>3, <1>4, <1>5, <1>6, <1>7, <1>8, <1>9, Zenon DEF DelegationNext

(***************************************************************************)
(* The delegation on its own.                                              *)
(***************************************************************************)
DelegationSpec == DelegationInit /\ [][DelegationNext]_delegationVars

\* Whatever commands overlap and whenever the owner ends a grant, the tables, the audit
\* chain and the requests that were admitted agree (delegation.py, delegation_cli.py).
THEOREM DelegationStands == DelegationSpec => []DelegationInv
<1>1. QED
  BY DelegationInitInv, DelegationStep, PTL DEF DelegationSpec

\* After the owner's revocation or kill switch nothing happens under the grant any more
\* (validate_claim and complete look at the grant again, in their own transaction).
THEOREM DelegationFrozen == DelegationSpec => TerminalGrantFrozen
<1>1. DelegationInv /\ [DelegationNext]_delegationVars =>
        [\A g \in GrantIds : grants[g].state \in TerminalStates =>
            /\ grants'[g] = grants[g]
            /\ \A o \in OperationIds :
                /\ Under(claims[o], g) \/ Under(claims'[o], g) => claims'[o] = claims[o]
                /\ o \in reported' \ reported => ~ Under(claims[o], g)]_delegationVars
  BY FrozenStep, Zenon DEF Frozen
<1>2. QED
  BY <1>1, DelegationStands, PTL DEF DelegationSpec, TerminalGrantFrozen

(***************************************************************************)
(* The development orchestrator.                                           *)
(***************************************************************************)

LEMMA LeastNumber ==
  ASSUME NEW T, T \subseteq Nat, T # {}
  PROVE  \E x \in T : \A y \in T : x <= y
<1>1. PICK R : R = OpToRel(<, Nat)
  OBVIOUS
<1>2. R = {ss \in Nat \X Nat : ss[1] < ss[2]}
  BY <1>1 DEF OpToRel
<1>3. IsWellFoundedOn(R, Nat)
  BY <1>1, NatLessThanWellFounded
<1>4. \E x \in T : \A y \in T : ~ (<<y, x>> \in R)
  BY <1>3, WFMin
<1>5. PICK x \in T : \A y \in T : ~ (<<y, x>> \in R)
  BY <1>4
<1>6. ASSUME NEW y \in T PROVE ~ (y < x)
  <2>1. <<y, x>> \in Nat \X Nat /\ <<y, x>>[1] = y /\ <<y, x>>[2] = x
    OBVIOUS
  <2>2. <<y, x>> \notin R
    BY <1>5
  <2>3. ~ (<<y, x>>[1] < <<y, x>>[2])
    BY <1>2, <2>1, <2>2, Zenon
  <2>4. QED
    BY <2>1, <2>3
<1>7. \A y \in T : x <= y
  <2>1. \A y \in T : x \in Nat /\ y \in Nat
    OBVIOUS
  <2>2. QED
    BY <1>6, <2>1
<1>8. QED
  BY <1>7

\* sorted(...) of a list that is not empty has a first element.
LEMMA FirstIsOne ==
  ASSUME NEW state, NEW tasks, tasks \subseteq TaskIds
  PROVE  /\ FirstOf(state, tasks) = NoTask <=> tasks = {}
         /\ tasks # {} => FirstOf(state, tasks) \in tasks
         /\ FirstOf(state, tasks) \in tasks \cup {NoTask}
<1>1. tasks \subseteq Nat /\ NoTask \notin tasks
  BY RunLimitsAssumption DEF NoTask
<1>2. ASSUME tasks # {} PROVE \E t \in tasks : \A u \in tasks \ {t} : Before(state, t, u)
  <2>1. CASE state.next \in tasks
    BY <2>1 DEF Before
  <2>2. CASE state.next \notin tasks
    <3>1. PICK t \in tasks : \A u \in tasks : t <= u
      BY <1>1, <1>2, LeastNumber, Zenon
    <3>2. \A u \in tasks \ {t} : t < u
      BY <1>1, <3>1
    <3>3. QED
      BY <2>2, <3>2 DEF Before
  <2>3. QED
    BY <2>1, <2>2
<1>3. ASSUME tasks # {} PROVE FirstOf(state, tasks) \in tasks
  <2>1. FirstOf(state, tasks) = CHOOSE t \in tasks : \A u \in tasks \ {t} : Before(state, t, u)
    BY <1>3 DEF FirstOf
  <2>2. QED
    BY <1>2, <1>3, <2>1, Zenon
<1>4. tasks = {} => FirstOf(state, tasks) = NoTask
  BY DEF FirstOf
<1>5. QED
  BY <1>1, <1>3, <1>4

LEMMA SelectionTyped ==
  ASSUME NEW state, NEW excluded
  PROVE  /\ Selected(state, excluded) \in (TaskIds \ excluded) \cup {NoTask}
         /\ RefusedBefore(state, excluded) \subseteq TaskIds
         /\ Escalation(state, excluded) \in RefusedBefore(state, excluded) \cup {NoTask}
         /\ Escalation(state, excluded) = NoTask <=> RefusedBefore(state, excluded) = {}
<1>1. EligibleTasks(state, excluded) \subseteq TaskIds \ excluded
  BY DEF EligibleTasks
<1>2. PICK allowed \in SUBSET (TaskIds \ excluded) :
        allowed = {t \in EligibleTasks(state, excluded) : Evaluate(roadmap[t].actions) = "allowed"}
  BY <1>1
<1>3. Selected(state, excluded) = FirstOf(state, allowed)
  BY <1>2 DEF Selected
<1>4. allowed \subseteq TaskIds
  BY <1>2
<1>5. FirstOf(state, allowed) \in allowed \cup {NoTask}
  BY <1>4, FirstIsOne, Zenon
<1>6. RefusedBefore(state, excluded) \subseteq TaskIds
  BY <1>1 DEF RefusedBefore
<1>7. PICK before \in SUBSET TaskIds : before = RefusedBefore(state, excluded)
  BY <1>6
<1>8. /\ FirstOf(state, before) = NoTask <=> before = {}
      /\ FirstOf(state, before) \in before \cup {NoTask}
  BY <1>7, FirstIsOne
<1>9. QED
  BY <1>2, <1>3, <1>5, <1>6, <1>7, <1>8 DEF Escalation

\* A run is never refused a task without an escalation that is pending, or about to be.
RunTold ==
    /\ run.refused # {} => run.pending # NoTask
    /\ run.pending # NoTask => run.pending \in run.refused
    /\ run.phase \in {"execute", "save"} => run.task \in TaskIds

OrchestratorInv ==
    /\ OrchestratorTypeOK
    /\ RunTold
    /\ EscalationVisible
    /\ CheckpointConfined

LEMMA NoRunShape ==
  /\ NoFailures \in [Signatures -> 0 .. RepeatedFailureLimit]
  /\ NoRun \in Run /\ NoRun.phase = "idle" /\ NoRun.refused = {} /\ NoRun.pending = NoTask
  /\ NoRun.completed = {} /\ NoRun.cycle = 0
<1>1. NoFailures \in [Signatures -> 0 .. RepeatedFailureLimit]
  BY RunLimitsAssumption DEF NoFailures
<1>2. 0 \in 0 .. MaxRepairCycles
  BY RunLimitsAssumption
<1>3. [completed |-> {}, next |-> NoTask] \in DevelopmentState
  BY DEF DevelopmentState
<1>4. NoRun \in Run
  BY <1>1, <1>2, <1>3 DEF NoRun, Run
<1>5. QED
  BY <1>1, <1>4 DEF NoRun

LEMMA RoadmapsTyped == Roadmaps \subseteq [TaskIds -> Task]
<1> DEFINE tasks(t) == [prerequisites : SUBSET (TaskIds \ {t}), tests : {TRUE}, status : {"pending"},
                        successor : TaskIds \cup {NoTask},
                        actions : {{}, {"repository.write"}, {"repository.write", "data.source.add"},
                                   {"history.rewrite"}, {"undeclared"}}]
           routine == [prerequisites |-> {}, tests |-> TRUE, status |-> "pending", successor |-> NoTask,
                       actions |-> {"repository.write"}]
           generated == UNION {tasks(t) : t \in TaskIds}
           plain == {[routine EXCEPT !.tests = FALSE], [routine EXCEPT !.status = "deferred"],
                     [routine EXCEPT !.status = "completed"]}
           choices == generated \cup plain
<1>1. /\ {"repository.write"} \subseteq ActionNames /\ {"repository.write", "data.source.add"} \subseteq ActionNames
      /\ {"history.rewrite"} \subseteq ActionNames /\ {"undeclared"} \subseteq ActionNames
  BY DEF ActionNames, AllowedActions, OwnerRequiredActions, ProhibitedActions
<1>2. \A t \in TaskIds : tasks(t) \subseteq Task
  BY <1>1 DEF Task, TaskStatuses
<1>3. routine \in Task
  BY <1>1 DEF Task, TaskStatuses
<1>4. /\ [routine EXCEPT !.tests = FALSE] \in Task /\ [routine EXCEPT !.status = "deferred"] \in Task
      /\ [routine EXCEPT !.status = "completed"] \in Task
  BY <1>3 DEF Task, TaskStatuses
<1>5. choices \subseteq Task
  <2>1. generated \subseteq Task
    <3> HIDE DEF tasks
    <3>1. QED
      BY <1>2
  <2>2. plain \subseteq Task
    <3> HIDE DEF routine
    <3>1. QED
      BY <1>4
  <2> HIDE DEF generated, plain
  <2>3. QED
    BY <2>1, <2>2
<1>6. Roadmaps \subseteq [TaskIds -> choices]
  <2>1. Roadmaps = {r \in [TaskIds -> choices] : \A t \in TaskIds : t \notin r[t].prerequisites}
    BY DEF Roadmaps
  <2> HIDE DEF choices
  <2>2. QED
    BY <2>1
<1> HIDE DEF choices
<1>7. QED
  BY <1>5, <1>6

LEMMA CheckpointsTyped ==
  \A request \in CheckpointRequests :
      /\ request \in CheckpointRequest
      /\ request.branch \in {"feature/a", "main", "release/a", "topic"}
      /\ request.operations \in {"checkpoint", "force"}
<1>1. Conforming \in CheckpointRequest
  BY DEF Conforming, CheckpointRequest
<1>2. \A b \in {"main", "release/a", "topic"} : [Conforming EXCEPT !.branch = b] \in CheckpointRequest
  BY <1>1 DEF CheckpointRequest
<1>3. \A r \in {"origin", "fork"} :
        [Conforming EXCEPT !.upstream_remote = "fork", !.target_remote = r] \in CheckpointRequest
  BY <1>1 DEF CheckpointRequest
<1>4. /\ [Conforming EXCEPT !.target_remote = "fork"] \in CheckpointRequest
      /\ [Conforming EXCEPT !.operations = "force"] \in CheckpointRequest
  BY <1>1 DEF CheckpointRequest
<1>5. /\ [Conforming EXCEPT !.upstream_branch = "feature/b"] \in CheckpointRequest
      /\ [Conforming EXCEPT !.target_branch = "feature/b"] \in CheckpointRequest
  BY <1>1 DEF CheckpointRequest
<1>6. \A p \in Preconditions : [Conforming EXCEPT !.preconditions = Preconditions \ {p}] \in CheckpointRequest
  BY <1>1 DEF CheckpointRequest
<1>7. CheckpointRequests \subseteq CheckpointRequest
  BY <1>1, <1>2, <1>3, <1>4, <1>5, <1>6, Zenon DEF CheckpointRequests
<1>8. QED
  BY <1>7 DEF CheckpointRequest

LEMMA OrchestratorInitInv == OrchestratorInit => OrchestratorInv
<1> SUFFICES ASSUME OrchestratorInit PROVE OrchestratorInv
  OBVIOUS
<1>1. roadmap \in [TaskIds -> Task]
  BY RoadmapsTyped DEF OrchestratorInit
<1>2. development \in DevelopmentState /\ report \in Report /\ runs \in 0 .. MaxRuns
  BY RunLimitsAssumption DEF OrchestratorInit, DevelopmentState, Report, StopReasons
<1>3. run = NoRun /\ checkpoints = {}
  BY DEF OrchestratorInit
<1>4. OrchestratorTypeOK
  BY <1>1, <1>2, <1>3, NoRunShape DEF OrchestratorTypeOK
<1>5. RunTold /\ CheckpointConfined
  BY <1>3, NoRunShape DEF RunTold, CheckpointConfined
<1>6. EscalationVisible
  BY DEF OrchestratorInit, EscalationVisible
<1>7. QED
  BY <1>4, <1>5, <1>6 DEF OrchestratorInv

\* What an attempt that passed, failed or was saved writes into the run.
LEMMA AttemptedRun ==
  ASSUME NEW r \in Run, NEW phase \in {"loop", "save"}
  PROVE  \E n \in Run :
           /\ n = [r EXCEPT !.phase = phase]
           /\ n.phase = phase /\ n.task = r.task /\ n.excluded = r.excluded
           /\ n.pending = r.pending /\ n.refused = r.refused
<1>1. PICK n \in Run : n = [r EXCEPT !.phase = phase]
  BY DEF Run
<1>2. n.phase = phase /\ n.task = r.task /\ n.excluded = r.excluded /\ n.pending = r.pending
      /\ n.refused = r.refused
  BY <1>1 DEF Run
<1>3. QED
  BY <1>1, <1>2

LEMMA GivenUpRun ==
  ASSUME NEW r \in Run
  PROVE  \E n \in Run :
           /\ n = [r EXCEPT !.phase = "loop", !.task = NoTask, !.cycle = 0, !.failures = NoFailures]
           /\ n.phase = "loop" /\ n.excluded = r.excluded /\ n.pending = r.pending /\ n.refused = r.refused
<1>1. 0 \in 0 .. MaxRepairCycles
  BY RunLimitsAssumption
<1>2. PICK n1 \in Run : n1 = [r EXCEPT !.phase = "loop"]
  BY DEF Run
<1>3. PICK n2 \in Run : n2 = [n1 EXCEPT !.task = NoTask]
  BY DEF Run
<1>4. PICK n3 \in Run : n3 = [n2 EXCEPT !.cycle = 0]
  BY <1>1 DEF Run
<1>5. PICK n4 \in Run : n4 = [n3 EXCEPT !.failures = NoFailures]
  BY NoRunShape, ZenonT(60) DEF Run
<1>6. n4 = [r EXCEPT !.phase = "loop", !.task = NoTask, !.cycle = 0, !.failures = NoFailures]
  BY <1>2, <1>3, <1>4, <1>5, Zenon
<1>7. n4.phase = "loop" /\ n4.excluded = r.excluded /\ n4.pending = r.pending /\ n4.refused = r.refused
  BY <1>2, <1>3, <1>4, <1>5 DEF Run
<1>8. QED
  BY <1>6, <1>7

LEMMA RepairedRun ==
  ASSUME NEW r \in Run, NEW signature \in Signatures,
         r.failures[signature] + 1 < RepeatedFailureLimit, r.cycle < MaxRepairCycles
  PROVE  \E n \in Run :
           /\ n = [r EXCEPT !.cycle = @ + 1, !.failures[signature] = @ + 1]
           /\ n.cycle = r.cycle + 1 /\ n.phase = r.phase /\ n.task = r.task
           /\ n.excluded = r.excluded /\ n.pending = r.pending /\ n.refused = r.refused
<1>1. r.cycle \in 0 .. MaxRepairCycles /\ r.failures \in [Signatures -> 0 .. RepeatedFailureLimit]
  BY DEF Run
<1>2. PICK cycle \in 0 .. MaxRepairCycles : cycle = r.cycle + 1
  BY <1>1, RunLimitsAssumption
<1>3. PICK failures \in [Signatures -> 0 .. RepeatedFailureLimit] :
        failures = [r.failures EXCEPT ![signature] = @ + 1]
  <2>1. r.failures[signature] + 1 \in 0 .. RepeatedFailureLimit
    BY <1>1, RunLimitsAssumption
  <2>2. QED
    BY <1>1, <2>1
<1>4. PICK n1 \in Run : n1 = [r EXCEPT !.cycle = cycle]
  BY DEF Run
<1>5. PICK n2 \in Run : n2 = [n1 EXCEPT !.failures = failures]
  BY DEF Run
<1>6. n2 = [r EXCEPT !.cycle = @ + 1, !.failures[signature] = @ + 1]
  BY <1>2, <1>3, <1>4, <1>5 DEF Run
<1>7. n2.cycle = r.cycle + 1 /\ n2.phase = r.phase /\ n2.task = r.task
      /\ n2.excluded = r.excluded /\ n2.pending = r.pending /\ n2.refused = r.refused
  BY <1>2, <1>4, <1>5 DEF Run
<1>8. QED
  BY <1>6, <1>7

LEMMA SavedRun ==
  ASSUME NEW r \in Run, NEW state \in DevelopmentState, r.task \in TaskIds
  PROVE  \E n \in Run :
           /\ n = [r EXCEPT !.phase = "loop", !.state = state, !.completed = @ \cup {r.task},
                     !.task = NoTask, !.cycle = 0, !.failures = NoFailures]
           /\ n.phase = "loop" /\ n.excluded = r.excluded /\ n.pending = r.pending /\ n.refused = r.refused
<1>1. 0 \in 0 .. MaxRepairCycles
  BY RunLimitsAssumption
<1>2. PICK completed \in SUBSET TaskIds : completed = r.completed \cup {r.task}
  BY DEF Run
<1>3. PICK n1 \in Run : n1 = [r EXCEPT !.phase = "loop"]
  BY DEF Run
<1>4. PICK n2 \in Run : n2 = [n1 EXCEPT !.state = state]
  BY DEF Run
<1>5. PICK n3 \in Run : n3 = [n2 EXCEPT !.completed = completed]
  BY DEF Run
<1>6. PICK n4 \in Run : n4 = [n3 EXCEPT !.task = NoTask]
  BY DEF Run
<1>7. PICK n5 \in Run : n5 = [n4 EXCEPT !.cycle = 0]
  BY <1>1 DEF Run
<1>8. PICK n6 \in Run : n6 = [n5 EXCEPT !.failures = NoFailures]
  BY NoRunShape, ZenonT(60) DEF Run
<1>9. n6 = [r EXCEPT !.phase = "loop", !.state = state, !.completed = completed,
              !.task = NoTask, !.cycle = 0, !.failures = NoFailures]
  BY <1>3, <1>4, <1>5, <1>6, <1>7, <1>8, Zenon
<1>10. n6.phase = "loop" /\ n6.excluded = r.excluded /\ n6.pending = r.pending /\ n6.refused = r.refused
  <2>1. n3.phase = "loop" /\ n3.excluded = r.excluded /\ n3.pending = r.pending /\ n3.refused = r.refused
    BY <1>3, <1>4, <1>5 DEF Run
  <2>2. QED
    BY <1>6, <1>7, <1>8, <2>1 DEF Run
<1>11. QED
  BY <1>2, <1>9, <1>10

(***************************************************************************)
(* The steps of a run keep its promises and leave it less to do.           *)
(***************************************************************************)

\* A run that ends, with the report it leaves.
LEMMA StopKeeps ==
  ASSUME OrchestratorInv, NEW reason \in StopReasons, NEW escalation \in TaskIds \cup {NoTask},
         NEW refused \in SUBSET TaskIds, Stop(reason, escalation, refused),
         refused # {} => escalation # NoTask, escalation # NoTask => escalation \in refused
  PROVE  OrchestratorInv' /\ run'.phase = "idle"
<1>1. OrchestratorTypeOK /\ CheckpointConfined
  BY DEF OrchestratorInv
<1>2. run' = NoRun /\ UNCHANGED <<roadmap, development, runs, checkpoints>>
  BY DEF Stop
<1>3. run.completed \in SUBSET TaskIds
  BY <1>1 DEF OrchestratorTypeOK, Run
<1>4. report' \in Report /\ report'.escalation = escalation /\ report'.refused = refused
  BY <1>3 DEF Stop, Report
<1>5. OrchestratorTypeOK'
  BY <1>1, <1>2, <1>4, NoRunShape DEF OrchestratorTypeOK
<1>6. RunTold'
  BY <1>2, NoRunShape DEF RunTold
<1>7. EscalationVisible'
  BY <1>4 DEF EscalationVisible
<1>8. CheckpointConfined'
  BY <1>1, <1>2 DEF CheckpointConfined
<1>9. QED
  BY <1>2, <1>5, <1>6, <1>7, <1>8, NoRunShape DEF OrchestratorInv

\* A run that goes on: only the run itself, and the state file, change.
LEMMA GoesOnKeeps ==
  ASSUME OrchestratorInv, run' \in Run, development' \in DevelopmentState, RunTold',
         UNCHANGED <<roadmap, report, checkpoints>>, runs' \in 0 .. MaxRuns
  PROVE  OrchestratorInv'
<1>1. OrchestratorTypeOK'
  BY DEF OrchestratorInv, OrchestratorTypeOK
<1>2. EscalationVisible' /\ CheckpointConfined'
  BY DEF OrchestratorInv, EscalationVisible, CheckpointConfined
<1>3. QED
  BY <1>1, <1>2 DEF OrchestratorInv

\* The tasks that are left are finitely many, and one fewer once one of them is selected.
LEMMA TasksLeft ==
  ASSUME NEW excluded \in SUBSET TaskIds
  PROVE  /\ Cardinality(TaskIds \ excluded) \in Nat
         /\ \A task \in TaskIds \ excluded :
              /\ Cardinality(TaskIds \ excluded) > 0
              /\ Cardinality(TaskIds \ (excluded \cup {task})) = Cardinality(TaskIds \ excluded) - 1
<1>1. IsFiniteSet(TaskIds \ excluded)
  <2>1. IsFiniteSet(TaskIds) /\ TaskIds \ excluded \subseteq TaskIds
    BY RunLimitsAssumption
  <2>2. QED
    BY <2>1, FS_Subset, Zenon
<1>2. Cardinality(TaskIds \ excluded) \in Nat
  BY <1>1, FS_CardinalityType
<1>3. ASSUME NEW task \in TaskIds \ excluded
      PROVE  /\ Cardinality(TaskIds \ excluded) > 0
             /\ Cardinality(TaskIds \ (excluded \cup {task})) = Cardinality(TaskIds \ excluded) - 1
  <2>1. PICK left : left = TaskIds \ excluded
    OBVIOUS
  <2>2. TaskIds \ (excluded \cup {task}) = left \ {task}
    BY <2>1
  <2>3. Cardinality(left \ {task}) = Cardinality(left) - 1
    BY <1>1, <2>1, FS_RemoveElement
  <2>4. IsFiniteSet(left \ {task})
    BY <1>1, <2>1, FS_RemoveElement
  <2>5. Cardinality(left \ {task}) \in Nat
    BY <2>4, FS_CardinalityType
  <2>6. QED
    BY <1>2, <2>1, <2>2, <2>3, <2>5
<1>4. QED
  BY <1>2, <1>3

\* What a step of the loop must leave: the invariant, and less work unless the run is over.
Goes == OrchestratorInv' /\ (run'.phase # "idle" => WorkLeft(run') < WorkLeft(run))

LEMMA WorkShape ==
  ASSUME NEW r \in Run
  PROVE  \E left \in Nat :
           /\ left = Cardinality(TaskIds \ r.excluded)
           /\ WorkLeft(r) = left * (MaxRepairCycles + 3)
                + (IF r.phase = "execute" THEN 2 + MaxRepairCycles - r.cycle
                   ELSE IF r.phase = "save" THEN 1 ELSE 0)
<1>1. PICK left \in Nat : left = Cardinality(TaskIds \ r.excluded)
  <2>1. r.excluded \in SUBSET TaskIds
    BY DEF Run
  <2>2. QED
    BY <2>1, TasksLeft
<1>2. PICK work : work = left * (MaxRepairCycles + 3)
  OBVIOUS
<1>3. WorkLeft(r) = work + CASE r.phase = "execute" -> 2 + MaxRepairCycles - r.cycle
                             [] r.phase = "save" -> 1
                             [] OTHER -> 0
  BY <1>1, <1>2, Zenon DEF WorkLeft
<1>4. CASE r.phase = "execute"
  BY <1>1, <1>2, <1>3, <1>4
<1>5. CASE r.phase = "save"
  BY <1>1, <1>2, <1>3, <1>5
<1>6. CASE r.phase # "execute" /\ r.phase # "save"
  BY <1>1, <1>2, <1>3, <1>6
<1>7. QED
  BY <1>4, <1>5, <1>6

LEMMA SelectTaskGoes == ASSUME OrchestratorInv, SelectTask PROVE Goes
<1>1. OrchestratorTypeOK /\ RunTold /\ run \in Run
  BY DEF OrchestratorInv, OrchestratorTypeOK
<1>2. PICK task : task = Selected(run.state, run.excluded)
  OBVIOUS
<1>3. PICK escalation : escalation = Escalation(run.state, run.excluded)
  OBVIOUS
<1>4. PICK before : before = RefusedBefore(run.state, run.excluded)
  OBVIOUS
<1>5. /\ run.phase = "loop" /\ task # NoTask
      /\ run' = [run EXCEPT !.phase = "execute", !.task = task, !.cycle = 0, !.failures = NoFailures,
                   !.pending = Or(@, escalation), !.excluded = @ \cup {task}, !.refused = @ \cup before]
      /\ UNCHANGED <<roadmap, development, report, runs, checkpoints>>
  BY <1>2, <1>3, <1>4, Zenon DEF SelectTask, MayGoOn
<1>6. /\ task \in TaskIds \ run.excluded /\ before \subseteq TaskIds
      /\ escalation \in before \cup {NoTask} /\ (escalation = NoTask <=> before = {})
  BY <1>2, <1>3, <1>4, <1>5, SelectionTyped
<1>7. PICK pending \in TaskIds \cup {NoTask} : pending = Or(run.pending, escalation)
  BY <1>1, <1>6 DEF Or, Run
<1>8. PICK excluded \in SUBSET TaskIds : excluded = run.excluded \cup {task}
  BY <1>1, <1>6 DEF Run
<1>9. PICK refused \in SUBSET TaskIds : refused = run.refused \cup before
  BY <1>1, <1>6 DEF Run
<1>10. task \in TaskIds
  BY <1>6
<1>11. PICK n \in Run :
         /\ n = [run EXCEPT !.phase = "execute", !.task = task, !.cycle = 0, !.failures = NoFailures,
                   !.pending = pending, !.excluded = excluded, !.refused = refused]
         /\ n.phase = "execute" /\ n.task = task /\ n.cycle = 0 /\ n.pending = pending
         /\ n.excluded = excluded /\ n.refused = refused /\ n.completed = run.completed
  <2>1. 0 \in 0 .. MaxRepairCycles
    BY RunLimitsAssumption
  <2>2. PICK n1 \in Run : n1 = [run EXCEPT !.phase = "execute"]
    BY <1>1 DEF Run
  <2>3. PICK n2 \in Run : n2 = [n1 EXCEPT !.task = task]
    BY <1>10 DEF Run
  <2>4. PICK n3 \in Run : n3 = [n2 EXCEPT !.cycle = 0]
    BY <2>1 DEF Run
  <2>5. PICK n4 \in Run : n4 = [n3 EXCEPT !.failures = NoFailures]
    BY NoRunShape DEF Run
  <2>6. PICK n5 \in Run : n5 = [n4 EXCEPT !.pending = pending]
    BY DEF Run
  <2>7. PICK n6 \in Run : n6 = [n5 EXCEPT !.excluded = excluded]
    BY DEF Run
  <2>8. PICK n7 \in Run : n7 = [n6 EXCEPT !.refused = refused]
    BY DEF Run
  <2>9. n7 = [run EXCEPT !.phase = "execute", !.task = task, !.cycle = 0, !.failures = NoFailures,
                !.pending = pending, !.excluded = excluded, !.refused = refused]
    BY <2>2, <2>3, <2>4, <2>5, <2>6, <2>7, <2>8, Zenon
  <2>10. n3.phase = "execute" /\ n3.task = task /\ n3.cycle = 0 /\ n3.completed = run.completed
    BY <1>1, <2>2, <2>3, <2>4 DEF Run
  <2>11. n5.phase = "execute" /\ n5.task = task /\ n5.cycle = 0 /\ n5.completed = run.completed
         /\ n5.pending = pending
    BY <2>5, <2>6, <2>10 DEF Run
  <2>12. n7.phase = "execute" /\ n7.task = task /\ n7.cycle = 0 /\ n7.completed = run.completed
         /\ n7.pending = pending /\ n7.excluded = excluded /\ n7.refused = refused
    BY <2>7, <2>8, <2>11 DEF Run
  <2>13. QED
    BY <2>9, <2>12
<1>12. run' = n
  BY <1>5, <1>7, <1>8, <1>9, <1>11
<1>13. RunTold'
  BY <1>1, <1>6, <1>7, <1>9, <1>10, <1>11, <1>12 DEF RunTold, Or
<1>14. development' \in DevelopmentState /\ runs' \in 0 .. MaxRuns /\ UNCHANGED <<roadmap, report, checkpoints>>
  BY <1>1, <1>5 DEF OrchestratorTypeOK
<1>15. OrchestratorInv'
  BY <1>12, <1>13, <1>14, GoesOnKeeps
<1>16. WorkLeft(n) < WorkLeft(run)
  <2>1. PICK left \in Nat :
          /\ left = Cardinality(TaskIds \ run.excluded)
          /\ WorkLeft(run) = left * (MaxRepairCycles + 3)
               + (IF run.phase = "execute" THEN 2 + MaxRepairCycles - run.cycle
                  ELSE IF run.phase = "save" THEN 1 ELSE 0)
    BY <1>1, WorkShape, Zenon
  <2>2. PICK fewer \in Nat :
          /\ fewer = Cardinality(TaskIds \ n.excluded)
          /\ WorkLeft(n) = fewer * (MaxRepairCycles + 3)
               + (IF n.phase = "execute" THEN 2 + MaxRepairCycles - n.cycle
                  ELSE IF n.phase = "save" THEN 1 ELSE 0)
    BY WorkShape, Zenon
  <2>3. fewer = left - 1 /\ left > 0
    <3>1. run.excluded \in SUBSET TaskIds
      BY <1>1 DEF Run
    <3>2. QED
      BY <1>6, <1>8, <1>11, <2>1, <2>2, <3>1, TasksLeft
  <2>4. WorkLeft(run) = left * (MaxRepairCycles + 3)
    BY <1>5, <2>1, RunLimitsAssumption
  <2>5. WorkLeft(n) = fewer * (MaxRepairCycles + 3) + 2 + MaxRepairCycles
    BY <1>11, <2>2, RunLimitsAssumption
  <2>6. left * (MaxRepairCycles + 3) = fewer * (MaxRepairCycles + 3) + MaxRepairCycles + 3
    <3>1. PICK m \in Nat : m = MaxRepairCycles + 3
      BY RunLimitsAssumption
    <3>2. left = fewer + 1
      BY <2>3
    <3>3. (fewer + 1) * m = fewer * m + m
      BY <3>1, SMT
    <3>4. fewer * m \in Nat
      BY <3>1, SMT
    <3>5. QED
      BY <3>1, <3>2, <3>3, <3>4, RunLimitsAssumption
  <2>7. fewer * (MaxRepairCycles + 3) \in Nat
    BY RunLimitsAssumption, SMT
  <2>8. QED
    BY <2>4, <2>5, <2>6, <2>7, RunLimitsAssumption
<1>17. QED
  BY <1>12, <1>15, <1>16 DEF Goes

\* A step that selects nothing keeps the tasks that are left; only the task at hand counts.
LEMMA SameTasksLess ==
  ASSUME NEW r \in Run, NEW n \in Run, n.excluded = r.excluded,
         \/ r.phase = "execute" /\ n.phase \in {"loop", "save"}
         \/ r.phase = "execute" /\ n.phase = "execute" /\ n.cycle > r.cycle
         \/ r.phase = "save" /\ n.phase = "loop"
  PROVE  WorkLeft(n) < WorkLeft(r)
<1>1. PICK left \in Nat :
        /\ left = Cardinality(TaskIds \ r.excluded)
        /\ WorkLeft(r) = left * (MaxRepairCycles + 3)
             + (IF r.phase = "execute" THEN 2 + MaxRepairCycles - r.cycle
                ELSE IF r.phase = "save" THEN 1 ELSE 0)
  BY WorkShape, Zenon
<1>2. PICK same \in Nat :
        /\ same = Cardinality(TaskIds \ n.excluded)
        /\ WorkLeft(n) = same * (MaxRepairCycles + 3)
             + (IF n.phase = "execute" THEN 2 + MaxRepairCycles - n.cycle
                ELSE IF n.phase = "save" THEN 1 ELSE 0)
  BY WorkShape, Zenon
<1>3. same = left
  BY <1>1, <1>2
<1>4. PICK work \in Nat : work = left * (MaxRepairCycles + 3)
  BY RunLimitsAssumption, SMT
<1>5. r.cycle \in 0 .. MaxRepairCycles /\ n.cycle \in 0 .. MaxRepairCycles
  BY DEF Run
<1>6. /\ WorkLeft(r) = work + (IF r.phase = "execute" THEN 2 + MaxRepairCycles - r.cycle
                               ELSE IF r.phase = "save" THEN 1 ELSE 0)
      /\ WorkLeft(n) = work + (IF n.phase = "execute" THEN 2 + MaxRepairCycles - n.cycle
                               ELSE IF n.phase = "save" THEN 1 ELSE 0)
  BY <1>1, <1>2, <1>3, <1>4
<1>7. QED
  BY <1>5, <1>6, RunLimitsAssumption

\* A task that is given up, or that passed without a recommended commit.
LEMMA PassOverGoes ==
  ASSUME OrchestratorInv, run.phase = "execute", PassOver,
         UNCHANGED <<roadmap, development, report, runs, checkpoints>>
  PROVE  Goes
<1>1. OrchestratorTypeOK /\ RunTold /\ run \in Run
  BY DEF OrchestratorInv, OrchestratorTypeOK
<1>2. development \in DevelopmentState /\ runs \in 0 .. MaxRuns
  BY <1>1 DEF OrchestratorTypeOK
<1>3. PICK n \in Run :
        /\ n = [run EXCEPT !.phase = "loop", !.task = NoTask, !.cycle = 0, !.failures = NoFailures]
        /\ n.phase = "loop" /\ n.excluded = run.excluded /\ n.pending = run.pending
        /\ n.refused = run.refused
  BY <1>1, GivenUpRun, Zenon
<1>4. run' = n
  BY <1>3 DEF PassOver
<1>5. RunTold'
  BY <1>1, <1>3, <1>4 DEF RunTold
<1>6. OrchestratorInv'
  BY <1>2, <1>4, <1>5, GoesOnKeeps
<1>7. WorkLeft(n) < WorkLeft(run)
  BY <1>1, <1>3, SameTasksLess
<1>8. QED
  BY <1>4, <1>6, <1>7 DEF Goes

\* A builder, validator or reviewer has answered, or the state was saved.
LEMMA AttemptGoes ==
  ASSUME OrchestratorInv,
         AttemptPassed \/ PassedUnrecommended \/ SaveState \/ \E signature \in Signatures : AttemptFailed(signature)
  PROVE  Goes
<1>1. OrchestratorTypeOK /\ RunTold /\ run \in Run
  BY DEF OrchestratorInv, OrchestratorTypeOK
<1>2. development \in DevelopmentState /\ runs \in 0 .. MaxRuns
  BY <1>1 DEF OrchestratorTypeOK
<1>3. CASE AttemptPassed
  <2>1. /\ run.phase = "execute" /\ run' = [run EXCEPT !.phase = "save"]
        /\ UNCHANGED <<roadmap, development, report, runs, checkpoints>>
    BY <1>3 DEF AttemptPassed
  <2>2. PICK n \in Run :
          /\ n = [run EXCEPT !.phase = "save"]
          /\ n.phase = "save" /\ n.task = run.task /\ n.excluded = run.excluded
          /\ n.pending = run.pending /\ n.refused = run.refused
    BY <1>1, AttemptedRun
  <2>3. run' = n
    BY <2>1, <2>2
  <2>4. RunTold'
    BY <1>1, <2>1, <2>2, <2>3 DEF RunTold
  <2>5. OrchestratorInv'
    BY <1>2, <2>1, <2>3, <2>4, GoesOnKeeps
  <2>6. WorkLeft(n) < WorkLeft(run)
    BY <1>1, <2>1, <2>2, SameTasksLess
  <2>7. QED
    BY <2>3, <2>5, <2>6 DEF Goes
<1>4. CASE PassedUnrecommended
  BY <1>4, PassOverGoes DEF PassedUnrecommended
<1>5. ASSUME NEW signature \in Signatures, AttemptFailed(signature) PROVE Goes
  <2>1. run.phase = "execute" /\ UNCHANGED <<roadmap, development, report, runs, checkpoints>>
    BY <1>5 DEF AttemptFailed
  <2>2. CASE GivesUp(signature)
    <3>1. PassOver
      BY <1>5, <2>2, Zenon DEF AttemptFailed
    <3>2. QED
      BY <2>1, <3>1, PassOverGoes
  <2>3. CASE ~ GivesUp(signature)
    <3>1. run' = [run EXCEPT !.cycle = @ + 1, !.failures[signature] = @ + 1]
      BY <1>5, <2>3, Zenon DEF AttemptFailed
    <3>2. run.failures[signature] + 1 < RepeatedFailureLimit /\ run.cycle < MaxRepairCycles
      BY <1>1, <2>3, RunLimitsAssumption DEF GivesUp, Run
    <3>3. PICK n \in Run :
            /\ n = [run EXCEPT !.cycle = @ + 1, !.failures[signature] = @ + 1]
            /\ n.cycle = run.cycle + 1 /\ n.phase = run.phase /\ n.task = run.task
            /\ n.excluded = run.excluded /\ n.pending = run.pending /\ n.refused = run.refused
      BY <1>1, <3>2, RepairedRun, Zenon
    <3>4. run' = n
      BY <3>1, <3>3, Zenon
    <3>5. RunTold'
      BY <1>1, <3>3, <3>4 DEF RunTold
    <3>6. OrchestratorInv'
      BY <1>2, <2>1, <3>4, <3>5, GoesOnKeeps
    <3>7. n.cycle > run.cycle
      BY <1>1, <3>3 DEF Run
    <3>8. WorkLeft(n) < WorkLeft(run)
      BY <1>1, <2>1, <3>3, <3>7, SameTasksLess
    <3>9. QED
      BY <3>4, <3>6, <3>8 DEF Goes
  <2>4. QED
    BY <2>2, <2>3
<1>6. CASE SaveState
  <2>1. PICK state : state = [completed |-> run.state.completed \cup {run.task},
                              next |-> roadmap[run.task].successor]
    OBVIOUS
  <2>2. /\ run.phase = "save" /\ development' = state
        /\ run' = [run EXCEPT !.phase = "loop", !.state = state, !.completed = @ \cup {run.task},
                              !.task = NoTask, !.cycle = 0, !.failures = NoFailures]
        /\ UNCHANGED <<roadmap, report, runs, checkpoints>>
    BY <1>6, <2>1, Zenon DEF SaveState
  <2>3. run.task \in TaskIds
    BY <1>1, <2>2 DEF RunTold
  <2>4. state \in DevelopmentState
    <3>1. run.state.completed \in SUBSET TaskIds
      BY <1>1 DEF Run, DevelopmentState
    <3>2. roadmap[run.task].successor \in TaskIds \cup {NoTask}
      BY <1>1, <2>3 DEF OrchestratorTypeOK, Task
    <3>3. QED
      BY <2>1, <2>3, <3>1, <3>2 DEF DevelopmentState
  <2>5. PICK n \in Run :
          /\ n = [run EXCEPT !.phase = "loop", !.state = state, !.completed = @ \cup {run.task},
                    !.task = NoTask, !.cycle = 0, !.failures = NoFailures]
          /\ n.phase = "loop" /\ n.excluded = run.excluded /\ n.pending = run.pending
          /\ n.refused = run.refused
    BY <1>1, <2>3, <2>4, SavedRun, Zenon
  <2>6. run' = n
    BY <2>2, <2>5
  <2>7. RunTold'
    BY <1>1, <2>5, <2>6 DEF RunTold
  <2>8. development' \in DevelopmentState /\ runs' \in 0 .. MaxRuns /\ UNCHANGED <<roadmap, report, checkpoints>>
    BY <1>2, <2>2, <2>4
  <2>9. OrchestratorInv'
    BY <2>6, <2>7, <2>8, GoesOnKeeps
  <2>10. WorkLeft(n) < WorkLeft(run)
    BY <1>1, <2>2, <2>5, SameTasksLess
  <2>11. QED
    BY <2>6, <2>9, <2>10 DEF Goes
<1>7. QED
  BY <1>3, <1>4, <1>5, <1>6

\* The steps that end a run with a report.
LEMMA StopsGo ==
  ASSUME OrchestratorInv, TaskBudgetReached \/ ElapsedBudgetExhausted \/ NothingSelected \/ OwnerFinding
  PROVE  Goes
<1>1. OrchestratorTypeOK /\ RunTold /\ run \in Run
  BY DEF OrchestratorInv, OrchestratorTypeOK
<1>2. PICK pending \in TaskIds \cup {NoTask}, refused \in SUBSET TaskIds :
        pending = run.pending /\ refused = run.refused
  BY <1>1 DEF Run
<1>3. (refused # {} => pending # NoTask) /\ (pending # NoTask => pending \in refused)
  BY <1>1, <1>2 DEF RunTold
<1>4. CASE TaskBudgetReached \/ ElapsedBudgetExhausted
  <2>1. PICK reason \in StopReasons : Stop(reason, pending, refused)
    BY <1>2, <1>4 DEF TaskBudgetReached, ElapsedBudgetExhausted, StopReasons
  <2>2. QED
    BY <1>3, <2>1, StopKeeps, Zenon DEF Goes
<1>5. CASE NothingSelected
  <2>1. PICK before \in SUBSET TaskIds : before = RefusedBefore(run.state, run.excluded)
    BY SelectionTyped
  <2>2. PICK escalation \in before \cup {NoTask} : escalation = Escalation(run.state, run.excluded)
    BY <2>1, SelectionTyped
  <2>3. escalation = NoTask <=> before = {}
    BY <2>1, <2>2, SelectionTyped
  <2>4. PICK visible \in TaskIds \cup {NoTask} : visible = Or(escalation, pending)
    BY DEF Or
  <2>5. PICK all \in SUBSET TaskIds : all = refused \cup before
    OBVIOUS
  <2>6. PICK reason \in StopReasons : Stop(reason, visible, all)
    BY <1>2, <1>5, <2>1, <2>2, <2>4, <2>5 DEF NothingSelected, StopReasons
  <2>7. (all # {} => visible # NoTask) /\ (visible # NoTask => visible \in all)
    BY <1>3, <2>3, <2>4, <2>5 DEF Or
  <2>8. QED
    BY <2>6, <2>7, StopKeeps, Zenon DEF Goes
<1>6. CASE OwnerFinding
  <2>1. PICK task \in TaskIds : task = run.task
    BY <1>1, <1>6 DEF OwnerFinding, RunTold
  <2>2. PICK all \in SUBSET TaskIds : all = refused \cup {task}
    OBVIOUS
  <2>3. PICK reason \in StopReasons : Stop(reason, task, all)
    BY <1>2, <1>6, <2>1, <2>2 DEF OwnerFinding, StopReasons
  <2>4. task # NoTask /\ task \in all /\ task \in TaskIds \cup {NoTask}
    BY <2>2, RunLimitsAssumption DEF NoTask
  <2>5. QED
    BY <2>3, <2>4, StopKeeps, Zenon DEF Goes
<1>7. QED
  BY <1>4, <1>5, <1>6

LEMMA RunStepGoes == ASSUME OrchestratorInv, RunStep PROVE Goes
<1>1. CASE TaskBudgetReached \/ ElapsedBudgetExhausted \/ NothingSelected \/ OwnerFinding
  BY <1>1, StopsGo
<1>2. CASE SelectTask
  BY <1>2, SelectTaskGoes
<1>3. CASE AttemptPassed \/ PassedUnrecommended \/ SaveState \/ \E signature \in Signatures : AttemptFailed(signature)
  BY <1>3, AttemptGoes
<1>4. QED
  BY <1>1, <1>2, <1>3, Zenon DEF RunStep

\* A run that is started, refused or dies, and a checkpoint that is pushed.
LEMMA AroundRunsKeeps ==
  ASSUME OrchestratorInv,
         \/ \E snapshot \in Snapshot : StartRun(snapshot) \/ RefuseRun(snapshot)
         \/ RunDies
         \/ \E request \in CheckpointRequests : Checkpoint(request)
  PROVE  /\ OrchestratorInv'
         /\ run' = run \/ run.phase = "idle" \/ run'.phase = "idle"
<1>1. OrchestratorTypeOK /\ RunTold /\ run \in Run /\ EscalationVisible /\ CheckpointConfined
  BY DEF OrchestratorInv, OrchestratorTypeOK
<1>2. ASSUME NEW snapshot \in Snapshot, StartRun(snapshot)
      PROVE  OrchestratorInv' /\ run.phase = "idle"
  <2>1. /\ run' = [NoRun EXCEPT !.phase = "loop", !.state = development] /\ runs' = runs + 1
        /\ run.phase = "idle" /\ runs < MaxRuns
        /\ UNCHANGED <<roadmap, development, report, checkpoints>>
    BY <1>2 DEF StartRun
  <2>2. development \in DevelopmentState
    BY <1>1 DEF OrchestratorTypeOK
  <2>3. PICK n1 \in Run : n1 = [NoRun EXCEPT !.phase = "loop"]
    BY NoRunShape DEF Run
  <2>4. PICK n2 \in Run : n2 = [n1 EXCEPT !.state = development]
    BY <2>2 DEF Run
  <2>5. run' = n2
    BY <2>1, <2>3, <2>4, Zenon
  <2>6. n2.phase = "loop" /\ n2.refused = {} /\ n2.pending = NoTask
    BY <2>3, <2>4, NoRunShape DEF Run
  <2>7. RunTold'
    BY <2>5, <2>6 DEF RunTold
  <2>8. runs' \in 0 .. MaxRuns
    BY <1>1, <2>1, RunLimitsAssumption DEF OrchestratorTypeOK
  <2>9. development' \in DevelopmentState /\ UNCHANGED <<roadmap, report, checkpoints>>
    BY <2>1, <2>2
  <2>10. QED
    BY <2>1, <2>5, <2>7, <2>8, <2>9, GoesOnKeeps
<1>3. ASSUME NEW snapshot \in Snapshot, RefuseRun(snapshot)
      PROVE  OrchestratorInv' /\ run'.phase = "idle"
  <2>1. PICK reason \in StopReasons : Stop(reason, NoTask, {})
    BY <1>3 DEF RefuseRun, StopReasons
  <2>2. PICK escalation \in TaskIds \cup {NoTask}, refused \in SUBSET TaskIds :
          escalation = NoTask /\ refused = {}
    OBVIOUS
  <2>3. Stop(reason, escalation, refused)
    BY <2>1, <2>2
  <2>4. refused = {} /\ ~ (escalation # NoTask)
    BY <2>2
  <2>5. QED
    BY <2>3, <2>4, StopKeeps, Zenon
<1>4. ASSUME RunDies PROVE OrchestratorInv' /\ run'.phase = "idle"
  <2>1. run' = NoRun /\ UNCHANGED <<roadmap, development, report, runs, checkpoints>>
    BY <1>4 DEF RunDies
  <2>2. RunTold'
    BY <2>1, NoRunShape DEF RunTold
  <2>3. run' \in Run /\ development' \in DevelopmentState /\ runs' \in 0 .. MaxRuns
    BY <1>1, <2>1, NoRunShape DEF OrchestratorTypeOK
  <2>4. UNCHANGED <<roadmap, report, checkpoints>>
    BY <2>1
  <2>5. QED
    BY <2>1, <2>2, <2>3, <2>4, NoRunShape, GoesOnKeeps
<1>5. ASSUME NEW request \in CheckpointRequests, Checkpoint(request)
      PROVE  OrchestratorInv' /\ run' = run
  <2>1. /\ CheckpointAllowed(request) /\ checkpoints' = checkpoints \cup {request}
        /\ UNCHANGED <<roadmap, development, run, report, runs>>
    BY <1>5 DEF Checkpoint
  <2>2. /\ request \in CheckpointRequest /\ request.operations \in {"checkpoint", "force"}
        /\ request.branch \in {"feature/a", "main", "release/a", "topic"}
    BY CheckpointsTyped
  <2>3. OrchestratorTypeOK'
    BY <1>1, <2>1, <2>2 DEF OrchestratorTypeOK
  <2>4. /\ request.branch = "feature/a" /\ request.operations = "checkpoint"
        /\ {request.upstream_remote, request.target_remote} = {"origin"}
        /\ {request.upstream_branch, request.target_branch} = {request.branch}
        /\ \A p \in Preconditions : p \in request.preconditions
    BY <2>1, <2>2 DEF CheckpointAllowed, BranchAuthorised, UpstreamMatches
  <2>5. CheckpointConfined'
    BY <1>1, <2>1, <2>4 DEF CheckpointConfined
  <2>6. RunTold' /\ EscalationVisible'
    BY <1>1, <2>1 DEF RunTold, EscalationVisible
  <2>7. QED
    BY <2>1, <2>3, <2>5, <2>6 DEF OrchestratorInv
<1>6. QED
  BY <1>2, <1>3, <1>4, <1>5

LEMMA OrchestratorStep ==
  OrchestratorInv /\ [OrchestratorNext]_orchestratorVars => OrchestratorInv'
<1> SUFFICES ASSUME OrchestratorInv, [OrchestratorNext]_orchestratorVars PROVE OrchestratorInv'
  OBVIOUS
<1>1. CASE RunStep
  BY <1>1, RunStepGoes DEF Goes
<1>2. CASE \/ \E snapshot \in Snapshot : StartRun(snapshot) \/ RefuseRun(snapshot)
           \/ RunDies
           \/ \E request \in CheckpointRequests : Checkpoint(request)
  BY <1>2, AroundRunsKeeps
<1>3. CASE UNCHANGED orchestratorVars
  BY <1>3 DEF orchestratorVars, OrchestratorInv, OrchestratorTypeOK, RunTold, EscalationVisible,
              CheckpointConfined
<1>4. QED
  BY <1>1, <1>2, <1>3, Zenon DEF OrchestratorNext

OrchestratorSpec == OrchestratorInit /\ [][OrchestratorNext]_orchestratorVars

\* However a run goes and wherever it dies, its report names a task it was refused if it
\* was refused any, and only a conforming checkpoint is pushed (orchestrator.py).
THEOREM OrchestratorStands == OrchestratorSpec => []OrchestratorInv
<1>1. QED
  BY OrchestratorInitInv, OrchestratorStep, PTL DEF OrchestratorSpec

\* The limits of a run make it end: no step of it leaves as much to do as it found, for
\* any number of tasks, repair cycles and repeated failures (run, _execute_task).
THEOREM OrchestratorDescends == OrchestratorSpec => RunDescends
<1>1. OrchestratorInv /\ [OrchestratorNext]_orchestratorVars =>
        [run.phase # "idle" /\ run'.phase # "idle" => WorkLeft(run') < WorkLeft(run)]_run
  <2> SUFFICES ASSUME OrchestratorInv, [OrchestratorNext]_orchestratorVars, run' # run,
                      run.phase # "idle", run'.phase # "idle"
               PROVE  WorkLeft(run') < WorkLeft(run)
    OBVIOUS
  <2>1. CASE RunStep
    BY <2>1, RunStepGoes DEF Goes
  <2>2. CASE \/ \E snapshot \in Snapshot : StartRun(snapshot) \/ RefuseRun(snapshot)
             \/ RunDies
             \/ \E request \in CheckpointRequests : Checkpoint(request)
    BY <2>2, AroundRunsKeeps
  <2>3. CASE UNCHANGED orchestratorVars
    BY <2>3 DEF orchestratorVars
  <2>4. QED
    BY <2>1, <2>2, <2>3, Zenon DEF OrchestratorNext
<1>2. QED
  BY <1>1, OrchestratorStands, PTL DEF OrchestratorSpec, RunDescends

(***************************************************************************)
(* The capability policy.                                                  *)
(***************************************************************************)

PolicyInv ==
    /\ capability = Unregistered \/ capability \in Registered
    /\ rules \subseteq Rule /\ IsFiniteSet(rules)
    /\ moment \in 0 .. PolicyHorizon

\* What evaluate makes of the rules that match a request at an instant.
PermissionOf(matches, request, now) ==
    LET finalists == MostSpecific(matches)
        selected == CHOOSE rule \in finalists : TRUE
    IN CASE ~ AllowsDomain(request.principal, request.domain) -> "prohibited"
         [] OTHER ->
            IF \E rule \in matches : Prohibits(rule) THEN "prohibited"
            ELSE IF matches = {} THEN "indeterminate"
            ELSE IF Cardinality({Signature(rule) : rule \in finalists}) # 1 THEN "indeterminate"
            ELSE IF now >= selected.expires_at THEN "indeterminate"
            ELSE selected.outcome

LEMMA PermissionIs ==
  ASSUME NEW request PROVE Permission(request) = PermissionOf(Matching(request), request, moment)
BY DEF Permission, PermissionOf

LEMMA SpecificityNat == \A rule : Specificity(rule) \in Nat
<1> SUFFICES ASSUME NEW rule PROVE Specificity(rule) \in Nat
  OBVIOUS
<1> DEFINE both == {<<"operations", rule.operations>>, <<"scopes", rule.scopes>>}
           chosen == {s \in both : s[2] # {}}
<1>1. IsFiniteSet(both)
  <2>1. both = {<<"operations", rule.operations>>} \cup {<<"scopes", rule.scopes>>}
    OBVIOUS
  <2> HIDE DEF both
  <2>2. QED
    BY <2>1, FS_Singleton, FS_AddElement
<1>2. IsFiniteSet(chosen)
  <2>1. chosen \subseteq both
    OBVIOUS
  <2> HIDE DEF both, chosen
  <2>2. QED
    BY <1>1, <2>1, FS_Subset, Zenon
<1>3. Specificity(rule) = Cardinality(chosen)
  BY Zenon DEF Specificity
<1> HIDE DEF chosen
<1>4. QED
  BY <1>2, <1>3, FS_CardinalityType

LEMMA SignaturesFinite ==
  ASSUME NEW S, IsFiniteSet(S) PROVE IsFiniteSet({Signature(rule) : rule \in S})
<1> DEFINE T == {Signature(rule) : rule \in S}
           f == [rule \in S |-> Signature(rule)]
<1>1. f \in Surjection(S, T)
  BY DEF Surjection
<1> HIDE DEF f, T
<1>2. IsFiniteSet(T)
  BY <1>1, FS_Surjection, Zenon
<1>3. QED
  BY <1>2 DEF T

\* Two rules that decide alike.
SaysAs(rule, other) ==
    /\ rule.outcome = other.outcome /\ rule.expires_at = other.expires_at
    /\ rule.approval_ref = other.approval_ref

\* A permission that allows: the rule it comes from, and what the others say.
LEMMA AllowedByRule ==
  ASSUME NEW matches \in SUBSET Rule, IsFiniteSet(matches), NEW request, NEW now \in 0 .. PolicyHorizon,
         PermissionAllows(PermissionOf(matches, request, now))
  PROVE  /\ AllowsDomain(request.principal, request.domain)
         /\ \A rule \in matches : ~ Prohibits(rule)
         /\ \E allow \in matches :
              /\ PermissionAllows(allow.outcome) /\ now < allow.expires_at
              /\ \A rule \in matches : Specificity(rule) >= Specificity(allow) =>
                    SaysAs(rule, allow)
         /\ \A earlier \in 0 .. PolicyHorizon : earlier <= now =>
              PermissionOf(matches, request, earlier) = PermissionOf(matches, request, now)
<1>1. PICK finalists \in SUBSET matches : finalists = MostSpecific(matches)
  BY DEF MostSpecific
<1>2. PICK selected : selected = CHOOSE rule \in finalists : TRUE
  OBVIOUS
<1>3. \A at : PermissionOf(matches, request, at) =
         IF ~ AllowsDomain(request.principal, request.domain) THEN "prohibited"
         ELSE IF \E rule \in matches : Prohibits(rule) THEN "prohibited"
         ELSE IF matches = {} THEN "indeterminate"
         ELSE IF Cardinality({Signature(rule) : rule \in finalists}) # 1 THEN "indeterminate"
         ELSE IF at >= selected.expires_at THEN "indeterminate"
         ELSE selected.outcome
  BY <1>1, <1>2 DEF PermissionOf
<1>4. ~ PermissionAllows("prohibited") /\ ~ PermissionAllows("indeterminate")
  BY DEF PermissionAllows
<1>5. /\ AllowsDomain(request.principal, request.domain)
      /\ \A rule \in matches : ~ Prohibits(rule)
      /\ matches # {} /\ Cardinality({Signature(rule) : rule \in finalists}) = 1
      /\ ~ (now >= selected.expires_at)
      /\ PermissionOf(matches, request, now) = selected.outcome
  BY <1>3, <1>4, Zenon
<1>6. PICK said : {Signature(rule) : rule \in finalists} = {said}
  <2>1. IsFiniteSet(finalists)
    BY <1>1, FS_Subset
  <2>2. IsFiniteSet({Signature(rule) : rule \in finalists})
    BY <2>1, SignaturesFinite
  <2>3. QED
    BY <1>5, <2>2, FS_Singleton
<1>7. selected \in finalists
  <2>1. finalists # {}
    BY <1>6
  <2>2. QED
    BY <1>2, <2>1
<1>8. selected \in matches /\ selected \in Rule
  BY <1>1, <1>7
<1>9. selected.expires_at \in Nat /\ now \in Nat
  BY <1>8, PolicyAssumption DEF Rule, Never
<1>10. now < selected.expires_at
  BY <1>5, <1>9
<1>11. ASSUME NEW rule \in matches, Specificity(rule) >= Specificity(selected)
       PROVE  SaysAs(rule, selected)
  <2>1. \A other \in matches : Specificity(other) <= Specificity(selected)
    BY <1>1, <1>7 DEF MostSpecific
  <2>2. \A other \in matches : Specificity(other) <= Specificity(rule)
    BY <1>11, <2>1, SpecificityNat
  <2>3. rule \in finalists
    BY <1>1, <2>2 DEF MostSpecific
  <2>4. Signature(rule) = said /\ Signature(selected) = said
    BY <1>6, <1>7, <2>3
  <2>5. Signature(rule) = Signature(selected)
    BY <2>4
  <2>6. QED
    BY <2>5 DEF Signature, SaysAs
<1>12. ASSUME NEW earlier \in 0 .. PolicyHorizon, earlier <= now
       PROVE  PermissionOf(matches, request, earlier) = PermissionOf(matches, request, now)
  <2>1. ~ (earlier >= selected.expires_at)
    BY <1>9, <1>10, <1>12
  <2>2. PermissionOf(matches, request, earlier) = selected.outcome
    BY <1>3, <1>5, <2>1, Zenon
  <2>3. QED
    BY <1>5, <2>2
<1>13. PermissionAllows(selected.outcome)
  BY <1>5
<1>14. QED
  BY <1>5, <1>8, <1>10, <1>11, <1>12, <1>13, Zenon

LEMMA MatchingTyped ==
  ASSUME PolicyInv, NEW request
  PROVE  Matching(request) \in SUBSET Rule /\ IsFiniteSet(Matching(request))
<1>1. Matching(request) \subseteq rules
  BY DEF Matching
<1>2. QED
  BY <1>1, FS_Subset DEF PolicyInv

\* evaluate_capability_use says ready: the registry and the permission say so, each.
LEMMA ReadyIs ==
  ASSUME NEW request, UseDecision(request) = "ready"
  PROVE  /\ Resolution(request.operation, request.domain) = "ready"
         /\ PermissionAllows(Permission(request))
<1>1. PICK status : status = Resolution(request.operation, request.domain)
  OBVIOUS
<1>2. PICK permission : permission = Permission(request)
  OBVIOUS
<1>3. UseDecision(request) =
        IF permission = "prohibited" THEN "prohibited"
        ELSE IF status # "ready" THEN status
        ELSE IF permission = "approval_required" THEN "approval_required"
        ELSE IF PermissionAllows(permission) THEN "ready" ELSE "indeterminate"
  BY <1>1, <1>2 DEF UseDecision
<1>4. status = "ready" /\ PermissionAllows(permission)
  BY <1>3
<1>5. QED
  BY <1>1, <1>2, <1>4

LEMMA ReadyWhen ==
  ASSUME NEW request, Resolution(request.operation, request.domain) = "ready",
         PermissionAllows(Permission(request))
  PROVE  UseDecision(request) = "ready"
<1>1. PICK permission : permission = Permission(request)
  OBVIOUS
<1>2. permission # "prohibited" /\ permission # "approval_required" /\ PermissionAllows(permission)
  BY <1>1 DEF PermissionAllows
<1>3. QED
  BY <1>1, <1>2 DEF UseDecision

\* The registry finds a capability ready only when every one of its checks passes.
LEMMA ResolvedReady ==
  ASSUME PolicyInv, NEW operation, NEW domain, Resolution(operation, domain) = "ready"
  PROVE  /\ capability.registered /\ capability \in Registered
         /\ operation \in capability.manifest.operations /\ domain.id \in capability.manifest.domains
         /\ capability.runtime = [status |-> "ready", authenticated |-> TRUE,
                                  unavailable_dependencies |-> FALSE, missing_permissions |-> FALSE]
<1>1. capability.registered
  BY DEF Resolution
<1>2. capability \in Registered
  BY <1>1 DEF PolicyInv, Unregistered
<1>3. PICK runtime \in Runtime : runtime = capability.runtime
  BY <1>2 DEF Registered
<1>4. Resolution(operation, domain) =
        IF operation \notin capability.manifest.operations \/ domain.id \notin capability.manifest.domains
          THEN "unavailable"
        ELSE IF runtime.status \in {"disabled", "indeterminate"} THEN runtime.status
        ELSE IF ~ runtime.authenticated THEN "authentication_required"
        ELSE IF runtime.unavailable_dependencies THEN "unavailable"
        ELSE IF runtime.missing_permissions THEN "permission_required"
        ELSE runtime.status
  BY <1>1, <1>3 DEF Resolution
<1>5. operation \in capability.manifest.operations /\ domain.id \in capability.manifest.domains
  BY <1>4
<1>6. /\ runtime.status = "ready" /\ runtime.authenticated
      /\ ~ runtime.unavailable_dependencies /\ ~ runtime.missing_permissions
  BY <1>4
<1>7. runtime = [status |-> "ready", authenticated |-> TRUE,
                 unavailable_dependencies |-> FALSE, missing_permissions |-> FALSE]
  BY <1>6 DEF Runtime
<1>8. QED
  BY <1>1, <1>2, <1>3, <1>5, <1>7

LEMMA ReadyIsJustified == PolicyInv => ReadyJustified
<1> SUFFICES ASSUME PolicyInv, NEW r \in PermissionRequests, UseDecision(r) = "ready"
             PROVE  /\ EvidenceEligible(r.principal, r.domain)
                    /\ capability.registered
                    /\ r.operation \in capability.manifest.operations
                    /\ r.domain.id \in capability.manifest.domains
                    /\ capability.runtime = [status |-> "ready", authenticated |-> TRUE,
                                             unavailable_dependencies |-> FALSE, missing_permissions |-> FALSE]
                    /\ ~ \E rule \in rules : RuleMatches(rule, r) /\ Prohibits(rule)
                    /\ \E allow \in rules :
                        /\ RuleMatches(allow, r) /\ PermissionAllows(allow.outcome) /\ moment < allow.expires_at
                        /\ \A rule \in rules : RuleMatches(rule, r) /\ Specificity(rule) >= Specificity(allow) =>
                                /\ rule.outcome = allow.outcome /\ rule.expires_at = allow.expires_at
                                /\ rule.approval_ref = allow.approval_ref
                    /\ ~ OnboardingRequested(r.operation, r.domain)
  BY DEF ReadyJustified
<1>1. Resolution(r.operation, r.domain) = "ready" /\ PermissionAllows(Permission(r))
  BY ReadyIs
<1>2. /\ capability.registered
      /\ r.operation \in capability.manifest.operations /\ r.domain.id \in capability.manifest.domains
      /\ capability.runtime = [status |-> "ready", authenticated |-> TRUE,
                               unavailable_dependencies |-> FALSE, missing_permissions |-> FALSE]
  BY <1>1, ResolvedReady, Zenon
<1>3. ~ OnboardingRequested(r.operation, r.domain)
  BY <1>1 DEF OnboardingRequested
<1>4. PICK matches \in SUBSET Rule : matches = Matching(r) /\ IsFiniteSet(matches)
  BY MatchingTyped
<1>5. PICK now \in 0 .. PolicyHorizon : now = moment
  BY DEF PolicyInv
<1>6. PermissionAllows(PermissionOf(matches, r, now))
  BY <1>1, <1>4, <1>5, PermissionIs
<1>7. /\ AllowsDomain(r.principal, r.domain)
      /\ \A rule \in matches : ~ Prohibits(rule)
      /\ \E allow \in matches :
           /\ PermissionAllows(allow.outcome) /\ now < allow.expires_at
           /\ \A rule \in matches : Specificity(rule) >= Specificity(allow) =>
                 SaysAs(rule, allow)
  BY <1>4, <1>6, AllowedByRule, Zenon
<1>8. \A rule : rule \in matches <=> rule \in rules /\ RuleMatches(rule, r)
  BY <1>4 DEF Matching
<1>9. ~ \E rule \in rules : RuleMatches(rule, r) /\ Prohibits(rule)
  BY <1>7, <1>8, Zenon
<1>10. \E allow \in rules :
          /\ RuleMatches(allow, r) /\ PermissionAllows(allow.outcome) /\ moment < allow.expires_at
          /\ \A rule \in rules : RuleMatches(rule, r) /\ Specificity(rule) >= Specificity(allow) =>
                  SaysAs(rule, allow)
  BY <1>5, <1>7, <1>8, Zenon
<1>11. EvidenceEligible(r.principal, r.domain)
  BY <1>7 DEF EvidenceEligible
<1>12. QED
  BY <1>2, <1>3, <1>9, <1>10, <1>11, Zenon DEF SaysAs

LEMMA PolicyInitInv == PolicyInit => PolicyInv
<1>1. PolicyInit => moment \in 0 .. PolicyHorizon
  BY PolicyAssumption DEF PolicyInit
<1>2. QED
  BY <1>1, FS_EmptySet DEF PolicyInit, PolicyInv

LEMMA RegistrationsTyped ==
  \A manifest \in Manifests, runtime \in Runtimes :
      [registered |-> TRUE, manifest |-> manifest, runtime |-> runtime] \in Registered
<1>1. Manifests \subseteq Manifest
  BY DEF Manifests, Manifest, Operations
<1>2. Runtimes \subseteq Runtime
  <2>1. [status |-> "ready", authenticated |-> TRUE, unavailable_dependencies |-> FALSE,
         missing_permissions |-> FALSE] \in Runtime
    BY DEF Runtime, CapabilityStatuses
  <2>2. QED
    BY <2>1, ZenonT(60) DEF Runtimes, Runtime, CapabilityStatuses
<1>3. QED
  BY <1>1, <1>2 DEF Registered

LEMMA PolicyStep ==
  PolicyInv /\ [PolicyNext]_policyVars => PolicyInv' /\ moment <= moment'
<1> SUFFICES ASSUME PolicyInv, [PolicyNext]_policyVars PROVE PolicyInv' /\ moment <= moment'
  OBVIOUS
<1> USE DEF PolicyInv
<1>1. ASSUME NEW manifest \in Manifests, NEW runtime \in Runtimes, Register(manifest, runtime)
      PROVE  PolicyInv' /\ moment <= moment'
  BY <1>1, RegistrationsTyped DEF Register
<1>2. CASE Unregister
  BY <1>2 DEF Unregister
<1>3. ASSUME NEW rule \in Rule, AddRule(rule) PROVE PolicyInv' /\ moment <= moment'
  BY <1>3, FS_AddElement DEF AddRule
<1>4. ASSUME NEW rule \in rules, RemoveRule(rule) PROVE PolicyInv' /\ moment <= moment'
  BY <1>4, FS_RemoveElement DEF RemoveRule
<1>5. CASE PolicyTick
  BY <1>5, PolicyAssumption DEF PolicyTick
<1>6. CASE UNCHANGED policyVars
  BY <1>6 DEF policyVars
<1>7. QED
  BY <1>1, <1>2, <1>3, <1>4, <1>5, <1>6, Zenon DEF PolicyNext

\* A step that takes nothing away from the rules and adds prohibitions only.
LEMMA GrantsStay ==
  ASSUME PolicyInv, PolicyInv', moment <= moment',
         capability' = capability \/ capability' = Unregistered,
         rules \subseteq rules', \A rule \in rules' \ rules : Prohibits(rule),
         NEW r \in PermissionRequests, UseDecision(r)' = "ready"
  PROVE  UseDecision(r) = "ready"
<1>1. PICK status : status = Resolution(r.operation, r.domain)'
  OBVIOUS
<1>2. PICK permission : permission = Permission(r)'
  OBVIOUS
<1>3. UseDecision(r)' =
        IF permission = "prohibited" THEN "prohibited"
        ELSE IF status # "ready" THEN status
        ELSE IF permission = "approval_required" THEN "approval_required"
        ELSE IF PermissionAllows(permission) THEN "ready" ELSE "indeterminate"
  BY <1>1, <1>2 DEF UseDecision
<1>4. status = "ready" /\ PermissionAllows(permission)
  BY <1>3
<1>5. capability'.registered
  BY <1>1, <1>4 DEF Resolution
<1>6. capability' = capability
  BY <1>5 DEF Unregistered
<1>7. Resolution(r.operation, r.domain) = "ready"
  BY <1>1, <1>4, <1>6 DEF Resolution
<1>8. PICK matches \in SUBSET Rule : matches = Matching(r)' /\ IsFiniteSet(matches)
  <2>1. Matching(r)' \subseteq rules'
    BY DEF Matching
  <2>2. rules' \subseteq Rule /\ IsFiniteSet(rules')
    BY DEF PolicyInv
  <2>3. QED
    BY <2>1, <2>2, FS_Subset
<1>9. PICK now \in 0 .. PolicyHorizon : now = moment'
  BY DEF PolicyInv
<1>10. permission = PermissionOf(matches, r, now)
  BY <1>2, <1>8, <1>9 DEF Permission, PermissionOf
<1>11. PermissionAllows(PermissionOf(matches, r, now))
  BY <1>4, <1>10
<1>12. /\ \A rule \in matches : ~ Prohibits(rule)
       /\ \A earlier \in 0 .. PolicyHorizon : earlier <= now =>
            PermissionOf(matches, r, earlier) = PermissionOf(matches, r, now)
  <2>1. IsFiniteSet(matches)
    BY <1>8
  <2>2. QED
    BY <1>11, <2>1, AllowedByRule
<1>13. Matching(r) = matches
  BY <1>8, <1>12 DEF Matching
<1>14. moment \in 0 .. PolicyHorizon /\ moment <= now
  BY <1>9 DEF PolicyInv
<1>15. Permission(r) = permission
  BY <1>10, <1>12, <1>13, <1>14, PermissionIs
<1>16. QED
  BY <1>4, <1>7, <1>15, ReadyWhen

PolicySpec == PolicyInit /\ [][PolicyNext]_policyVars

THEOREM PolicyStands == PolicySpec => []PolicyInv
<1>1. QED
  BY PolicyInitInv, PolicyStep, PTL DEF PolicySpec

\* For any rules, registrations and instants: what is ready is ready by every authority
\* (evaluate_capability_use).
THEOREM PolicyJustified == PolicySpec => []ReadyJustified
<1>1. QED
  BY PolicyStands, ReadyIsJustified, PTL

\* Neither the clock nor an unregistration nor a prohibition makes anything ready
\* (PermissionEvaluator.evaluate).
THEOREM PolicyGrants == PolicySpec => OnlyGrantsGrant
<1>1. PolicyInv /\ [PolicyNext]_policyVars =>
        [(/\ policyVars' # policyVars
          /\ capability' = capability \/ capability' = Unregistered
          /\ rules \subseteq rules' /\ \A rule \in rules' \ rules : Prohibits(rule)) =>
            \A r \in PermissionRequests : UseDecision(r)' = "ready" => UseDecision(r) = "ready"]_policyVars
  BY PolicyStep, GrantsStay, Zenon
<1>2. QED
  BY <1>1, PolicyStands, PTL DEF PolicySpec, OnlyGrantsGrant
=============================================================================
