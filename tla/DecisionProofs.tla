---------------------------- MODULE DecisionProofs ----------------------------
(***************************************************************************)
(* Proofs about decisions on what others propose: the review of actions,   *)
(* the admission of mail, and the assembly of a context with its           *)
(* disclosure, for any number of proposals and any reviews, for any pages, *)
(* folders and snapshots, for any limits of a context.                     *)
(***************************************************************************)
EXTENDS ActionReview, MailAdmission, ContextDisclosure, SequenceTheorems, FiniteSetTheorems, TLAPS

(***************************************************************************)
(* Action proposals.                                                       *)
(***************************************************************************)
Proposal ==
    [status : ActionStatuses \cup {"none"}, evidence : SUBSET Evidence, expires : SUBSET Nat,
     reviewed : BOOLEAN, heir : SUBSET ProposalIds, decided : {"no", "yes", "approvable"}]

\* What a proposal alone has to satisfy: a status says how it was decided, and only
\* what was superseded has an heir.
ProposalSound(p) ==
    /\ p.status = "approved_for_execution" /\ p.reviewed => p.decided = "approvable"
    /\ p.status \in {"executed", "failed"} => ~ p.reviewed
    /\ p.reviewed <=> p.decided # "no"
    /\ p.heir # {} => p.status = "superseded"
    /\ p.status = "none" => p = NoProposal
    /\ p.status # "none" => p.evidence # {}

ActionInv ==
    /\ proposals \in [ProposalIds -> Proposal]
    /\ currentEvidence \subseteq Evidence
    /\ actionClock \in Nat
    /\ \A id \in ProposalIds : ProposalSound(proposals[id])
    /\ \A id \in ProposalIds : \A heir \in proposals[id].heir : proposals[heir].status # "none"

LEMMA NoProposalSound == NoProposal \in Proposal /\ ProposalSound(NoProposal)
BY DEF NoProposal, Proposal, ProposalSound, ActionStatuses

LEMMA PlannedSound ==
  ASSUME ActionInv, NEW e \in Evidence, NEW draft \in BOOLEAN
  PROVE  /\ Planned(e, draft) \in Proposal
         /\ ProposalSound(Planned(e, draft))
         /\ Planned(e, draft).status \in {"proposed", "awaiting_review"}
         /\ Planned(e, draft).heir = {}
         /\ Planned(e, draft).decided = "no" /\ Planned(e, draft).evidence = {e}
<1>1. PICK status \in {"proposed", "awaiting_review"} :
        status = IF draft THEN "awaiting_review" ELSE "proposed"
  OBVIOUS
<1>2. PICK expires \in SUBSET Nat : expires = {actionClock + ProposalLife}
  <2>1. actionClock + ProposalLife \in Nat
    BY ActionAssumption DEF ActionInv
  <2>2. QED
    BY <2>1, Zenon
<1>3. Planned(e, draft) = [status |-> status, evidence |-> {e}, expires |-> expires,
                           reviewed |-> FALSE, heir |-> {}, decided |-> "no"]
  <2>1. PICK p1 \in Proposal : p1 = [NoProposal EXCEPT !.status = status]
    BY NoProposalSound DEF Proposal, ActionStatuses
  <2>2. PICK p2 \in Proposal : p2 = [p1 EXCEPT !.evidence = {e}]
    BY DEF Proposal
  <2>3. PICK p3 \in Proposal : p3 = [p2 EXCEPT !.expires = expires]
    BY DEF Proposal
  <2>4. Planned(e, draft) = p3
    BY <1>1, <1>2, <2>1, <2>2, <2>3 DEF Planned, Proposal, NoProposal
  <2>5. QED
    BY <2>1, <2>2, <2>3, <2>4 DEF Proposal, NoProposal
<1>4. QED
  BY <1>3 DEF Proposal, ProposalSound, ActionStatuses, NoProposal

\* A review that is admitted leaves a sound proposal of the status it asks for.
LEMMA ReviewedSound ==
  ASSUME NEW p \in Proposal, ProposalSound(p), p.status # "none", NEW review \in Reviews,
         NEW now, NEW current, NEW then, NEW evidence,
         ReviewAdmits(p, review, then, evidence),
         review.status = "approved_for_execution" => then = now /\ evidence = current
  PROVE  /\ Reviewed(p, review, now, current) \in Proposal
         /\ ProposalSound(Reviewed(p, review, now, current))
         /\ Reviewed(p, review, now, current).status = review.status
         /\ Reviewed(p, review, now, current).heir = {} /\ p.heir = {}
         /\ review.status # "none"
<1>1. PICK decided \in {"yes", "approvable"} :
        decided = IF /\ p.status = "awaiting_review"
                     /\ \A expiry \in p.expires : now < expiry
                     /\ p.evidence \subseteq current
                  THEN "approvable" ELSE "yes"
  OBVIOUS
<1>2. PICK q \in Proposal : q = p
  OBVIOUS
<1>3. Reviewed(p, review, now, current) =
        [status |-> review.status, evidence |-> p.evidence, expires |-> p.expires,
         reviewed |-> TRUE, heir |-> p.heir, decided |-> decided]
  <2>1. PICK p1 \in Proposal : p1 = [p EXCEPT !.status = review.status]
    BY DEF Proposal, Reviews
  <2>2. PICK p2 \in Proposal : p2 = [p1 EXCEPT !.reviewed = TRUE]
    BY DEF Proposal
  <2>3. PICK p3 \in Proposal : p3 = [p2 EXCEPT !.decided = decided]
    BY DEF Proposal
  <2>4. Reviewed(p, review, now, current) = p3
    BY <1>1, <2>1, <2>2, <2>3 DEF Reviewed, Proposal
  <2>5. p3 = [status |-> review.status, evidence |-> p.evidence, expires |-> p.expires,
              reviewed |-> TRUE, heir |-> p.heir, decided |-> decided]
    BY <2>1, <2>2, <2>3, ZenonT(60) DEF Proposal
  <2>6. QED
    BY <2>4, <2>5
<1>4. review.status \in ActionStatuses /\ review.status \notin {"executed", "failed", "none"}
  BY DEF Reviews, ReviewAdmits, ActionStatuses, Closed
<1>5. review.status \in Allowed(p.status)
  BY DEF ReviewAdmits
<1>6. p.status # "superseded"
  BY <1>5 DEF Allowed
<1>7. p.heir = {}
  BY <1>6 DEF ProposalSound
<1>8. review.status = "approved_for_execution" => decided = "approvable"
  <2> SUFFICES ASSUME review.status = "approved_for_execution" PROVE decided = "approvable"
    OBVIOUS
  <2>1. p.status = "awaiting_review"
    BY <1>5 DEF Allowed, Closed
  <2>2. (\A expiry \in p.expires : now < expiry) /\ p.evidence \subseteq current
    BY DEF ReviewAdmits, Approvable
  <2>3. QED
    BY <1>1, <2>1, <2>2
<1>9. Reviewed(p, review, now, current) \in Proposal
  BY <1>3, <1>4 DEF Proposal
<1>10. ProposalSound(Reviewed(p, review, now, current))
  BY <1>1, <1>3, <1>4, <1>7, <1>8 DEF ProposalSound
<1>11. QED
  BY <1>3, <1>4, <1>7, <1>9, <1>10

\* A step that stores sound proposals, takes none away and links to stored ones.
LEMMA ProposalsStep ==
  ASSUME ActionInv, proposals' \in [ProposalIds -> Proposal],
         currentEvidence' \subseteq Evidence, actionClock' \in Nat,
         \A id \in ProposalIds : ProposalSound(proposals'[id]),
         \A id \in ProposalIds : proposals[id].status # "none" => proposals'[id].status # "none",
         \A id \in ProposalIds : \A heir \in proposals'[id].heir :
            heir \in proposals[id].heir \/ proposals'[heir].status # "none"
  PROVE  ActionInv'
<1>1. \A id \in ProposalIds : proposals[id].heir \subseteq ProposalIds
  BY DEF ActionInv, Proposal
<1>2. QED
  BY <1>1 DEF ActionInv

LEMMA PlanActionStep ==
  ASSUME ActionInv, NEW id \in ProposalIds, NEW e \in Evidence, NEW inDomain \in BOOLEAN,
         NEW draft \in BOOLEAN, PlanAction(id, e, inDomain, draft)
  PROVE  ActionInv'
<1>1. PICK plan \in Proposal : /\ plan = Planned(e, draft) /\ ProposalSound(plan)
                               /\ plan.status # "none" /\ plan.heir = {}
  BY PlannedSound
<1>2. proposals' = [proposals EXCEPT ![id] = plan]
  BY <1>1 DEF PlanAction
<1>3. /\ proposals' \in [ProposalIds -> Proposal]
      /\ proposals'[id] = plan
      /\ \A other \in ProposalIds \ {id} : proposals'[other] = proposals[other]
  BY <1>2 DEF ActionInv
<1>4. currentEvidence' = currentEvidence /\ actionClock' = actionClock
  BY DEF PlanAction
<1>5. QED
  BY <1>1, <1>3, <1>4, ProposalsStep DEF ActionInv

LEMMA ReviewStep ==
  ASSUME ActionInv, NEW id \in ProposalIds, NEW review \in Reviews, ReviewProposal(id, review)
  PROVE  ActionInv'
<1>1. proposals[id] \in Proposal /\ ProposalSound(proposals[id]) /\ proposals[id].status # "none"
  BY DEF ActionInv, ReviewProposal, Exists, ProposalSound
<1>2. PICK next \in Proposal :
        /\ next = Reviewed(proposals[id], review, actionClock, currentEvidence)
        /\ ProposalSound(next) /\ next.status # "none" /\ next.heir = {}
  BY <1>1, ReviewedSound DEF ReviewProposal
<1>3. proposals' = [proposals EXCEPT ![id] = next]
  BY <1>2 DEF ReviewProposal
<1>4. /\ proposals' \in [ProposalIds -> Proposal]
      /\ proposals'[id] = next
      /\ \A other \in ProposalIds \ {id} : proposals'[other] = proposals[other]
  BY <1>3 DEF ActionInv
<1>5. currentEvidence' = currentEvidence /\ actionClock' = actionClock
  BY DEF ReviewProposal
<1>6. QED
  BY <1>2, <1>4, <1>5, ProposalsStep DEF ActionInv

LEMMA SupersededSound ==
  ASSUME ActionInv, NEW id \in ProposalIds, NEW review \in Supersessions, Supersedes(id, review)
  PROVE  /\ proposals[id].status # "none"
         /\ Superseded(id, review) \in Proposal /\ ProposalSound(Superseded(id, review))
         /\ Superseded(id, review).status = "superseded" /\ Superseded(id, review).heir = {}
<1>1. /\ proposals[id] \in Proposal /\ ProposalSound(proposals[id])
      /\ proposals[id].status # "none"
      /\ review \in Reviews /\ review.status = "superseded"
  BY DEF ActionInv, Supersedes, Exists, ProposalSound, Supersessions
<1>2. QED
  BY <1>1, ReviewedSound DEF Supersedes, Superseded

LEMMA RefusalStep ==
  ASSUME ActionInv, NEW id \in ProposalIds, NEW review \in Supersessions,
         RefuseReplacement(id, review)
  PROVE  ActionInv'
<1>1. PICK old \in Proposal :
        old = Superseded(id, review) /\ ProposalSound(old) /\ old.status = "superseded"
          /\ old.heir = {}
  BY SupersededSound DEF RefuseReplacement
<1>2. currentEvidence' = currentEvidence /\ actionClock' = actionClock
  BY DEF RefuseReplacement
<1>3. /\ proposals' \in [ProposalIds -> Proposal]
      /\ proposals'[id] = old
      /\ \A other \in ProposalIds \ {id} : proposals'[other] = proposals[other]
  BY <1>1 DEF ActionInv, RefuseReplacement
<1>4. QED
  BY <1>1, <1>2, <1>3, ProposalsStep DEF ActionInv

LEMMA ReviseStep ==
  ASSUME ActionInv, NEW id \in ProposalIds, NEW new \in ProposalIds,
         NEW review \in Supersessions, NEW replacement \in Replacements,
         Revise(id, new, review, replacement)
  PROVE  ActionInv'
<1>1. PICK old \in Proposal :
        old = Superseded(id, review) /\ ProposalSound(old) /\ old.status = "superseded"
          /\ old.heir = {}
  BY SupersededSound DEF Revise
<1>2. currentEvidence' = currentEvidence /\ actionClock' = actionClock
  BY DEF Revise
<1>3. id # new /\ ~ Exists(new)
  BY DEF Revise, Supersedes
<1>4. PICK status \in ActionStatuses, cited \in (SUBSET Evidence) \ {{}}, expires \in Expiries :
        replacement = Replacement(status, cited, expires)
  BY DEF Replacements
<1>5. /\ replacement \in Proposal /\ replacement.status # "none"
      /\ replacement.heir = {} /\ replacement.decided = "no" /\ replacement.reviewed = FALSE
      /\ replacement.evidence # {}
  <2>1. status # "none"
    BY DEF ActionStatuses, Closed
  <2>2. expires \in SUBSET Nat
    BY ActionAssumption DEF Expiries
  <2>3. QED
    BY <1>4, <2>1, <2>2 DEF Replacement, NoProposal, Proposal
<1>6. ProposalSound(replacement)
  BY <1>5 DEF ProposalSound
<1>7. PICK gone \in Proposal : gone = [old EXCEPT !.heir = {new}]
  BY DEF Proposal
<1>8. /\ gone.status = "superseded" /\ gone.heir = {new} /\ gone.reviewed = old.reviewed
      /\ gone.decided = old.decided /\ gone.evidence = old.evidence
  BY <1>1, <1>7 DEF Proposal
<1>9. ProposalSound(gone)
  BY <1>1, <1>8 DEF ProposalSound
<1>10. /\ proposals' \in [ProposalIds -> Proposal]
       /\ proposals'[id] = gone /\ proposals'[new] = replacement
       /\ \A other \in ProposalIds \ {id, new} : proposals'[other] = proposals[other]
  BY <1>1, <1>3, <1>5, <1>7 DEF ActionInv, Revise
<1>11. QED
  BY <1>2, <1>3, <1>5, <1>6, <1>8, <1>9, <1>10, ProposalsStep DEF ActionInv

LEMMA ActionInitInv == ActionInit => ActionInv
BY NoProposalSound DEF ActionInit, ActionInv, NoProposal

LEMMA ActionStep == ActionInv /\ [ActionNext]_actionVars => ActionInv'
<1> SUFFICES ASSUME ActionInv, [ActionNext]_actionVars PROVE ActionInv'
  OBVIOUS
<1>1. ASSUME NEW e \in Evidence, ChangeEvidence(e) PROVE ActionInv'
  BY <1>1 DEF ChangeEvidence, ActionInv
<1>2. CASE ActionTick
  BY <1>2 DEF ActionTick, ActionInv
<1>3. CASE UNCHANGED actionVars
  BY <1>3 DEF actionVars, ActionInv
<1>4. QED
  BY <1>1, <1>2, <1>3, PlanActionStep, ReviewStep, ReviseStep, RefusalStep, Zenon DEF ActionNext

ActionSpec == ActionInit /\ [][ActionNext]_actionVars

THEOREM ActionsStand == ActionSpec => []ActionInv
<1>1. QED
  BY ActionInitInv, ActionStep, PTL DEF ActionSpec

\* The store promises what the properties ask of it.
LEMMA ActionsFollow == ActionInv => ActionsConfined
<1> SUFFICES ASSUME ActionInv, NEW id \in ProposalIds
             PROVE  /\ /\ proposals[id].status = "approved_for_execution"
                       /\ proposals[id].reviewed
                       => proposals[id].decided = "approvable"
                    /\ proposals[id].status \in {"executed", "failed"} => ~ proposals[id].reviewed
                    /\ proposals[id].reviewed <=> proposals[id].decided # "no"
                    /\ \A heir \in proposals[id].heir : Exists(heir) /\ proposals[id].status = "superseded"
  BY DEF ActionsConfined
<1>1. \A heir \in proposals[id].heir : Exists(heir)
  BY DEF ActionInv, Exists, NoProposal
<1>2. QED
  BY <1>1 DEF ActionInv, ProposalSound

(***************************************************************************)
(* The admission of mail.                                                  *)
(***************************************************************************)
MailRecord == [id : Nat, sender : {"client", "other"}, edn : BOOLEAN, project : BOOLEAN,
               received : Int, odd : {"plain", "unaddressed", "other_folder", "with_body"}]
MailRelation == [signal : {"client", "project"}, entity : {"A", "B"}]
MailSnapshot == [state : {"retrieved", "empty", "partial", "unavailable"}, checked : Int,
                 relations : SUBSET MailRelation]
MailPolicy == [clients : MailSnapshot, projects : MailSnapshot]

Verdicts ==
    {"conflicting_metadata", "duplicate_record", "malformed_metadata", "outside_folder_boundary",
     "outside_time_boundary", "ambiguous_relationship", "admitted", "unavailable",
     "no_edn_relevance_signal"}

Batch == Seq(MailRecord)
Rulings == UNION {[1 .. n -> Verdicts] : n \in Nat}
CoverageReasons == SUBSET (Sources \cup {"no_admissible_evidence"})

Search ==
    [pc : {"idle", "read", "done"}, now : Int, folder : Nat, raw : Batch, policy : MailPolicy,
     decisions : Rulings, admitted : SUBSET Nat, reasons : CoverageReasons]

\* A search under way goes by the snapshots that were approved.
AdmissionInv ==
    /\ search \in Search
    /\ snapshots \in MailPolicy /\ granted \subseteq MailPolicy
    /\ admissionDay \in Nat
    /\ search.pc # "idle" => search.policy \in granted
    /\ AdmissionConfined

LEMMA RecordsTyped == Records \subseteq MailRecord
BY DEF Records, Mail, MailRecord

LEMMA SnapshotsTyped == \A policy \in MailPolicy, s \in Sources : policy[s] \in MailSnapshot
BY DEF MailPolicy, Sources

LEMMA PoliciesTyped == SnapshotChoices \subseteq MailPolicy /\ SomePolicy \in MailPolicy
<1>1. \A signal \in {"client", "project"}, entity \in {"A", "B"} :
        Relation(signal, entity) \in MailRelation
  BY DEF Relation, MailRelation
<1>2. \A state \in {"retrieved", "empty", "partial", "unavailable"}, checked \in Int,
         relations \in SUBSET MailRelation :
            RelationshipSnapshot(state, checked, relations) \in MailSnapshot
  BY DEF RelationshipSnapshot, MailSnapshot
<1>3. SnapshotChoices \subseteq MailPolicy
  <2>1. {RelationshipSnapshot("retrieved", 0, {Relation("client", "A")}),
         RelationshipSnapshot("empty", 1, {}),
         RelationshipSnapshot("partial", 1, {Relation("client", "A")}),
         RelationshipSnapshot("retrieved", 1, {Relation("project", "A")}),
         RelationshipSnapshot("retrieved", 1, {Relation("client", "B")}),
         RelationshipSnapshot("unavailable", 0, {})} \subseteq MailSnapshot
    BY <1>1, <1>2
  <2> SUFFICES ASSUME NEW choice \in SnapshotChoices PROVE choice \in MailPolicy
    OBVIOUS
  <2>2. choice = [clients |-> choice.clients, projects |-> choice.projects]
    BY DEF SnapshotChoices
  <2>3. choice.clients \in MailSnapshot /\ choice.projects \in MailSnapshot
    BY <2>1 DEF SnapshotChoices
  <2>4. QED
    BY <2>2, <2>3 DEF MailPolicy
<1>5. SnapshotChoices # {}
  <2>1. [clients |-> RelationshipSnapshot("empty", 1, {}),
         projects |-> RelationshipSnapshot("unavailable", 0, {})] \in SnapshotChoices
    BY DEF SnapshotChoices
  <2>2. QED
    BY <2>1
<1>6. SomePolicy \in SnapshotChoices
  BY <1>5 DEF SomePolicy
<1>7. QED
  BY <1>3, <1>6

LEMMA NoSearchTyped == NoSearch \in Search /\ NoSearch.pc = "idle"
<1>1. <<>> \in Batch
  BY EmptySeq DEF Batch
<1>2. <<>> \in Rulings
  <2>1. <<>> \in [1 .. 0 -> Verdicts]
    OBVIOUS
  <2>2. QED
    BY <2>1 DEF Rulings
<1>3. PICK policy \in MailPolicy : policy = SomePolicy
  BY PoliciesTyped
<1>4. {} \in CoverageReasons
  BY DEF CoverageReasons
<1>5. QED
  BY <1>1, <1>2, <1>3, <1>4 DEF NoSearch, Search

\* What a usable snapshot is.
LEMMA FreshSnapshots ==
  ASSUME NEW policy \in MailPolicy, NEW now \in Int, NEW s \in Sources
  PROVE  ~ Gap(policy[s], now) <=> /\ policy[s].state \in {"retrieved", "empty"}
                                   /\ policy[s].checked \in now - SnapshotAge .. now
<1>1. PICK checked \in Int : checked = policy[s].checked
  BY SnapshotsTyped DEF MailSnapshot
<1>2. SnapshotAge \in Nat
  BY MailAdmissionAssumption
<1>3. (~ (checked > now) /\ ~ (now - checked > SnapshotAge)) <=> checked \in now - SnapshotAge .. now
  BY <1>2
<1>4. QED
  BY <1>1, <1>3 DEF Gap

\* What the sources that are usable say of a record.
Signals(policy, record, now) ==
    LET fresh == {s \in Sources : /\ policy[s].state \in {"retrieved", "empty"}
                                  /\ policy[s].checked \in now - SnapshotAge .. now}
    IN  {q \in UNION {policy[s].relations : s \in fresh} : Matched(q, record)}

\* A record that is relevant on its own is so by an unambiguous signal of usable sources.
LEMMA RelevanceSays ==
  ASSUME NEW policy \in MailPolicy, NEW record \in MailRecord, NEW now \in Int,
         Relevance(policy, record, now) = "admitted"
  PROVE  /\ record.edn \/ Signals(policy, record, now) # {}
         /\ \A p, q \in Signals(policy, record, now) : p.signal = q.signal => p = q
<1>1. PICK says : says = Signals(policy, record, now)
  OBVIOUS
<1>2. \A s \in Sources : ~ Gap(policy[s], now) <=>
            /\ policy[s].state \in {"retrieved", "empty"}
            /\ policy[s].checked \in now - SnapshotAge .. now
  BY FreshSnapshots
<1>3. Matches(policy, record, now) = says
  <2>1. \A q : q \in Matches(policy, record, now) <=>
            /\ \E s \in Sources : ~ Gap(policy[s], now) /\ q \in policy[s].relations
            /\ Matched(q, record)
    BY DEF Matches
  <2>2. \A q : q \in says <=>
            /\ \E s \in Sources : /\ policy[s].state \in {"retrieved", "empty"}
                                  /\ policy[s].checked \in now - SnapshotAge .. now
                                  /\ q \in policy[s].relations
            /\ Matched(q, record)
    BY <1>1 DEF Signals
  <2>3. QED
    BY <1>2, <2>1, <2>2
<1>4. says \subseteq MailRelation
  <2>1. \A s \in Sources : policy[s].relations \subseteq MailRelation
    BY SnapshotsTyped DEF MailSnapshot
  <2>2. QED
    BY <1>1, <2>1 DEF Signals
<1>5. ~ Ambiguous(says) /\ (record.edn \/ says # {})
  BY <1>3 DEF Relevance
<1>6. QED
  BY <1>1, <1>4, <1>5 DEF Ambiguous, MailRelation

LEMMA RelevanceVerdict ==
  ASSUME NEW policy, NEW record, NEW now
  PROVE  /\ Relevance(policy, record, now) \in Verdicts
         /\ Relevance(policy, record, now) = "no_edn_relevance_signal" =>
              \A s \in Sources : ~ Gap(policy[s], now)
BY DEF Relevance, Verdicts

LEMMA DecidedSays ==
  ASSUME NEW policy \in MailPolicy, NEW raw \in Seq(MailRecord), NEW k \in DOMAIN raw, NEW now \in Int
  PROVE  /\ Decided(raw, k, policy, now) \in Verdicts
         /\ Decided(raw, k, policy, now) = "admitted" =>
              /\ \A j \in DOMAIN raw : raw[j].id = raw[k].id => raw[j] = raw[k]
              /\ \A j \in 1 .. k - 1 : raw[j].id # raw[k].id
              /\ raw[k].odd = "plain" /\ InWindow(raw[k], now)
              /\ Relevance(policy, raw[k], now) = "admitted"
         /\ Decided(raw, k, policy, now) = "no_edn_relevance_signal" =>
              Relevance(policy, raw[k], now) = "no_edn_relevance_signal"
<1>1. raw[k] \in MailRecord
  OBVIOUS
<1>2. PICK verdict \in Verdicts : verdict = Relevance(policy, raw[k], now)
  BY RelevanceVerdict
<1>3. PICK conflict \in BOOLEAN :
        conflict = (\E j \in DOMAIN raw : raw[j].id = raw[k].id /\ raw[j] # raw[k])
  OBVIOUS
<1>4. PICK copy \in BOOLEAN : copy = (\E j \in 1 .. k - 1 : raw[j].id = raw[k].id)
  OBVIOUS
<1>5. Decided(raw, k, policy, now) =
        IF conflict THEN "conflicting_metadata"
        ELSE IF copy THEN "duplicate_record"
        ELSE IF raw[k].odd \in {"unaddressed", "with_body"} THEN "malformed_metadata"
        ELSE IF raw[k].odd = "other_folder" THEN "outside_folder_boundary"
        ELSE IF ~ InWindow(raw[k], now) THEN "outside_time_boundary"
        ELSE verdict
  BY <1>2, <1>3, <1>4 DEF Decided
<1>6. raw[k].odd \in {"plain", "unaddressed", "other_folder", "with_body"}
  BY <1>1 DEF MailRecord
<1>7. Decided(raw, k, policy, now) \in Verdicts
  BY <1>5 DEF Verdicts
<1>8. ASSUME Decided(raw, k, policy, now) \in {"admitted", "no_edn_relevance_signal"}
      PROVE  /\ ~ conflict /\ ~ copy /\ raw[k].odd = "plain" /\ InWindow(raw[k], now)
             /\ verdict = Decided(raw, k, policy, now)
  BY <1>5, <1>6, <1>8
<1>9. QED
  BY <1>2, <1>3, <1>4, <1>7, <1>8

\* What a decided batch admits, record by record.
LEMMA AdmittedSound ==
  ASSUME NEW policy \in MailPolicy, NEW raw \in Seq(MailRecord), NEW now \in Int, NEW admitted,
         \A k : k \in admitted <=> k \in DOMAIN raw /\ Decided(raw, k, policy, now) = "admitted",
         NEW k \in admitted
  PROVE  /\ raw[k].odd = "plain" /\ raw[k].received \in now - WindowDays .. now
         /\ \A j \in DOMAIN raw \ {k} : raw[j].id = raw[k].id => raw[j] = raw[k] /\ j \notin admitted
         /\ raw[k].edn \/ Signals(policy, raw[k], now) # {}
         /\ \A p, q \in Signals(policy, raw[k], now) : p.signal = q.signal => p = q
<1>1. k \in DOMAIN raw /\ Decided(raw, k, policy, now) = "admitted"
  OBVIOUS
<1>2. PICK record \in MailRecord : record = raw[k]
  BY <1>1
<1>3. /\ \A j \in DOMAIN raw : raw[j].id = raw[k].id => raw[j] = raw[k]
      /\ \A j \in 1 .. k - 1 : raw[j].id # raw[k].id
      /\ record.odd = "plain" /\ InWindow(record, now)
      /\ Relevance(policy, record, now) = "admitted"
  BY <1>1, <1>2, DecidedSays
<1>4. record.received \in now - WindowDays .. now
  BY <1>3, MailAdmissionAssumption DEF InWindow, MailRecord
<1>5. ASSUME NEW j \in DOMAIN raw \ {k}, raw[j].id = raw[k].id PROVE j \notin admitted
  <2>1. CASE j < k
    BY <1>1, <1>3, <1>5, <2>1
  <2>2. CASE k < j
    <3>1. k \in 1 .. j - 1
      BY <1>1, <1>5, <2>2
    <3>2. Decided(raw, j, policy, now) # "admitted"
      BY <1>5, <3>1, DecidedSays
    <3>3. QED
      BY <3>2
  <2>3. QED
    BY <1>1, <1>5, <2>1, <2>2
<1>6. /\ raw[k].edn \/ Signals(policy, raw[k], now) # {}
      /\ \A p, q \in Signals(policy, raw[k], now) : p.signal = q.signal => p = q
  BY <1>2, <1>3, RelevanceSays, Zenon
<1>7. QED
  BY <1>2, <1>3, <1>4, <1>5, <1>6

LEMMA PagesTyped == Pages \subseteq Seq(MailRecord)
<1>1. <<>> \in Seq(MailRecord)
  BY EmptySeq
<1>2. \A a, b \in MailRecord : <<a>> \in Seq(MailRecord) /\ <<a, b>> \in Seq(MailRecord)
  OBVIOUS
<1>3. \A page \in Records \X Records : \E a, b \in Records : page = <<a, b>>
  OBVIOUS
<1>4. \A page \in Pages : \/ page = <<>>
                          \/ \E a \in MailRecord : page = <<a>>
                          \/ \E a, b \in MailRecord : page = <<a, b>>
  BY <1>3, RecordsTyped, Zenon DEF Pages
<1>5. QED
  BY <1>1, <1>2, <1>4, Zenon

\* A search step other than a decision leaves nothing decided.
LEMMA UndecidedStep ==
  ASSUME AdmissionInv, NEW next \in Search, search' = next, next.pc # "done",
         next.pc # "idle" => next.policy \in granted,
         UNCHANGED <<scopeMode, snapshots, granted, admissionDay>>
  PROVE  AdmissionInv'
BY DEF AdmissionInv, AdmissionConfined

LEMMA BeginSearchStep == ASSUME AdmissionInv, BeginSearch PROVE AdmissionInv'
<1>1. PICK now \in Int : now = admissionDay
  BY DEF AdmissionInv
<1>n. PICK none \in Search : none = NoSearch
  BY NoSearchTyped
<1>2. PICK s1 \in Search : s1 = [none EXCEPT !.pc = "read"]
  BY DEF Search
<1>3. PICK s2 \in Search : s2 = [s1 EXCEPT !.now = now]
  BY DEF Search
<1>4. PICK s3 \in Search : s3 = [s2 EXCEPT !.policy = snapshots]
  BY DEF Search, AdmissionInv
<1>5. s3.pc = "read" /\ s3.policy = snapshots
  BY <1>2, <1>3, <1>4 DEF Search
<1>6. search' = s3
  BY <1>n, <1>1, <1>2, <1>3, <1>4 DEF BeginSearch, Search
<1>7. QED
  BY <1>5, <1>6, UndecidedStep DEF BeginSearch

LEMMA ReadFolderStep ==
  ASSUME AdmissionInv, NEW page \in Pages, ReadFolder(page) PROVE AdmissionInv'
<1>1. search \in Search /\ search.pc = "read"
  BY DEF AdmissionInv, ReadFolder
<1>2. PICK raw \in Batch : raw = search.raw \o page
  <2>1. search.raw \in Seq(MailRecord) /\ page \in Seq(MailRecord)
    BY <1>1, PagesTyped DEF Search, Batch
  <2>2. QED
    BY <2>1, ConcatProperties DEF Batch
<1>3. PICK s1 \in Search : s1 = [search EXCEPT !.raw = raw]
  BY <1>1, <1>2 DEF Search
<1>f. PICK folder \in Nat : folder = search.folder + 1
  BY <1>1 DEF Search
<1>4. PICK s2 \in Search : s2 = [s1 EXCEPT !.folder = folder]
  BY DEF Search
<1>5. s2.pc = "read" /\ s2.policy = search.policy
  BY <1>1, <1>3, <1>4 DEF Search
<1>6. search' = s2
  BY <1>1, <1>2, <1>3, <1>f, <1>4 DEF ReadFolder, Search
<1>7. QED
  BY <1>1, <1>5, <1>6, UndecidedStep DEF ReadFolder, AdmissionInv

LEMMA AdmitBatchStep == ASSUME AdmissionInv, AdmitBatch PROVE AdmissionInv'
<1>1. search \in Search /\ search.pc = "read" /\ search.policy \in granted
  BY DEF AdmissionInv, AdmitBatch, ReadingDone
<1>2. PICK raw \in Seq(MailRecord), policy \in MailPolicy, now \in Int :
        raw = search.raw /\ policy = search.policy /\ now = search.now
  BY <1>1 DEF Search, Batch
<1>3. PICK decisions : decisions = [k \in DOMAIN raw |-> Decided(raw, k, policy, now)]
  OBVIOUS
<1>4. PICK admitted : admitted = {k \in DOMAIN raw : decisions[k] = "admitted"}
  OBVIOUS
<1>5. PICK reasons : reasons = Coverage(policy, now, admitted)
  OBVIOUS
<1>6. decisions \in Rulings
  <2>1. DOMAIN raw = 1 .. Len(raw) /\ Len(raw) \in Nat
    OBVIOUS
  <2>2. decisions \in [1 .. Len(raw) -> Verdicts]
    BY <1>3, <2>1, DecidedSays
  <2>3. QED
    BY <2>1, <2>2 DEF Rulings
<1>7. admitted \in SUBSET Nat /\ reasons \in CoverageReasons
  BY <1>4, <1>5 DEF Coverage, CoverageReasons
<1>8. PICK s1 \in Search : s1 = [search EXCEPT !.pc = "done"]
  BY <1>1 DEF Search
<1>9. PICK s2 \in Search : s2 = [s1 EXCEPT !.decisions = decisions]
  BY <1>6 DEF Search
<1>10. PICK s3 \in Search : s3 = [s2 EXCEPT !.admitted = admitted]
  BY <1>7 DEF Search
<1>11. PICK next \in Search : next = [s3 EXCEPT !.reasons = reasons]
  BY <1>7 DEF Search
<1>12. /\ next.pc = "done" /\ next.raw = raw /\ next.policy = policy /\ next.now = now
       /\ next.decisions = decisions /\ next.admitted = admitted /\ next.reasons = reasons
  BY <1>1, <1>2, <1>8, <1>9, <1>10, <1>11 DEF Search
<1>13. search' = next
  <2>1. search' = [search EXCEPT !.pc = "done", !.decisions = decisions, !.admitted = admitted,
                                 !.reasons = reasons]
    BY <1>2, <1>3, <1>4, <1>5 DEF AdmitBatch
  <2>2. QED
    BY <1>1, <1>8, <1>9, <1>10, <1>11, <2>1 DEF Search
<1>14. UNCHANGED <<scopeMode, snapshots, granted, admissionDay>>
  BY DEF AdmitBatch
<1>15. \A k : k \in admitted <=> k \in DOMAIN raw /\ Decided(raw, k, policy, now) = "admitted"
  BY <1>3, <1>4
<1>16. ASSUME NEW k \in DOMAIN raw, decisions[k] = "no_edn_relevance_signal"
       PROVE  reasons \subseteq {"no_admissible_evidence"}
  <2>1. Relevance(policy, raw[k], now) = "no_edn_relevance_signal"
    BY <1>3, <1>16, DecidedSays
  <2>2. \A s \in Sources : ~ Gap(policy[s], now)
    BY <2>1, RelevanceVerdict, Zenon
  <2>3. QED
    BY <1>5, <2>2 DEF Coverage
<1>17. \A s \in Sources : Gap(policy[s], now) => s \in reasons
  BY <1>5 DEF Coverage
<1>18. policy \in granted'
  BY <1>1, <1>2, <1>14
<1>19. AdmissionConfined'
  <2>1. /\ search'.raw \in Seq(MailRecord) /\ search'.policy \in MailPolicy /\ search'.now \in Int
        /\ search'.policy \in granted'
    BY <1>12, <1>13, <1>18, Zenon
  <2>3. \A s \in Sources : Gap(search'.policy[s], search'.now) => s \in search'.reasons
    BY <1>12, <1>13, <1>17, Zenon
  <2>4. \A k \in DOMAIN search'.raw : search'.decisions[k] = "no_edn_relevance_signal" =>
            search'.reasons \subseteq {"no_admissible_evidence"}
    BY <1>12, <1>13, <1>16, Zenon
  <2>5. ASSUME NEW k \in search'.admitted
        PROVE  /\ search'.raw[k].odd = "plain"
               /\ search'.raw[k].received \in search'.now - WindowDays .. search'.now
               /\ \A j \in DOMAIN search'.raw \ {k} : search'.raw[j].id = search'.raw[k].id =>
                     search'.raw[j] = search'.raw[k] /\ j \notin search'.admitted
               /\ LET fresh == {s \in Sources :
                         /\ search'.policy[s].state \in {"retrieved", "empty"}
                         /\ search'.policy[s].checked \in search'.now - SnapshotAge .. search'.now}
                      says == {q \in UNION {search'.policy[s].relations : s \in fresh} :
                                  Matched(q, search'.raw[k])}
                  IN  /\ search'.raw[k].edn \/ says # {}
                      /\ \A p, q \in says : p.signal = q.signal => p = q
    <3>1. /\ search'.raw[k].odd = "plain"
          /\ search'.raw[k].received \in search'.now - WindowDays .. search'.now
          /\ \A j \in DOMAIN search'.raw \ {k} : search'.raw[j].id = search'.raw[k].id =>
                search'.raw[j] = search'.raw[k] /\ j \notin search'.admitted
          /\ search'.raw[k].edn \/ Signals(search'.policy, search'.raw[k], search'.now) # {}
          /\ \A p, q \in Signals(search'.policy, search'.raw[k], search'.now) :
                p.signal = q.signal => p = q
      <4>1. PICK i \in admitted : i = k
        BY <1>12, <1>13, <2>5
      <4>2. /\ raw[i].odd = "plain" /\ raw[i].received \in now - WindowDays .. now
            /\ \A j \in DOMAIN raw \ {i} : raw[j].id = raw[i].id => raw[j] = raw[i] /\ j \notin admitted
            /\ raw[i].edn \/ Signals(policy, raw[i], now) # {}
            /\ \A p, q \in Signals(policy, raw[i], now) : p.signal = q.signal => p = q
        BY <1>15, AdmittedSound
      <4>3. QED
        BY <1>12, <1>13, <4>1, <4>2, Zenon
    <3>2. QED
      BY <3>1, Zenon DEF Signals
  <2>6. QED
    BY <2>1, <2>3, <2>4, <2>5, Zenon DEF AdmissionConfined, Gap, Matched
<1>20. QED
  BY <1>12, <1>13, <1>14, <1>18, <1>19 DEF AdmissionInv

\* The first version of the connector filters instead of deciding.
LEMMA FilterBatchStep == ASSUME AdmissionInv, FilterBatch PROVE AdmissionInv'
<1>1. search \in Search /\ search.pc = "read" /\ search.policy \in granted
  BY DEF AdmissionInv, FilterBatch, ReadingDone
<1>2. PICK raw \in Seq(MailRecord) : raw = search.raw
  BY <1>1 DEF Search, Batch
<1>3. CASE \E k \in DOMAIN raw : Refused(raw[k])
  BY <1>2, <1>3, NoSearchTyped, UndecidedStep DEF FilterBatch
<1>4. CASE ~ \E k \in DOMAIN raw : Refused(raw[k])
  <2>1. PICK admitted \in SUBSET Nat :
          admitted = {k \in DOMAIN raw : /\ ~ Filtered(raw[k]) /\ raw[k].odd # "other_folder"
                                         /\ InWindow(raw[k], search.now)}
    <3>1. DOMAIN raw \subseteq Nat
      OBVIOUS
    <3>2. QED
      BY <3>1
  <2>2. PICK s1 \in Search : s1 = [search EXCEPT !.pc = "done"]
    BY <1>1 DEF Search
  <2>3. PICK next \in Search : next = [s1 EXCEPT !.admitted = admitted]
    BY DEF Search
  <2>4. /\ next.pc = "done" /\ next.raw = raw /\ next.policy = search.policy
        /\ next.now = search.now /\ next.admitted = admitted
    BY <1>1, <1>2, <2>2, <2>3 DEF Search
  <2>5. search' = next
    <3>1. search' = [search EXCEPT !.pc = "done", !.admitted = admitted]
      BY <1>2, <1>4, <2>1 DEF FilterBatch
    <3>2. QED
      BY <1>1, <2>2, <2>3, <3>1 DEF Search
  <2>6. scopeMode' # "admission-v2" /\ UNCHANGED <<snapshots, granted, admissionDay>>
    BY DEF FilterBatch
  <2>7. ASSUME NEW k \in admitted
        PROVE  /\ raw[k].odd \in {"plain", "unaddressed"}
               /\ raw[k].received \in search.now - WindowDays .. search.now
    <3>1. k \in DOMAIN raw /\ raw[k] \in MailRecord /\ search.now \in Int
      BY <1>1, <2>1 DEF Search
    <3>2. raw[k].odd \notin {"with_body", "other_folder"} /\ InWindow(raw[k], search.now)
      BY <1>4, <2>1, <3>1 DEF Refused
    <3>3. QED
      BY <3>1, <3>2, MailAdmissionAssumption DEF InWindow, MailRecord
  <2>8. AdmissionConfined'
    BY <2>4, <2>5, <2>6, <2>7 DEF AdmissionConfined
  <2>9. QED
    BY <1>1, <2>4, <2>5, <2>6, <2>8 DEF AdmissionInv
<1>5. QED
  BY <1>3, <1>4

LEMMA AdmissionInitInv == AdmissionInit => AdmissionInv
BY NoSearchTyped, PoliciesTyped DEF AdmissionInit, AdmissionInv, AdmissionConfined

LEMMA AdmissionStep == AdmissionInv /\ [AdmissionNext]_admissionVars => AdmissionInv'
<1> SUFFICES ASSUME AdmissionInv, [AdmissionNext]_admissionVars PROVE AdmissionInv'
  OBVIOUS
<1>1. CASE ApproveScope
  BY <1>1 DEF ApproveScope, AdmissionInv, AdmissionConfined
<1>2. ASSUME NEW new \in SnapshotChoices, ReplaceSnapshots(new) PROVE AdmissionInv'
  BY <1>2, PoliciesTyped DEF ReplaceSnapshots, AdmissionInv, AdmissionConfined
<1>3. CASE AdmissionTick
  BY <1>3 DEF AdmissionTick, AdmissionInv, AdmissionConfined
<1>4. CASE FolderUnavailable
  BY <1>4, NoSearchTyped, UndecidedStep DEF FolderUnavailable
<1>5. CASE EndSearch
  BY <1>5, NoSearchTyped, UndecidedStep DEF EndSearch
<1>6. CASE UNCHANGED admissionVars
  BY <1>6 DEF admissionVars, AdmissionInv, AdmissionConfined
<1>7. QED
  BY <1>1, <1>2, <1>3, <1>4, <1>5, <1>6, BeginSearchStep, ReadFolderStep, AdmitBatchStep,
     FilterBatchStep, Zenon DEF AdmissionNext

AdmissionSpec == AdmissionInit /\ [][AdmissionNext]_admissionVars

THEOREM AdmissionStands == AdmissionSpec => []AdmissionInv
<1>1. QED
  BY AdmissionInitInv, AdmissionStep, PTL DEF AdmissionSpec

(***************************************************************************)
(* Induction, with a set of good values for the property: over the subsets *)
(* of a finite set and over the numbers up to a bound.                     *)
(***************************************************************************)
LEMMA SubsetInduction ==
  ASSUME NEW S, IsFiniteSet(S), NEW good,
         \A s \in SUBSET S : (\A t \in SUBSET s : t # s => t \in good) => s \in good
  PROVE  S \in good
<1> DEFINE bad == (SUBSET S) \ good
           R == StrictSubsetOrdering(S)
<1>1. SUFFICES ASSUME S \notin good PROVE FALSE
  OBVIOUS
<1>2. IsWellFoundedOn(R, SUBSET S)
  BY FS_StrictSubsetOrderingWellFounded, FS_FiniteSubsetsOfFinite
<1>3. bad # {} /\ bad \subseteq SUBSET S
  BY <1>1
<1>4. PICK s \in bad : \A t \in bad : ~(<<t, s>> \in R)
  <2> HIDE DEF bad, R
  <2>1. QED
    BY <1>2, <1>3, WFMin
<1>5. ASSUME NEW t \in SUBSET s, t # s PROVE t \in good
  <2>1. <<t, s>> \in R
    BY <1>4, <1>5 DEF StrictSubsetOrdering
  <2>2. QED
    BY <1>4, <2>1
<1>6. QED
  BY <1>4, <1>5

LEMMA NumberInduction ==
  ASSUME NEW n \in Nat, NEW good, 0 \in good, \A k \in 0 .. n - 1 : k \in good => k + 1 \in good
  PROVE  n \in good
<1> DEFINE fine == {s \in SUBSET (1 .. n) : \A k \in 0 .. n : s = 1 .. k => k \in good}
<1>1. ASSUME NEW s \in SUBSET (1 .. n), \A t \in SUBSET s : t # s => t \in fine
      PROVE  s \in fine
  <2>1. ASSUME NEW k \in 0 .. n, s = 1 .. k PROVE k \in good
    <3>1. CASE k = 0
      BY <3>1
    <3>2. CASE k # 0
      <4>1. k - 1 \in 0 .. n /\ k - 1 \in 0 .. n - 1 /\ (k - 1) + 1 = k
        BY <3>2
      <4>2. 1 .. (k - 1) \in SUBSET s /\ 1 .. (k - 1) # s
        <5>1. k \in s /\ k \notin 1 .. (k - 1)
          BY <2>1, <3>2
        <5>2. QED
          BY <5>1, <2>1
      <4>3. 1 .. (k - 1) \in fine
        BY <4>2, <1>1
      <4>4. k - 1 \in good
        BY <4>1, <4>3
      <4>5. QED
        BY <4>1, <4>4
    <3>3. QED
      BY <3>1, <3>2
  <2>2. QED
    BY <2>1
<1>2. IsFiniteSet(1 .. n)
  BY FS_Interval
<1>3. (1 .. n) \in fine
  <2> HIDE DEF fine
  <2>1. \A s \in SUBSET (1 .. n) : (\A t \in SUBSET s : t # s => t \in fine) => s \in fine
    BY <1>1, Zenon
  <2>2. PICK all : all = 1 .. n
    OBVIOUS
  <2>3. IsFiniteSet(all) /\ \A s \in SUBSET all : (\A t \in SUBSET s : t # s => t \in fine) => s \in fine
    BY <1>2, <2>1, <2>2
  <2>4. all \in fine
    BY <2>3, SubsetInduction, ZenonT(30)
  <2>5. QED
    BY <2>2, <2>4
<1>4. QED
  BY <1>3

LEMMA RangeMember ==
  ASSUME NEW S, NEW s \in Seq(S), NEW x
  PROVE  x \in Range(s) <=> \E k \in 1 .. Len(s) : s[k] = x
BY DEF Range

LEMMA RangeOfAppend ==
  ASSUME NEW S, NEW s \in Seq(S), NEW x \in S
  PROVE  /\ Range(Append(s, x)) = Range(s) \cup {x}
         /\ IsInjective(s) /\ x \notin Range(s) => IsInjective(Append(s, x))
<1>1. /\ Append(s, x) \in Seq(S) /\ Len(Append(s, x)) = Len(s) + 1
      /\ Append(s, x)[Len(s) + 1] = x /\ \A k \in 1 .. Len(s) : Append(s, x)[k] = s[k]
      /\ Len(s) \in Nat /\ DOMAIN s = 1 .. Len(s) /\ DOMAIN Append(s, x) = 1 .. Len(s) + 1
  OBVIOUS
<1>2. PICK t : t = Append(s, x)
  OBVIOUS
<1>3. \A y : y \in Range(t) <=> y \in Range(s) \/ y = x
  <2>1. ASSUME NEW y, y \in Range(t) PROVE y \in Range(s) \/ y = x
    <3>1. PICK k \in 1 .. Len(t) : t[k] = y
      BY <2>1, <1>1, <1>2, RangeMember
    <3>2. k = Len(s) + 1 \/ k \in 1 .. Len(s)
      BY <1>1, <1>2
    <3>3. QED
      BY <3>1, <3>2, <1>1, <1>2, RangeMember
  <2>2. ASSUME NEW y, y \in Range(s) PROVE y \in Range(t)
    <3>1. PICK k \in 1 .. Len(s) : s[k] = y
      BY <2>2, RangeMember
    <3>2. k \in 1 .. Len(t) /\ t[k] = y
      BY <3>1, <1>1, <1>2
    <3>3. QED
      BY <3>2, <1>1, <1>2, RangeMember
  <2>3. x \in Range(t)
    <3>1. Len(s) + 1 \in 1 .. Len(t) /\ t[Len(s) + 1] = x
      BY <1>1, <1>2
    <3>2. QED
      BY <3>1, <1>1, <1>2, RangeMember
  <2>4. QED
    BY <2>1, <2>2, <2>3
<1>4. Range(t) = Range(s) \cup {x}
  BY <1>3
<1>5. ASSUME IsInjective(s), x \notin Range(s), NEW k \in DOMAIN t, NEW l \in DOMAIN t, t[k] = t[l]
      PROVE  k = l
  <2>1. \A j \in 1 .. Len(s) : s[j] # x
    BY <1>5 DEF Range
  <2>2. QED
    BY <1>1, <1>2, <1>5, <2>1 DEF IsInjective
<1>6. QED
  BY <1>2, <1>4, <1>5 DEF IsInjective

(***************************************************************************)
(* The assembly of a context and its disclosure.                           *)
(***************************************************************************)
Stages == {"retrieve", "balance", "assembled", "project", "cut_off", "projected", "done"}
AnyItem == PlainItems("calendar") \cup PlainItems("mail")
AnyOutcome == Outcomes("calendar") \cup Outcomes("mail")
Text == [before : Nat, marker : Nat, redacted : Nat, after : Nat]

CoverageRow ==
    [status : {"none", "unavailable", "retrieved", "empty", "partial"}, returned : Nat,
     admitted : Nat, selected : Nat,
     reasons : SUBSET (Oddities \cup {"unusable", "connector_failure", "source_truncated",
                                      "source_records_filtered", "source_limit_reached",
                                      "conflicting_evidence_id", "context_limit_reached"})]

PolicyRow ==
    [authority : BOOLEAN, principal : BOOLEAN, domain : BOOLEAN,
     classified : {"within", "unranked", "other_scheme", "above"}, items : Nat, chars : Nat]

Disclosed ==
    [policy : PolicyRow,
     outcome : {"none", "missing_authority", "denied", "allowed", "unknown_classification",
                "classification_ceiling_exceeded", "redacted_projected"},
     titles : Seq(Titles), projected : Seq(Text), remaining : Nat,
     redactions : SUBSET (Nat \X {"context_budget", "sensitive_marker", "excerpt_truncated"}),
     answer : {"none", "response", "fallback"}]

ContextTypes ==
    /\ stage \in Stages
    /\ supplied \in Seq(AnyOutcome) /\ Len(supplied) <= 2
    /\ families \in [AdapterSet -> Seq(AnyItem)]
    /\ \A a \in AdapterSet : families[a] \in Seq(PlainItems(a))
    /\ balanced \in Seq(AnyItem) /\ Len(balanced) <= TotalLimit
    /\ coverage \in [AdapterSet -> CoverageRow]
    /\ \A a \in AdapterSet : /\ coverage[a].selected <= coverage[a].admitted
                             /\ coverage[a].admitted <= coverage[a].returned
    /\ disclosure \in Disclosed

\* The answer of an adapter, and what an adapter's coverage row claims.
Turn(a) == IF a = "calendar" THEN 1 ELSE 2
Answer(a) == supplied[Turn(a)]
Claimed(a) == coverage[a].status \in {"retrieved", "empty"}

\* No id twice: in one list, and in the context together with what may still be chosen.
OneEach(s) == \A k, l \in DOMAIN s : s[k].id = s[l].id => k = l
Apart(s, t) == \A k \in DOMAIN s, l \in DOMAIN t : s[k].id # t[l].id
Distinct(bal, fams) ==
    /\ OneEach(bal)
    /\ \A a \in AdapterSet : OneEach(fams[a]) /\ Apart(bal, fams[a])
    /\ Apart(fams["calendar"], fams["mail"])

\* While the adapters are asked: a source that claims to be whole has given all it had.
Retrieving ==
    /\ balanced = <<>>
    /\ \A a \in AdapterSet :
        /\ OneEach(families[a]) /\ Len(families[a]) = coverage[a].admitted
        /\ coverage[a].selected = 0
        /\ Turn(a) \in DOMAIN supplied /\ Claimed(a) =>
              Range(Answer(a).evidence) \subseteq Range(families[a])

\* While the sources take turns: each is in the context and in its list as a whole, until
\* an item is lost to the limit, and then there is no further turn.
Chosen(bal, a) == Cardinality({k \in DOMAIN bal : bal[k].adapter = a})
Whole(bal, fam, a) ==
    /\ Chosen(bal, a) + Len(fam) = coverage[a].admitted
    /\ Claimed(a) => Range(Answer(a).evidence) \subseteq Range(bal) \cup Range(fam)
CutShort(bal, fam, a) ==
    Chosen(bal, a) + Len(fam) < coverage[a].admitted /\ Len(bal) = TotalLimit

Balancing ==
    /\ Len(supplied) = 2
    /\ \A a \in AdapterSet : coverage[a].selected = 0
    /\ Distinct(balanced, families)
    /\ \A a \in AdapterSet : Whole(balanced, families[a], a) \/ CutShort(balanced, families[a], a)
    /\ Len(balanced) < TotalLimit =>
        \A a, b \in AdapterSet : families[a] # <<>> => Chosen(balanced, b) <= Chosen(balanced, a)
    /\ \A a, b \in AdapterSet :
        Chosen(balanced, a) < coverage[a].admitted => Chosen(balanced, b) <= Chosen(balanced, a) + 1

\* What is projected has its authority, adds up to the budget and is safe; without a
\* redaction it is the evidence as it stands.
Permitted(p) ==
    /\ p.authority /\ p.principal /\ p.domain /\ Len(balanced) <= p.items
    /\ balanced = <<>> \/ p.classified = "within"

Projecting ==
    /\ stage \in {"retrieve", "balance", "assembled"} => disclosure = NoDisclosure
    /\ stage \in {"project", "cut_off", "projected"} \/ disclosure.projected # <<>> =>
          /\ Permitted(disclosure.policy)
          /\ disclosure.remaining + SumOf(disclosure.projected) + Len(disclosure.projected)
                = disclosure.policy.chars
    /\ Len(disclosure.projected) <= Len(balanced)
    /\ \A k \in DOMAIN disclosure.projected : ~Exposed(disclosure.projected[k])
    /\ disclosure.redactions = {} =>
          \A k \in DOMAIN disclosure.projected : disclosure.projected[k] = balanced[k].excerpt
    /\ stage = "cut_off" => disclosure.redactions # {}
    /\ stage \in {"projected", "done"} /\ disclosure.outcome = "allowed" =>
          disclosure.redactions = {} /\ Len(disclosure.projected) = Len(balanced)

ContextInv ==
    /\ ContextTypes
    /\ stage = "retrieve" => Retrieving
    /\ stage = "balance" => Balancing
    /\ ContextAccountable
    /\ Projecting

ContextSpec == ContextInit /\ [][ContextNext]_contextVars

\* Texts: what cutting and redacting leave of one.
LEMMA LowerIs ==
  ASSUME NEW m \in Nat, NEW n \in Nat
  PROVE  Lower(m, n) \in Nat /\ Lower(m, n) <= m /\ Lower(m, n) <= n /\ Lower(m, n) \in {m, n}
BY DEF Lower

LEMMA CutIs ==
  ASSUME NEW e \in Text, NEW n \in Nat
  PROVE  /\ Cut(e, n) \in Text /\ Units(Cut(e, n)) \in Nat /\ Units(e) \in Nat
         /\ Units(Cut(e, n)) <= n /\ Units(Cut(e, n)) <= Units(e)
         /\ Cut(e, n).marker <= e.marker
         /\ Units(Cut(e, n)) >= Units(e) => Cut(e, n) = e
<1>1. PICK e1, e2, e3, e4 \in Nat : e1 = e.before /\ e2 = e.marker /\ e3 = e.redacted /\ e4 = e.after
  BY DEF Text
<1>2. PICK b \in Nat : b = Lower(e1, n)
  BY LowerIs
<1>3. PICK n1 \in Nat : n1 = n - b /\ b <= e1 /\ b <= n
  BY <1>2, LowerIs
<1>4. PICK m \in Nat : m = Lower(e2, n1)
  BY LowerIs
<1>5. PICK n2 \in Nat : n2 = n1 - m /\ m <= e2 /\ m <= n1
  BY <1>4, LowerIs
<1>6. PICK r \in Nat : r = Lower(e3, n2)
  BY LowerIs
<1>7. PICK n3 \in Nat : n3 = n2 - r /\ r <= e3 /\ r <= n2
  BY <1>6, LowerIs
<1>8. PICK f \in Nat : f = Lower(e4, n3) /\ f <= e4 /\ f <= n3
  BY LowerIs
<1>9. Cut(e, n) = [before |-> b, marker |-> m, redacted |-> r, after |-> f]
  <2>1. n - b - m = n2 /\ n - b - m - r = n3 /\ n - b = n1
    BY <1>3, <1>5, <1>7
  <2>2. QED
    BY <1>1, <1>2, <1>4, <1>6, <1>8, <2>1 DEF Cut
<1>10. PICK c : c = Cut(e, n)
  OBVIOUS
<1>11. c \in Text /\ c.before = b /\ c.marker = m /\ c.redacted = r /\ c.after = f
  BY <1>9, <1>10 DEF Text
<1>12. Units(c) = b + m + r + f /\ Units(e) = e1 + e2 + e3 + e4
  BY <1>1, <1>11 DEF Units
<1>13. b + m + r + f \in Nat /\ e1 + e2 + e3 + e4 \in Nat /\ b + m + r + f <= n /\ b + m + r + f <= e1 + e2 + e3 + e4
  BY <1>3, <1>5, <1>7, <1>8
<1>14. ASSUME Units(c) >= Units(e) PROVE c = e
  <2>1. b = e1 /\ m = e2 /\ r = e3 /\ f = e4
    BY <1>12, <1>14, <1>3, <1>5, <1>7, <1>8
  <2>2. QED
    BY <2>1, <1>1, <1>11 DEF Text
<1>15. QED
  BY <1>1, <1>5, <1>10, <1>11, <1>12, <1>13, <1>14

LEMMA SafeIs ==
  ASSUME NEW e \in Text
  PROVE  SafeExcerpt(e) \in Text /\ SafeExcerpt(e).marker < 2
<1>1. e.marker \in Nat
  BY DEF Text
<1>2. CASE Exposed(e)
  <2>1. PICK c : c = [e EXCEPT !.marker = 0, !.redacted = 3]
    OBVIOUS
  <2>2. c \in Text /\ c.marker = 0
    BY <2>1 DEF Text
  <2>3. SafeExcerpt(e) = c
    BY <1>2, <2>1 DEF SafeExcerpt
  <2>4. QED
    BY <2>2, <2>3
<1>3. CASE ~Exposed(e)
  <2>1. e.marker < 2 /\ SafeExcerpt(e) = e
    BY <1>1, <1>3 DEF SafeExcerpt, Exposed
  <2>2. QED
    BY <2>1
<1>4. QED
  BY <1>2, <1>3

\* SumOf adds the units up, one text after the other.
SumsTexts(sum, texts, n) ==
    sum = [k \in 0 .. n |-> IF k = 0 THEN 0 ELSE sum[k - 1] + Units(texts[k])]

LEMMA SumsAt ==
  ASSUME NEW texts, NEW n \in Nat, NEW sum, SumsTexts(sum, texts, n)
  PROVE  sum[0] = 0 /\ \A k \in 1 .. n : sum[k] = sum[k - 1] + Units(texts[k])
<1>1. PICK g : g = [k \in 0 .. n |-> IF k = 0 THEN 0 ELSE sum[k - 1] + Units(texts[k])]
  OBVIOUS
<1>2. sum = g
  BY <1>1 DEF SumsTexts
<1>3. g[0] = 0 /\ \A k \in 1 .. n : g[k] = sum[k - 1] + Units(texts[k])
  BY <1>1
<1>4. QED
  BY <1>2, <1>3

LEMMA SumsDefined ==
  ASSUME NEW texts, NEW n \in Nat PROVE \E sum : SumsTexts(sum, texts, n)
<1> DEFINE good == {m \in 0 .. n : \E sum : SumsTexts(sum, texts, m)}
<1>1. 0 \in good
  <2>1. PICK sum : sum = [k \in 0 .. 0 |-> 0]
    OBVIOUS
  <2>2. SumsTexts(sum, texts, 0)
    BY <2>1 DEF SumsTexts
  <2>3. QED
    BY <2>2
<1>2. ASSUME NEW m \in 0 .. n - 1, m \in good PROVE m + 1 \in good
  <2>1. PICK old : SumsTexts(old, texts, m)
    BY <1>2
  <2>2. PICK last : last = old[m] + Units(texts[m + 1])
    OBVIOUS
  <2>3. PICK sum : sum = [k \in 0 .. m + 1 |-> IF k = m + 1 THEN last ELSE old[k]]
    OBVIOUS
  <2>4. \A k \in 0 .. m : sum[k] = old[k]
    BY <2>3
  <2>5. ASSUME NEW k \in 0 .. m + 1
        PROVE  sum[k] = IF k = 0 THEN 0 ELSE sum[k - 1] + Units(texts[k])
    <3>1. CASE k = 0
      <4>1. sum[k] = old[0]
        BY <3>1, <2>4
      <4>2. QED
        BY <3>1, <4>1, <2>1, SumsAt
    <3>2. CASE k \in 1 .. m
      <4>1. sum[k] = old[k] /\ sum[k - 1] = old[k - 1]
        BY <3>2, <2>4
      <4>2. QED
        BY <3>2, <4>1, <2>1, SumsAt
    <3>3. CASE k = m + 1
      <4>1. sum[k] = last /\ k - 1 = m /\ sum[m] = old[m]
        BY <3>3, <2>3, <2>4
      <4>2. QED
        BY <3>3, <4>1, <2>2
    <3>4. QED
      BY <3>1, <3>2, <3>3
  <2>6. SumsTexts(sum, texts, m + 1)
    <3>1. DOMAIN sum = 0 .. m + 1 /\ sum = [k \in 0 .. m + 1 |-> sum[k]]
      BY <2>3
    <3>2. QED
      BY <2>5, <3>1, Zenon DEF SumsTexts
  <2>7. m + 1 \in 0 .. n
    OBVIOUS
  <2>8. QED
    BY <2>6, <2>7
<1>3. n \in good
  <2> HIDE DEF good
  <2>1. QED
    BY <1>1, <1>2, NumberInduction
<1>4. QED
  BY <1>3

LEMMA SumIs ==
  ASSUME NEW texts \in Seq(Text)
  PROVE  \E sum : SumsTexts(sum, texts, Len(texts)) /\ SumOf(texts) = sum[Len(texts)]
<1>1. Len(texts) \in Nat
  OBVIOUS
<1>2. \E sum : SumsTexts(sum, texts, Len(texts))
  BY <1>1, SumsDefined, Zenon
<1>3. SumsTexts(CHOOSE sum : SumsTexts(sum, texts, Len(texts)), texts, Len(texts))
  BY <1>2, Zenon
<1>4. SumOf(texts) = (CHOOSE sum : SumsTexts(sum, texts, Len(texts)))[Len(texts)]
  BY Zenon DEF SumOf, SumsTexts
<1>5. QED
  BY <1>3, <1>4

LEMMA SumAppended ==
  ASSUME NEW texts \in Seq(Text), NEW e \in Text
  PROVE  SumOf(texts) \in Nat /\ SumOf(Append(texts, e)) = SumOf(texts) + Units(e)
<1> DEFINE n == Len(texts)
<1>1. PICK sum : SumsTexts(sum, texts, n) /\ SumOf(texts) = sum[n]
  BY SumIs
<1>2. PICK more \in Seq(Text) : more = Append(texts, e)
  <2>1. Append(texts, e) \in Seq(Text)
    OBVIOUS
  <2>2. QED
    BY <2>1, Zenon
<1>3. /\ n \in Nat /\ Len(more) = n + 1 /\ more[n + 1] = e
      /\ \A k \in 1 .. n : more[k] = texts[k] /\ texts[k] \in Text
  BY <1>2
<1>4. PICK next : SumsTexts(next, more, n + 1) /\ SumOf(more) = next[n + 1]
  BY <1>2, <1>3, SumIs
<1>5. sum[0] = 0 /\ \A k \in 1 .. n : sum[k] = sum[k - 1] + Units(texts[k])
  BY <1>1, <1>3, SumsAt
<1>6. next[0] = 0 /\ \A k \in 1 .. n + 1 : next[k] = next[k - 1] + Units(more[k])
  BY <1>4, <1>3, SumsAt
<1> DEFINE good == {k \in 0 .. n : next[k] = sum[k] /\ sum[k] \in Nat}
<1> HIDE DEF n
<1>7. 0 \in good
  BY <1>3, <1>5, <1>6
<1>8. ASSUME NEW k \in 0 .. n - 1, k \in good PROVE k + 1 \in good
  <2>1. k + 1 \in 1 .. n /\ k + 1 \in 1 .. n + 1 /\ (k + 1) - 1 = k /\ k + 1 \in 0 .. n
    BY <1>3
  <2>2. Units(texts[k + 1]) \in Nat
    <3>1. texts[k + 1] \in Text
      BY <2>1, <1>3
    <3>2. QED
      BY <3>1, CutIs
  <2>3. next[k + 1] = next[k] + Units(texts[k + 1]) /\ sum[k + 1] = sum[k] + Units(texts[k + 1])
    BY <2>1, <1>3, <1>5, <1>6
  <2>4. QED
    BY <2>1, <2>2, <2>3, <1>8
<1>9. n \in good
  <2> HIDE DEF good
  <2>1. QED
    BY <1>3, <1>7, <1>8, NumberInduction
<1>10. next[n + 1] = next[n] + Units(e)
  <2>1. n + 1 \in 1 .. n + 1 /\ (n + 1) - 1 = n
    BY <1>3
  <2>2. QED
    BY <2>1, <1>3, <1>6
<1>11. QED
  BY <1>1, <1>2, <1>4, <1>9, <1>10

LEMMA SumEmpty == SumOf(<<>>) = 0
<1>1. <<>> \in Seq(Text) /\ Len(<<>>) = 0
  OBVIOUS
<1>2. PICK sum : SumsTexts(sum, <<>>, 0) /\ SumOf(<<>>) = sum[0]
  BY <1>1, SumIs
<1>3. QED
  BY <1>2, SumsAt

\* The items the adapters may return.
LEMMA ItemShape ==
  ASSUME NEW a \in AdapterSet, NEW i \in PlainItems(a)
  PROVE  /\ i.adapter = a /\ i.odd = "plain" /\ i.excerpt \in Text /\ i.title \in Titles /\ i \in AnyItem
         /\ \/ i.score = 1 /\ i.id = <<a, 1>>
            \/ i.score = 2 /\ i.id = <<a, 2>>
            \/ i.score = 3 /\ i.id = <<"both", 1>>
<1>1. PICK e1, e2, e3, e4 \in Text :
        e1 = Excerpt(1, 2, 0) /\ e2 = Excerpt(0, 4, 1) /\ e3 = Excerpt(2, 0, 0) /\ e4 = Excerpt(1, 0, 0)
  BY DEF Excerpt, Text
<1>2. i \in {Item(a, <<a, 1>>, 1, "unmarked", e1, "plain"), Item(a, <<a, 2>>, 2, "unmarked", e2, "plain"),
             Item(a, <<"both", 1>>, 3, "marked", e3, "plain"),
             Item(a, <<"both", 1>>, 3, "unmarked", e4, "plain")}
  BY <1>1, Zenon DEF PlainItems, OwnItem
<1>3. i \in AnyItem
  BY DEF AnyItem, AdapterSet
<1>4. PICK id1, id2, id3 : id1 = <<a, 1>> /\ id2 = <<a, 2>> /\ id3 = <<"both", 1>>
  OBVIOUS
<1>5. i \in {Item(a, id1, 1, "unmarked", e1, "plain"), Item(a, id2, 2, "unmarked", e2, "plain"),
             Item(a, id3, 3, "marked", e3, "plain"), Item(a, id3, 3, "unmarked", e4, "plain")}
  BY <1>2, <1>4
<1>6. /\ i.adapter = a /\ i.odd = "plain" /\ i.excerpt \in Text /\ i.title \in Titles
      /\ \/ i.score = 1 /\ i.id = id1
         \/ i.score = 2 /\ i.id = id2
         \/ i.score = 3 /\ i.id = id3
  BY <1>5 DEF Item, Titles
<1>7. QED
  BY <1>3, <1>4, <1>6

LEMMA AnyShape ==
  ASSUME NEW i \in AnyItem
  PROVE  i.adapter \in AdapterSet /\ i \in PlainItems(i.adapter) /\ i.excerpt \in Text /\ i.title \in Titles
<1>1. PICK a \in AdapterSet : i \in PlainItems(a)
  BY DEF AnyItem, AdapterSet
<1>2. QED
  BY <1>1, ItemShape

LEMMA NothingDisclosed == NoDisclosure \in Disclosed /\ NoDisclosure.projected = <<>>
                          /\ NoDisclosure.redactions = {}
                          /\ NoDisclosure.outcome = "none"
<1>1. PICK p \in PolicyRow : p = Policy(FALSE, FALSE, FALSE, "above", 1, 1)
  BY DEF Policy, PolicyRow
<1>2. PICK none, reds : /\ none = <<>> /\ reds = {}
  OBVIOUS
<1>3. /\ none \in Seq(Text) /\ none \in Seq(Titles)
      /\ reds \in SUBSET (Nat \X {"context_budget", "sensitive_marker", "excerpt_truncated"})
  BY <1>2
<1>4. NoDisclosure = [policy |-> p, outcome |-> "none", titles |-> none, projected |-> none,
                      remaining |-> 0, redactions |-> reds, answer |-> "none"]
  BY <1>1, <1>2, Zenon DEF NoDisclosure
<1>5. QED
  BY <1>1, <1>2, <1>3, <1>4 DEF Disclosed

LEMMA AfterAssembly ==
  ASSUME ContextInv, stage \notin {"retrieve", "balance"},
         stage' \in {"assembled", "project", "cut_off", "projected", "done"},
         UNCHANGED <<supplied, families, balanced, coverage>>, disclosure' \in Disclosed, Projecting'
  PROVE  ContextInv'
<1>1. ContextTypes'
  BY DEF ContextInv, ContextTypes, Stages
<1>2. ContextAccountable'
  BY DEF ContextInv, ContextAccountable
<1>3. QED
  BY <1>1, <1>2 DEF ContextInv

\* decide
LEMMA DecidedStep ==
  ASSUME ContextInv, NEW policy \in Policies, Decide(policy) PROVE ContextInv'
<1>1. policy \in PolicyRow
  <2>1. PICK one, two, three :
          /\ one = [authority : {TRUE}, principal : {TRUE}, domain : {TRUE}, classified : {"within"},
                    items : {1, 3}, chars : {2, 4, 9}]
          /\ two = {Policy(FALSE, TRUE, TRUE, "within", 3, 9), Policy(TRUE, FALSE, TRUE, "within", 3, 9),
                    Policy(TRUE, TRUE, FALSE, "within", 3, 9)}
          /\ three = {Policy(TRUE, TRUE, TRUE, c, 3, 9) : c \in {"unranked", "other_scheme", "above"}}
    BY Zenon
  <2>2. \A c \in {"unranked", "other_scheme", "above"} : Policy(TRUE, TRUE, TRUE, c, 3, 9) \in PolicyRow
    BY DEF Policy, PolicyRow
  <2>3. /\ Policy(FALSE, TRUE, TRUE, "within", 3, 9) \in PolicyRow
        /\ Policy(TRUE, FALSE, TRUE, "within", 3, 9) \in PolicyRow
        /\ Policy(TRUE, TRUE, FALSE, "within", 3, 9) \in PolicyRow
    BY DEF Policy, PolicyRow
  <2>4. one \subseteq PolicyRow
    <3>1. {TRUE} \subseteq BOOLEAN /\ {1, 3} \subseteq Nat /\ {2, 4, 9} \subseteq Nat
      OBVIOUS
    <3>2. QED
      BY <2>1, <3>1 DEF PolicyRow
  <2>5. two \subseteq PolicyRow
    BY <2>3, <2>1, Zenon
  <2>6. three \subseteq PolicyRow
    BY <2>2, <2>1, Zenon
  <2>7. policy \in one \cup two \cup three
    BY <2>1, Zenon DEF Policies
  <2>8. QED
    BY <2>4, <2>5, <2>6, <2>7
<1>2. PICK outcome : outcome = Decision(policy)
  OBVIOUS
<1>3. /\ outcome \in {"missing_authority", "denied", "allowed", "unknown_classification",
                      "classification_ceiling_exceeded"}
      /\ outcome = "allowed" => Permitted(policy)
  <2>1. policy.classified \in {"within", "unranked", "other_scheme", "above"} /\ policy.items \in Nat
    BY <1>1 DEF PolicyRow
  <2>2. Len(balanced) \in Nat
    BY DEF ContextInv, ContextTypes
  <2>3. PICK answers : answers = [unranked |-> "unknown_classification", other_scheme |-> "denied",
                                  above |-> "classification_ceiling_exceeded"]
    OBVIOUS
  <2>4. /\ answers["unranked"] = "unknown_classification" /\ answers["other_scheme"] = "denied"
        /\ answers["above"] = "classification_ceiling_exceeded"
    BY <2>3
  <2>5. CASE ~policy.authority
    BY <2>5, <1>2 DEF Decision
  <2>6. CASE policy.authority /\ (~policy.principal \/ ~policy.domain \/ Len(balanced) > policy.items)
    BY <2>6, <1>2 DEF Decision
  <2>7. CASE /\ policy.authority /\ policy.principal /\ policy.domain /\ ~(Len(balanced) > policy.items)
             /\ balanced = <<>> \/ policy.classified = "within"
    <3>1. outcome = "allowed"
      BY <2>7, <1>2 DEF Decision
    <3>2. QED
      BY <3>1, <2>7, <2>1, <2>2 DEF Permitted
  <2>8. CASE /\ policy.authority /\ policy.principal /\ policy.domain /\ ~(Len(balanced) > policy.items)
             /\ ~(balanced = <<>> \/ policy.classified = "within")
    <3>1. outcome = answers[policy.classified]
      BY <2>8, <2>3, <1>2 DEF Decision
    <3>2. QED
      BY <3>1, <2>1, <2>4, <2>8
  <2>9. QED
    BY <2>5, <2>6, <2>7, <2>8
<1>4. PICK chars \in Nat : chars = policy.chars
  BY <1>1 DEF PolicyRow
<1>5. PICK next : next = [NoDisclosure EXCEPT !.policy = policy, !.outcome = outcome, !.remaining = chars]
  OBVIOUS
<1>6. /\ next \in Disclosed /\ next.policy = policy /\ next.outcome = outcome /\ next.remaining = chars
      /\ next.projected = <<>> /\ next.redactions = {}
  BY <1>1, <1>3, <1>4, <1>5, NothingDisclosed DEF Disclosed
<1>7. /\ disclosure' = next /\ UNCHANGED <<supplied, families, balanced, coverage>> /\ stage = "assembled"
      /\ (outcome = "allowed" => stage' = "project") /\ (outcome # "allowed" => stage' = "done")
  BY <1>2, <1>4, <1>5 DEF Decide
<1>8. Projecting'
  <2>1. Len(<<>>) = 0 /\ DOMAIN <<>> = {} /\ Len(balanced) \in Nat
    BY DEF ContextInv, ContextTypes
  <2>2. outcome = "allowed" => Permitted(next.policy)'
    BY <1>3, <1>6, <1>7 DEF Permitted
  <2>3. next.remaining + SumOf(next.projected) + Len(next.projected) = next.policy.chars
    BY <1>4, <1>6, SumEmpty, <2>1
  <2>4. QED
    BY <1>3, <1>6, <1>7, <2>1, <2>2, <2>3 DEF Projecting, Permitted
<1>9. QED
  BY <1>3, <1>6, <1>7, <1>8, AfterAssembly

\* project: the item that is cut off, the item that is projected.
LEMMA CutOffStep ==
  ASSUME ContextInv, ProjectItem, disclosure.remaining - TitlePrefix <= 0 PROVE ContextInv'
<1>1. /\ disclosure \in Disclosed /\ stage = "project" /\ Projecting
      /\ UNCHANGED <<supplied, families, balanced, coverage>>
  BY DEF ContextInv, ContextTypes, ProjectItem
<1>2. PICK k : k = Len(disclosure.projected) + 1
  OBVIOUS
<1>3. PICK reds \in SUBSET (Nat \X {"context_budget", "sensitive_marker", "excerpt_truncated"}) :
        reds = disclosure.redactions \cup {<<k, "context_budget">>}
  <2>1. k \in Nat
    BY <1>1, <1>2 DEF Disclosed
  <2>2. <<k, "context_budget">> \in Nat \X {"context_budget", "sensitive_marker", "excerpt_truncated"}
    BY <2>1
  <2>3. disclosure.redactions \subseteq Nat \X {"context_budget", "sensitive_marker", "excerpt_truncated"}
    BY <1>1 DEF Disclosed
  <2>4. QED
    BY <2>2, <2>3, Zenon
<1>4. PICK next : next = [disclosure EXCEPT !.redactions = reds]
  OBVIOUS
<1>5. /\ next \in Disclosed /\ next.policy = disclosure.policy /\ next.outcome = disclosure.outcome
      /\ next.projected = disclosure.projected /\ next.remaining = disclosure.remaining
      /\ next.redactions = reds
  BY <1>1, <1>4 DEF Disclosed
<1>6. disclosure' = next /\ stage' = "cut_off"
  BY <1>2, <1>3, <1>4 DEF ProjectItem
<1>7. reds # {}
  BY <1>3
<1>8. Projecting'
  <2>1. Permitted(disclosure.policy)
    BY <1>1 DEF Projecting
  <2>2. Permitted(next.policy)'
    BY <2>1, <1>1, <1>5 DEF Permitted
  <2>3. QED
    BY <1>1, <1>5, <1>6, <1>7, <2>2 DEF Projecting
<1>9. QED
  BY <1>1, <1>5, <1>6, <1>8, AfterAssembly

LEMMA ProjectedStep ==
  ASSUME ContextInv, ProjectItem, ~(disclosure.remaining - TitlePrefix <= 0) PROVE ContextInv'
<1>1. /\ disclosure \in Disclosed /\ stage = "project" /\ Projecting
      /\ UNCHANGED <<supplied, families, balanced, coverage>>
      /\ balanced \in Seq(AnyItem)
  BY DEF ContextInv, ContextTypes, ProjectItem
<1>2. PICK shown \in Seq(Text) : shown = disclosure.projected
  BY <1>1 DEF Disclosed
<1>3. PICK left \in Nat : left = disclosure.remaining
  BY <1>1 DEF Disclosed
<1>4. PICK k \in Nat : k = Len(shown) + 1
  OBVIOUS
<1>5. PICK available \in Nat : available = left - 1 /\ left >= 1
  BY <1>3 DEF TitlePrefix
<1>6. k \in DOMAIN balanced
  BY <1>1, <1>2, <1>4 DEF ProjectItem
<1>7. PICK whole \in Text : whole = balanced[k].excerpt
  BY <1>1, <1>6, AnyShape
<1>8. PICK raw \in Text : raw = Cut(whole, available)
  BY CutIs
<1>9. PICK safe \in Text : safe = SafeExcerpt(raw) /\ safe.marker < 2
  BY SafeIs
<1>10. PICK excerpt \in Text : excerpt = Cut(safe, available)
  BY CutIs
<1>11. PICK units \in Nat : units = Units(excerpt) /\ units <= available
  BY <1>10, CutIs
<1>12. ~Exposed(excerpt)
  <2>1. excerpt.marker <= safe.marker
    BY <1>10, CutIs
  <2>2. excerpt.marker \in Nat /\ safe.marker \in Nat
    BY DEF Text
  <2>3. QED
    BY <2>1, <2>2, <1>9 DEF Exposed
<1>13. PICK reds : reds = disclosure.redactions \cup {<<k, why>> : why \in
                          {w \in {"sensitive_marker", "excerpt_truncated"} :
                              IF w = "sensitive_marker" THEN excerpt # raw
                              ELSE Units(excerpt) < Units(whole)}}
  OBVIOUS
<1>14. /\ reds \in SUBSET (Nat \X {"context_budget", "sensitive_marker", "excerpt_truncated"})
       /\ reds = {} => disclosure.redactions = {} /\ excerpt = raw /\ ~(Units(excerpt) < Units(whole))
  <2>1. disclosure.redactions \in SUBSET (Nat \X {"context_budget", "sensitive_marker", "excerpt_truncated"})
    BY <1>1 DEF Disclosed
  <2>2. PICK whys : whys = {w \in {"sensitive_marker", "excerpt_truncated"} :
                              IF w = "sensitive_marker" THEN excerpt # raw
                              ELSE Units(excerpt) < Units(whole)}
    OBVIOUS
  <2>3. whys \subseteq {"sensitive_marker", "excerpt_truncated"}
    BY <2>2
  <2>4. whys = {} => excerpt = raw /\ ~(Units(excerpt) < Units(whole))
    <3>1. excerpt # raw => "sensitive_marker" \in whys
      BY <2>2
    <3>2. Units(excerpt) < Units(whole) => "excerpt_truncated" \in whys
      BY <2>2
    <3>3. QED
      BY <3>1, <3>2
  <2>5. reds = disclosure.redactions \cup {<<k, why>> : why \in whys}
    BY <1>13, <2>2
  <2>6. reds \in SUBSET (Nat \X {"context_budget", "sensitive_marker", "excerpt_truncated"})
    <3>1. ASSUME NEW why \in whys
          PROVE  <<k, why>> \in Nat \X {"context_budget", "sensitive_marker", "excerpt_truncated"}
      BY <2>3
    <3>2. {<<k, why>> : why \in whys} \subseteq
            Nat \X {"context_budget", "sensitive_marker", "excerpt_truncated"}
      BY <3>1, Zenon
    <3>3. QED
      BY <2>1, <2>5, <3>2, Zenon
  <2>7. ASSUME reds = {} PROVE disclosure.redactions = {} /\ whys = {}
    <3>1. \A why \in whys : <<k, why>> \in reds
      BY <2>5
    <3>2. QED
      BY <2>5, <2>7, <3>1
  <2>8. QED
    BY <2>4, <2>6, <2>7
<1>15. PICK more \in Seq(Text) : more = Append(shown, excerpt)
  <2>1. Append(shown, excerpt) \in Seq(Text)
    OBVIOUS
  <2>2. QED
    BY <2>1, Zenon
<1>16. /\ Len(more) = Len(shown) + 1 /\ more[k] = excerpt /\ DOMAIN more = 1 .. k /\ Len(more) = k
       /\ DOMAIN shown = 1 .. Len(shown) /\ Len(shown) \in Nat
       /\ \A l \in 1 .. Len(shown) : more[l] = shown[l]
  BY <1>4, <1>15
<1>17. PICK rest \in Nat : rest = left - TitlePrefix - units /\ rest + units + 1 = left
  BY <1>5, <1>11 DEF TitlePrefix
<1>25. PICK titles \in Seq(Titles) : titles = Append(disclosure.titles, balanced[k].title)
  <2>1. disclosure.titles \in Seq(Titles) /\ balanced[k].title \in Titles
    BY <1>1, <1>6, AnyShape DEF Disclosed
  <2>2. Append(disclosure.titles, balanced[k].title) \in Seq(Titles)
    BY <2>1
  <2>3. QED
    BY <2>2, Zenon
<1>18. PICK next : next = [disclosure EXCEPT !.titles = titles, !.projected = more,
                                             !.remaining = rest, !.redactions = reds]
  OBVIOUS
<1>19. /\ next \in Disclosed /\ next.policy = disclosure.policy /\ next.outcome = disclosure.outcome
       /\ next.projected = more /\ next.remaining = rest /\ next.redactions = reds
  BY <1>1, <1>14, <1>18 DEF Disclosed
<1>20. disclosure' = next /\ stage' = "project"
  <2> DEFINE kk == Len(disclosure.projected) + 1
             av == disclosure.remaining - TitlePrefix
             ra == Cut(balanced[kk].excerpt, av)
             ex == Cut(SafeExcerpt(ra), av)
  <2>1. /\ stage' = "project"
        /\ disclosure' = [disclosure EXCEPT
                      !.titles = Append(@, balanced[kk].title),
                      !.projected = Append(@, ex),
                      !.remaining = @ - TitlePrefix - Units(ex),
                      !.redactions = @ \cup {<<kk, why>> : why \in
                          {w \in {"sensitive_marker", "excerpt_truncated"} :
                              IF w = "sensitive_marker" THEN ex # ra
                              ELSE Units(ex) < Units(balanced[kk].excerpt)}}]
    BY <1>1, ZenonT(60) DEF ProjectItem
  <2>2. kk = k /\ av = available
    BY <1>2, <1>3, <1>4, <1>5 DEF TitlePrefix
  <2>3. ra = raw /\ ex = excerpt
    BY <2>2, <1>7, <1>8, <1>9, <1>10
  <2> HIDE DEF kk, av, ra, ex
  <2>4. disclosure' = [disclosure EXCEPT
                      !.titles = Append(@, balanced[k].title),
                      !.projected = Append(@, excerpt),
                      !.remaining = @ - TitlePrefix - Units(excerpt),
                      !.redactions = @ \cup {<<k, why>> : why \in
                          {w \in {"sensitive_marker", "excerpt_truncated"} :
                              IF w = "sensitive_marker" THEN excerpt # raw
                              ELSE Units(excerpt) < Units(whole)}}]
    BY <2>1, <2>2, <2>3, <1>7
  <2>5. disclosure' = [disclosure EXCEPT !.titles = titles, !.projected = more,
                                         !.remaining = rest, !.redactions = reds]
    BY <2>4, <1>2, <1>3, <1>11, <1>13, <1>15, <1>17, <1>25, Zenon
  <2>6. QED
    BY <2>1, <2>5, <1>18
<1>21. SumOf(more) = SumOf(shown) + units /\ SumOf(shown) \in Nat
  BY <1>11, <1>15, SumAppended
<1>22. reds = {} => excerpt = whole
  <2>1. Units(raw) \in Nat /\ Units(whole) \in Nat /\ (Units(raw) >= Units(whole) => raw = whole)
    BY <1>8, CutIs
  <2>2. QED
    BY <2>1, <1>14
<1>23. Projecting'
  <2>1. Permitted(disclosure.policy) /\ left + SumOf(shown) + Len(shown) = disclosure.policy.chars
    BY <1>1, <1>2, <1>3 DEF Projecting
  <2>2. Permitted(next.policy)'
    BY <2>1, <1>1, <1>19 DEF Permitted
  <2>3. rest + SumOf(more) + Len(more) = disclosure.policy.chars
    <3>1. PICK sum \in Nat, size \in Nat : sum = SumOf(shown) /\ size = Len(shown)
      BY <1>16, <1>21
    <3>2. SumOf(more) = sum + units /\ Len(more) = size + 1 /\ left + sum + size = disclosure.policy.chars
      BY <3>1, <2>1, <1>16, <1>21
    <3>3. rest + (sum + units) + (size + 1) = left + sum + size
      <4>1. rest + units + 1 = left
        BY <1>17
      <4>2. \A m1, m2, m3, m4 \in Nat : m1 + (m3 + m2) + (m4 + 1) = (m1 + m2 + 1) + m3 + m4
        OBVIOUS
      <4>3. QED
        BY <4>1, <4>2
    <3>4. QED
      BY <3>2, <3>3
  <2>4. Len(more) <= Len(balanced)
    BY <1>1, <1>6, <1>16
  <2>5. \A l \in DOMAIN more : l \in DOMAIN shown \/ l = k
    BY <1>4, <1>16
  <2>6. \A l \in DOMAIN more : ~Exposed(more[l])
    BY <2>5, <1>1, <1>2, <1>12, <1>16 DEF Projecting
  <2>7. reds = {} => \A l \in DOMAIN more : more[l] = balanced[l].excerpt
    BY <2>5, <1>1, <1>2, <1>7, <1>14, <1>16, <1>22 DEF Projecting
  <2>8. QED
    BY <1>1, <1>19, <1>20, <2>2, <2>3, <2>4, <2>6, <2>7 DEF Projecting
<1>24. QED
  BY <1>1, <1>19, <1>20, <1>23, AfterAssembly

LEMMA FinishedStep == ASSUME ContextInv, FinishProjection PROVE ContextInv'
<1>1. /\ disclosure \in Disclosed /\ stage \in {"cut_off", "project"} /\ Projecting
      /\ UNCHANGED <<supplied, families, balanced, coverage>> /\ stage' = "projected"
      /\ stage = "project" => Len(disclosure.projected) = Len(balanced)
  BY DEF ContextInv, ContextTypes, FinishProjection
<1>2. PICK outcome : outcome = IF disclosure.redactions # {} THEN "redacted_projected" ELSE disclosure.outcome
  OBVIOUS
<1>3. PICK next : next = [disclosure EXCEPT !.outcome = outcome]
  OBVIOUS
<1>4. /\ next \in Disclosed /\ next.policy = disclosure.policy /\ next.outcome = outcome
      /\ next.projected = disclosure.projected /\ next.remaining = disclosure.remaining
      /\ next.redactions = disclosure.redactions
  BY <1>1, <1>2, <1>3 DEF Disclosed
<1>5. disclosure' = next
  BY <1>2, <1>3 DEF FinishProjection
<1>6. Projecting'
  <2>1. Permitted(disclosure.policy)
    BY <1>1 DEF Projecting
  <2>2. Permitted(next.policy)'
    BY <2>1, <1>1, <1>4 DEF Permitted
  <2>3. outcome = "allowed" => disclosure.redactions = {} /\ Len(disclosure.projected) = Len(balanced)
    BY <1>1, <1>2 DEF Projecting
  <2>4. QED
    BY <1>1, <1>4, <1>5, <2>2, <2>3 DEF Projecting
<1>7. QED
  BY <1>1, <1>4, <1>5, <1>6, AfterAssembly

LEMMA GeneratedStep ==
  ASSUME ContextInv, NEW answer \in {"response", "fallback"}, Generate(answer) PROVE ContextInv'
<1>1. /\ disclosure \in Disclosed /\ stage = "projected" /\ Projecting
      /\ UNCHANGED <<supplied, families, balanced, coverage>> /\ stage' = "done"
  BY DEF ContextInv, ContextTypes, Generate
<1>2. PICK next : next = [disclosure EXCEPT !.answer = answer]
  OBVIOUS
<1>3. /\ next \in Disclosed /\ next.policy = disclosure.policy /\ next.outcome = disclosure.outcome
      /\ next.projected = disclosure.projected /\ next.remaining = disclosure.remaining
      /\ next.redactions = disclosure.redactions
  BY <1>1, <1>2 DEF Disclosed
<1>4. disclosure' = next
  BY <1>2 DEF Generate
<1>5. Projecting'
  <2>1. Permitted(disclosure.policy)
    BY <1>1 DEF Projecting
  <2>2. Permitted(next.policy)'
    BY <2>1, <1>1, <1>3 DEF Permitted
  <2>3. QED
    BY <1>1, <1>3, <1>4, <2>2 DEF Projecting
<1>6. QED
  BY <1>1, <1>3, <1>4, <1>5, AfterAssembly

\* Lists: the number of items of one without repetition, and the list of items by score.
LEMMA ListCounted ==
  ASSUME NEW S, NEW s \in Seq(S)
  PROVE  /\ IsFiniteSet(Range(s)) /\ Cardinality(Range(s)) \in Nat /\ Cardinality(Range(s)) <= Len(s)
         /\ IsInjective(s) => Cardinality(Range(s)) = Len(s)
<1>1. Len(s) \in Nat /\ DOMAIN s = 1 .. Len(s) /\ 1 \in Int /\ Len(s) \in Int
  OBVIOUS
<1>2. PICK n, r : n \in Nat /\ n = Len(s) /\ r = Range(s)
  BY <1>1
<1>3. s \in Surjection(1 .. n, r)
  <2>1. s \in [1 .. n -> r] /\ \A t \in r : \E k \in 1 .. n : s[k] = t
    BY <1>1, <1>2 DEF Range
  <2>2. QED
    BY <2>1 DEF Surjection
<1>4. IsFiniteSet(1 .. n) /\ Cardinality(1 .. n) = n
  <2>1. IsFiniteSet(1 .. n) /\ Cardinality(1 .. n) = IF 1 > n THEN 0 ELSE n - 1 + 1
    BY <1>1, <1>2, FS_Interval, Zenon
  <2>2. QED
    BY <1>2, <2>1
<1>5. PICK all : all = 1 .. n
  OBVIOUS
<1>6. /\ IsFiniteSet(r) /\ Cardinality(r) <= n
      /\ Cardinality(r) = n <=> s \in Injection(all, r)
  <2>1. s \in Surjection(all, r) /\ IsFiniteSet(all) /\ Cardinality(all) = n
    BY <1>3, <1>4, <1>5
  <2>2. QED
    BY <2>1, FS_Surjection
<1>7. IsInjective(s) => s \in Injection(all, r)
  BY <1>3, <1>5 DEF Injection, Surjection
<1>8. Cardinality(r) \in Nat
  BY <1>6, FS_CardinalityType
<1>9. QED
  BY <1>2, <1>6, <1>7, <1>8

Descends(s) == \A k, l \in DOMAIN s : k < l => s[k].score > s[l].score

LEMMA ListedNext ==
  ASSUME NEW a \in AdapterSet, NEW items \in SUBSET PlainItems(a),
         \A i, j \in items : i.id = j.id => i = j,
         NEW m \in 1 .. 3, NEW s \in Seq(items), Descends(s), Range(s) = {i \in items : i.score > m}
  PROVE  \E t \in Seq(items) : Descends(t) /\ Range(t) = {i \in items : i.score > m - 1}
<1>1. \A i \in items : i.score \in 1 .. 3
  BY ItemShape
<1>2. CASE \E i \in items : i.score = m
  <2>1. PICK x \in items : x.score = m
    BY <1>2
  <2>2. \A i \in items : i.score = m => i = x
    <3>1. ASSUME NEW i \in items, i.score = m PROVE i.id = x.id
      <4>1. PICK p1, p2, p3 : p1 = <<a, 1>> /\ p2 = <<a, 2>> /\ p3 = <<"both", 1>>
        OBVIOUS
      <4>2. /\ \/ i.score = 1 /\ i.id = p1
               \/ i.score = 2 /\ i.id = p2
               \/ i.score = 3 /\ i.id = p3
            /\ \/ x.score = 1 /\ x.id = p1
               \/ x.score = 2 /\ x.id = p2
               \/ x.score = 3 /\ x.id = p3
        BY <4>1, ItemShape
      <4>3. QED
        BY <4>2, <2>1, <3>1
    <3>2. QED
      BY <3>1
  <2>3. PICK t \in Seq(items) : t = Append(s, x)
    <3>1. Append(s, x) \in Seq(items)
      OBVIOUS
    <3>2. QED
      BY <3>1, Zenon
  <2>4. Range(t) = Range(s) \cup {x}
    BY <2>3, RangeOfAppend
  <2>5. Range(t) = {i \in items : i.score > m - 1}
    <3>1. ASSUME NEW i PROVE i \in Range(t) <=> i \in items /\ i.score > m - 1
      <4>1. CASE i \in items
        <5>1. i.score \in 1 .. 3
          BY <4>1, <1>1
        <5>2. i.score > m - 1 <=> i.score > m \/ i.score = m
          BY <5>1
        <5>3. QED
          BY <4>1, <5>2, <2>1, <2>2, <2>4
      <4>2. CASE i \notin items
        BY <4>2, <2>4
      <4>3. QED
        BY <4>1, <4>2
    <3>2. QED
      BY <3>1
  <2>6. Descends(t)
    <3>1. ASSUME NEW k \in DOMAIN t, NEW l \in DOMAIN t, k < l PROVE t[k].score > t[l].score
      <4>1. /\ Len(s) \in Nat /\ DOMAIN s = 1 .. Len(s) /\ DOMAIN t = 1 .. Len(s) + 1
            /\ t[Len(s) + 1] = x /\ \A j \in 1 .. Len(s) : t[j] = s[j]
        BY <2>3
      <4>2. k \in DOMAIN s /\ (l \in DOMAIN s \/ l = Len(s) + 1)
        BY <4>1, <3>1
      <4>3. s[k] \in Range(s)
        BY <4>2 DEF Range
      <4>4. s[k].score > m
        BY <4>3
      <4>5. QED
        BY <3>1, <4>1, <4>2, <4>4, <2>1 DEF Descends
    <3>2. QED
      BY <3>1 DEF Descends
  <2>7. QED
    BY <2>5, <2>6
<1>3. CASE ~ \E i \in items : i.score = m
  <2>1. {i \in items : i.score > m} = {i \in items : i.score > m - 1}
    <3>1. \A i \in items : i.score > m - 1 <=> i.score > m
      BY <1>1, <1>3
    <3>2. QED
      BY <3>1
  <2>2. QED
    BY <2>1
<1>4. QED
  BY <1>2, <1>3

LEMMA ByScoreLists ==
  ASSUME NEW a \in AdapterSet, NEW items \in SUBSET PlainItems(a),
         \A i, j \in items : i.id = j.id => i = j
  PROVE  /\ ByScore(items) \in Seq(PlainItems(a)) /\ Range(ByScore(items)) = items
         /\ OneEach(ByScore(items)) /\ Len(ByScore(items)) = Cardinality(items)
         /\ IsFiniteSet(items) /\ Cardinality(items) \in Nat
<1>1. \A i \in items : i.score \in 1 .. 3
  BY ItemShape
<1>2. PICK s0 \in Seq(items) : Descends(s0) /\ Range(s0) = {i \in items : i.score > 3}
  <2>1. <<>> \in Seq(items) /\ Descends(<<>>) /\ Range(<<>>) = {}
    BY DEF Descends, Range
  <2>2. {i \in items : i.score > 3} = {}
    BY <1>1
  <2>3. QED
    BY <2>1, <2>2
<1>3. PICK s1 \in Seq(items) : Descends(s1) /\ Range(s1) = {i \in items : i.score > 2}
  <2>1. 3 \in 1 .. 3 /\ 3 - 1 = 2
    OBVIOUS
  <2>2. QED
    BY <2>1, <1>2, ListedNext
<1>4. PICK s2 \in Seq(items) : Descends(s2) /\ Range(s2) = {i \in items : i.score > 1}
  <2>1. 2 \in 1 .. 3 /\ 2 - 1 = 1
    OBVIOUS
  <2>2. QED
    BY <2>1, <1>3, ListedNext
<1>5. PICK s3 \in Seq(items) : Descends(s3) /\ Range(s3) = {i \in items : i.score > 0}
  <2>1. 1 \in 1 .. 3 /\ 1 - 1 = 0
    OBVIOUS
  <2>2. QED
    BY <2>1, <1>4, ListedNext, SMTT(60)
<1>6. Range(s3) = items
  <2>1. {i \in items : i.score > 0} = items
    BY <1>1
  <2>2. QED
    BY <2>1, <1>5
<1>7. ASSUME NEW s \in Seq(items), Descends(s) PROVE OneEach(s) /\ IsInjective(s)
  <2>1. ASSUME NEW k \in DOMAIN s, NEW l \in DOMAIN s, s[k].id = s[l].id PROVE k = l
    <3>1. s[k] \in items /\ s[l] \in items /\ k \in Nat /\ l \in Nat
      OBVIOUS
    <3>2. s[k] = s[l]
      BY <3>1, <2>1
    <3>3. s[k].score \in 1 .. 3
      BY <3>1, <1>1
    <3>4. ~(k < l) /\ ~(l < k)
      BY <3>2, <3>3, <1>7 DEF Descends
    <3>5. QED
      BY <3>1, <3>4
  <2>2. QED
    BY <2>1 DEF OneEach, IsInjective
<1>8. /\ IsFiniteSet(items) /\ Cardinality(items) \in Nat /\ Cardinality(items) = Len(s3)
  BY <1>5, <1>6, <1>7, ListCounted
<1>9. PICK n \in Nat : n = Cardinality(items)
  BY <1>8
<1>10. s3 \in [1 .. n -> items]
  BY <1>8, <1>9
<1>11. PICK s : s = ByScore(items)
  OBVIOUS
<1>12. s \in [1 .. n -> items] /\ Range(s) = items /\ Descends(s)
  <2>1. s = CHOOSE t \in [1 .. n -> items] : Range(t) = items /\ Descends(t)
    BY <1>9, <1>11, Zenon DEF ByScore, Descends
  <2>2. \E t \in [1 .. n -> items] : Range(t) = items /\ Descends(t)
    BY <1>5, <1>6, <1>10
  <2>3. QED
    BY <2>1, <2>2, Zenon
<1>13. s \in Seq(items) /\ Len(s) = n
  BY <1>12
<1>14. s \in Seq(PlainItems(a))
  BY <1>13
<1>15. QED
  BY <1>7, <1>8, <1>9, <1>11, <1>12, <1>13, <1>14

\* What an adapter may answer.
LEMMA ItemsShape ==
  ASSUME NEW a \in AdapterSet, NEW i \in Items(a)
  PROVE  i.odd \in Oddities /\ (i.odd = "plain" => i \in PlainItems(a))
<1>1. CASE i \in PlainItems(a)
  <2>1. i.odd = "plain"
    BY <1>1, ItemShape
  <2>2. QED
    BY <1>1, <2>1 DEF Oddities
<1>2. CASE i \notin PlainItems(a)
  <2>1. PICK odd \in Oddities \ {"plain"} : i = OwnItem(a, odd)
    BY <1>2, Zenon DEF Items
  <2>2. i.odd = odd
    BY <2>1 DEF OwnItem, Item
  <2>3. QED
    BY <2>1, <2>2
<1>3. QED
  BY <1>1, <1>2

LEMMA EvidenceListed ==
  ASSUME NEW a \in AdapterSet, NEW e \in Evidences(a) PROVE e \in Seq(Items(a))
<1>1. PlainItems(a) \subseteq Items(a)
  BY Zenon DEF Items
<1>2. OwnItem(a, "plain") \in Items(a)
  <2>1. OwnItem(a, "plain") \in PlainItems(a)
    BY Zenon DEF PlainItems
  <2>2. QED
    BY <2>1, <1>1
<1>3. PICK own, plain, items : own = OwnItem(a, "plain") /\ plain = PlainItems(a) /\ items = Items(a)
  OBVIOUS
<1>4. own \in items /\ plain \subseteq items
  BY <1>1, <1>2, <1>3
<1>5. \/ e = <<>>
      \/ \E i \in items : e = <<i>>
      \/ e \in items \X plain
      \/ e \in {own} \X plain \X plain
  BY <1>3, Zenon DEF Evidences
<1>6. CASE e = <<>>
  BY <1>6
<1>7. CASE \E i \in items : e = <<i>>
  BY <1>3, <1>7
<1>8. CASE e \in items \X plain
  <2>1. PICK x \in items, y \in items : e = <<x, y>>
    BY <1>4, <1>8
  <2>2. QED
    BY <2>1, <1>3
<1>9. CASE e \in {own} \X plain \X plain
  <2>1. PICK x \in items, y \in items, z \in items : e = <<x, y, z>>
    BY <1>4, <1>9
  <2>2. QED
    BY <2>1, <1>3
<1>10. QED
  BY <1>5, <1>6, <1>7, <1>8, <1>9

LEMMA OutcomeShape ==
  ASSUME NEW a \in AdapterSet, NEW outcome \in Outcomes(a)
  PROVE  /\ outcome.kind \in {"unusable", "connector_failure", "batch"}
         /\ outcome.evidence \in Seq(Items(a))
         /\ outcome.reservations \subseteq {"source_truncated", "source_records_filtered"}
         /\ outcome.kind # "batch" => outcome.evidence = <<>>
         /\ outcome \in AnyOutcome
<1>1. outcome \in AnyOutcome
  BY DEF AnyOutcome, AdapterSet
<1>2. CASE outcome \in [kind : {"unusable", "connector_failure"}, evidence : {<<>>}, reservations : {{}}]
  <2>1. outcome.kind \in {"unusable", "connector_failure"} /\ outcome.evidence = <<>> /\ outcome.reservations = {}
    BY <1>2
  <2>2. QED
    BY <1>1, <2>1
<1>3. CASE outcome \in [kind : {"batch"}, evidence : Evidences(a), reservations : {{}}]
  <2>1. outcome.kind = "batch" /\ outcome.evidence \in Evidences(a) /\ outcome.reservations = {}
    BY <1>3
  <2>2. QED
    BY <1>1, <2>1, EvidenceListed
<1>4. CASE outcome \in [kind : {"batch"}, evidence : {<<i>> : i \in PlainItems(a)},
                        reservations : {{"source_truncated"}, {"source_records_filtered"}}]
  <2>1. /\ outcome.kind = "batch" /\ outcome.evidence \in {<<i>> : i \in PlainItems(a)}
        /\ outcome.reservations \in {{"source_truncated"}, {"source_records_filtered"}}
    BY <1>4
  <2>2. PICK i \in PlainItems(a) : outcome.evidence = <<i>>
    BY <2>1
  <2>3. i \in Items(a)
    BY Zenon DEF Items
  <2>4. outcome.evidence \in Seq(Items(a))
    BY <2>2, <2>3
  <2>5. QED
    BY <1>1, <2>1, <2>4
<1>5. QED
  BY <1>2, <1>3, <1>4, Zenon DEF Outcomes

\* What is kept of an answer: sound items, each id once; all of it if nothing is reported.
Kept(outcome) == Sound(outcome) \ Conflicting(Sound(outcome))

LEMMA ConsideredIs ==
  ASSUME NEW S, NEW outcome, outcome.evidence \in Seq(S)
  PROVE  /\ Range(Considered(outcome)) \subseteq Range(outcome.evidence)
         /\ Len(outcome.evidence) < PerSourceLimit => Range(Considered(outcome)) = Range(outcome.evidence)
<1>1. PICK s \in Seq(S) : s = outcome.evidence
  OBVIOUS
<1>2. PICK n \in Nat : n = Lower(PerSourceLimit, Len(s)) /\ n <= Len(s) /\ (Len(s) < PerSourceLimit => n = Len(s))
  BY ContextAssumption DEF Lower
<1>3. PICK t : t = SubSeq(s, 1, n)
  OBVIOUS
<1>4. t \in Seq(S) /\ Len(t) = n /\ \A k \in 1 .. n : t[k] = s[k]
  BY <1>2, <1>3
<1>5. Considered(outcome) = t
  BY <1>1, <1>2, <1>3 DEF Considered
<1>6. ASSUME NEW x, x \in Range(t) PROVE x \in Range(s)
  <2>1. PICK k \in 1 .. n : t[k] = x
    BY <1>4, <1>6, RangeMember
  <2>2. k \in 1 .. Len(s) /\ s[k] = x
    BY <1>2, <1>4, <2>1
  <2>3. QED
    BY <2>2, RangeMember
<1>7. ASSUME Len(s) < PerSourceLimit, NEW x, x \in Range(s) PROVE x \in Range(t)
  <2>1. PICK k \in 1 .. Len(s) : s[k] = x
    BY <1>7, RangeMember
  <2>2. k \in 1 .. Len(t) /\ t[k] = x
    BY <1>2, <1>4, <1>7, <2>1
  <2>3. QED
    BY <1>4, <2>2, RangeMember
<1>8. QED
  BY <1>1, <1>5, <1>6, <1>7

LEMMA KeptShape ==
  ASSUME NEW a \in AdapterSet, NEW outcome \in Outcomes(a)
  PROVE  /\ Kept(outcome) \in SUBSET PlainItems(a)
         /\ \A i, j \in Kept(outcome) : i.id = j.id => i = j
         /\ Kept(outcome) \subseteq Range(outcome.evidence)
         /\ Reasons(outcome) = {} => Range(outcome.evidence) \subseteq Kept(outcome)
         /\ Reasons(outcome) \subseteq Oddities \cup {"source_truncated", "source_records_filtered",
                "source_limit_reached", "conflicting_evidence_id"}
<1>1. PICK items : items = Range(Considered(outcome))
  OBVIOUS
<1>2. outcome.evidence \in Seq(Items(a))
  BY OutcomeShape
<1>3. items \subseteq Range(outcome.evidence)
  BY <1>1, <1>2, ConsideredIs
<1>4. Range(outcome.evidence) \subseteq Items(a)
  BY <1>2 DEF Range
<1>5. Sound(outcome) = {i \in items : i.odd = "plain"}
  BY <1>1 DEF Sound
<1>6. Sound(outcome) \subseteq PlainItems(a)
  BY <1>3, <1>4, <1>5, ItemsShape
<1>7. ASSUME NEW i \in Kept(outcome), NEW j \in Kept(outcome), i.id = j.id PROVE i = j
  <2>1. i \in Sound(outcome) /\ j \in Sound(outcome) /\ i \notin Conflicting(Sound(outcome))
    BY DEF Kept
  <2>2. QED
    BY <2>1, <1>7, Zenon DEF Conflicting
<1>8. PICK odds, full, clash :
        /\ odds = {i.odd : i \in {j \in items : j.odd # "plain"}}
        /\ full = IF Len(outcome.evidence) >= PerSourceLimit THEN {"source_limit_reached"} ELSE {}
        /\ clash = IF Conflicting(Sound(outcome)) # {} THEN {"conflicting_evidence_id"} ELSE {}
  OBVIOUS
<1>9. Reasons(outcome) = outcome.reservations \cup odds \cup full \cup clash
  BY <1>1, <1>8 DEF Reasons
<1>10. /\ outcome.reservations \subseteq {"source_truncated", "source_records_filtered"}
       /\ odds \subseteq Oddities /\ full \subseteq {"source_limit_reached"}
       /\ clash \subseteq {"conflicting_evidence_id"}
  <2>1. \A i \in items : i.odd \in Oddities
    BY <1>3, <1>4, ItemsShape
  <2>2. odds \subseteq Oddities
    BY <1>8, <2>1
  <2>3. QED
    BY <1>8, <2>2, OutcomeShape
<1>11. ASSUME Reasons(outcome) = {} PROVE Range(outcome.evidence) \subseteq Kept(outcome)
  <2>1. odds = {} /\ full = {} /\ clash = {}
    BY <1>9, <1>11
  <2>2. \A i \in items : i.odd = "plain"
    <3>1. \A i \in items : i.odd # "plain" => i.odd \in odds
      BY <1>8
    <3>2. QED
      BY <2>1, <3>1
  <2>3. Sound(outcome) = items
    BY <1>5, <2>2
  <2>4. Conflicting(Sound(outcome)) = {}
    BY <1>8, <2>1
  <2>5. Len(outcome.evidence) < PerSourceLimit
    <3>1. Len(outcome.evidence) \in Nat
      BY <1>2
    <3>2. QED
      BY <1>8, <2>1, <3>1, ContextAssumption
  <2>6. items = Range(outcome.evidence)
    BY <1>1, <1>2, <2>5, ConsideredIs
  <2>7. QED
    BY <2>3, <2>4, <2>6 DEF Kept
<1>12. QED
  BY <1>3, <1>5, <1>6, <1>7, <1>9, <1>10, <1>11 DEF Kept

\* assemble: one adapter is asked.
LEMMA RowRetrieved ==
  ASSUME NEW a \in AdapterSet, NEW outcome \in Outcomes(a), NEW row,
         outcome.kind # "batch" =>
             row = [NoCoverage EXCEPT !.status = "unavailable", !.reasons = {outcome.kind}],
         outcome.kind = "batch" =>
             row = [status |-> IF Reasons(outcome) # {} THEN "partial"
                               ELSE IF Kept(outcome) # {} THEN "retrieved" ELSE "empty",
                    returned |-> Len(outcome.evidence), admitted |-> Cardinality(Kept(outcome)),
                    selected |-> 0, reasons |-> Reasons(outcome)]
  PROVE  /\ row \in CoverageRow /\ row.selected = 0 /\ row.admitted <= row.returned
         /\ row.admitted = Cardinality(Kept(outcome))
         /\ row.status \in {"retrieved", "empty"} => Range(outcome.evidence) \subseteq Kept(outcome)
<1>1. /\ outcome.kind \in {"unusable", "connector_failure", "batch"}
      /\ outcome.evidence \in Seq(Items(a))
      /\ outcome.kind # "batch" => outcome.evidence = <<>>
  BY OutcomeShape
<1>2. PICK kept : kept = Kept(outcome)
  OBVIOUS
<1>3. /\ kept \in SUBSET PlainItems(a) /\ \A i, j \in kept : i.id = j.id => i = j
      /\ kept \subseteq Range(outcome.evidence)
      /\ Reasons(outcome) = {} => Range(outcome.evidence) \subseteq kept
      /\ Reasons(outcome) \subseteq Oddities \cup {"source_truncated", "source_records_filtered",
                "source_limit_reached", "conflicting_evidence_id"}
  BY <1>2, KeptShape
<1>4. IsFiniteSet(kept) /\ Cardinality(kept) \in Nat
  BY <1>3, ByScoreLists
<1>5. Cardinality(kept) <= Len(outcome.evidence) /\ Len(outcome.evidence) \in Nat
  <2>1. PICK all : all = Range(outcome.evidence)
    OBVIOUS
  <2>2. /\ IsFiniteSet(all) /\ Cardinality(all) \in Nat /\ Cardinality(all) <= Len(outcome.evidence)
        /\ Len(outcome.evidence) \in Nat
    BY <1>1, <2>1, ListCounted
  <2>3. Cardinality(kept) <= Cardinality(all)
    <3>1. kept \in SUBSET all
      BY <1>3, <2>1
    <3>2. QED
      BY <2>2, <3>1, FS_Subset
  <2>4. QED
    BY <1>4, <2>2, <2>3
<1>6. CASE outcome.kind # "batch"
  <2>1. kept = {}
    BY <1>1, <1>3, <1>6 DEF Range
  <2>2. Cardinality(kept) = 0
    BY <2>1, FS_EmptySet
  <2>3. PICK kind \in {"unusable", "connector_failure"} : kind = outcome.kind
    BY <1>1, <1>6
  <2>4. PICK why \in SUBSET (Oddities \cup {"unusable", "connector_failure", "source_truncated",
                                      "source_records_filtered", "source_limit_reached",
                                      "conflicting_evidence_id", "context_limit_reached"}) : why = {kind}
    BY <2>3
  <2>5. PICK no : no = {}
    OBVIOUS
  <2>6. NoCoverage = [status |-> "none", returned |-> 0, admitted |-> 0, selected |-> 0, reasons |-> no]
    BY <2>5 DEF NoCoverage
  <2>7. row = [status |-> "unavailable", returned |-> 0, admitted |-> 0, selected |-> 0, reasons |-> why]
    BY <1>6, <2>3, <2>4, <2>6
  <2>8. QED
    BY <1>2, <2>2, <2>7 DEF CoverageRow
<1>7. CASE outcome.kind = "batch"
  <2>1. PICK status \in {"retrieved", "empty", "partial"} :
          /\ status = IF Reasons(outcome) # {} THEN "partial" ELSE IF kept # {} THEN "retrieved" ELSE "empty"
          /\ status # "partial" => Reasons(outcome) = {}
    OBVIOUS
  <2>2. PICK returned, admitted, why :
          /\ returned \in Nat /\ admitted \in Nat
          /\ returned = Len(outcome.evidence) /\ admitted = Cardinality(kept) /\ why = Reasons(outcome)
    BY <1>4, <1>5
  <2>3. why \in SUBSET (Oddities \cup {"unusable", "connector_failure", "source_truncated",
                                      "source_records_filtered", "source_limit_reached",
                                      "conflicting_evidence_id", "context_limit_reached"})
    BY <1>3, <2>2
  <2>4. row = [status |-> status, returned |-> returned, admitted |-> admitted, selected |-> 0, reasons |-> why]
    BY <1>2, <1>7, <2>1, <2>2, Zenon
  <2>5. /\ row \in CoverageRow /\ row.status = status /\ row.returned = returned
        /\ row.admitted = admitted /\ row.selected = 0
    BY <2>2, <2>3, <2>4 DEF CoverageRow
  <2>6. QED
    BY <1>2, <1>3, <1>5, <2>1, <2>2, <2>5
<1>8. QED
  BY <1>6, <1>7

LEMMA RetrievedStep == ASSUME ContextInv, NEW outcome, Retrieve(outcome) PROVE ContextInv'
<1>1. /\ ContextTypes /\ stage = "retrieve" /\ Len(supplied) < 2 /\ Retrieving /\ Projecting
      /\ UNCHANGED <<stage, balanced, disclosure>>
  <2>1. Len(Adapters) = 2
    BY DEF Adapters
  <2>2. QED
    BY <2>1 DEF ContextInv, Retrieve
<1>2. PICK n \in {0, 1} : n = Len(supplied)
  <2>1. Len(supplied) \in Nat
    BY <1>1 DEF ContextTypes
  <2>2. Len(supplied) = 0 \/ Len(supplied) = 1
    <3>1. PICK size \in Nat : size = Len(supplied) /\ size < 2
      BY <1>1, <2>1
    <3>2. size = 0 \/ size = 1
      BY <3>1
    <3>3. QED
      BY <3>1, <3>2
  <2>3. QED
    BY <2>2
<1>3. PICK a : a = Adapters[n + 1]
  OBVIOUS
<1>4. a \in AdapterSet /\ Turn(a) = n + 1
  BY <1>3 DEF Adapters, AdapterSet, Turn
<1>5. outcome \in Outcomes(a) /\ supplied' = Append(supplied, outcome)
  BY <1>2, <1>3 DEF Retrieve
<1>6. PICK list : list = ByScore(Kept(outcome))
  OBVIOUS
<1>7. families' = [families EXCEPT ![a] = list]
  BY <1>2, <1>3, <1>6, Zenon DEF Retrieve, Kept
<1>8. PICK row : /\ coverage' = [coverage EXCEPT ![a] = row]
                 /\ outcome.kind # "batch" =>
                      row = [NoCoverage EXCEPT !.status = "unavailable", !.reasons = {outcome.kind}]
                 /\ outcome.kind = "batch" =>
                      row = [status |-> IF Reasons(outcome) # {} THEN "partial"
                                        ELSE IF Kept(outcome) # {} THEN "retrieved" ELSE "empty",
                             returned |-> Len(outcome.evidence), admitted |-> Cardinality(Kept(outcome)),
                             selected |-> 0, reasons |-> Reasons(outcome)]
  <2>1. PICK row : row =
             IF outcome.kind # "batch"
             THEN [NoCoverage EXCEPT !.status = "unavailable", !.reasons = {outcome.kind}]
             ELSE [status |-> IF Reasons(outcome) # {} THEN "partial"
                              ELSE IF Kept(outcome) # {} THEN "retrieved" ELSE "empty",
                   returned |-> Len(outcome.evidence), admitted |-> Cardinality(Kept(outcome)),
                   selected |-> 0, reasons |-> Reasons(outcome)]
    OBVIOUS
  <2>2. coverage' = [coverage EXCEPT ![a] = row]
    BY <1>2, <1>3, <2>1, Zenon DEF Retrieve, Kept
  <2>3. QED
    BY <2>1, <2>2, Zenon
<1>9. /\ row \in CoverageRow /\ row.selected = 0 /\ row.admitted <= row.returned
      /\ row.admitted = Cardinality(Kept(outcome))
      /\ row.status \in {"retrieved", "empty"} => Range(outcome.evidence) \subseteq Kept(outcome)
  BY <1>4, <1>5, <1>8, RowRetrieved
<1>10. /\ list \in Seq(PlainItems(a)) /\ Range(list) = Kept(outcome) /\ OneEach(list)
       /\ Len(list) = Cardinality(Kept(outcome))
  <2>1. PICK kept : kept = Kept(outcome)
    OBVIOUS
  <2>2. kept \in SUBSET PlainItems(a) /\ \A i, j \in kept : i.id = j.id => i = j
    BY <2>1, <1>4, <1>5, KeptShape
  <2>3. QED
    BY <2>1, <2>2, <1>4, <1>6, ByScoreLists
<1>11. /\ supplied' \in Seq(AnyOutcome) /\ Len(supplied') = n + 1 /\ supplied'[n + 1] = outcome
       /\ \A k \in 1 .. n : supplied'[k] = supplied[k] /\ DOMAIN supplied' = 1 .. n + 1
       /\ DOMAIN supplied = 1 .. n
  <2>1. outcome \in AnyOutcome /\ supplied \in Seq(AnyOutcome)
    BY <1>1, <1>4, <1>5, OutcomeShape DEF ContextTypes
  <2>2. QED
    BY <1>2, <1>5, <2>1
<1>12. DOMAIN supplied' = 1 .. n + 1
  BY <1>11
<1>13. list \in Seq(AnyItem)
  <2>1. PlainItems(a) \subseteq AnyItem
    BY <1>4 DEF AnyItem, AdapterSet
  <2>2. QED
    BY <1>10, <2>1
<1>14. /\ families' \in [AdapterSet -> Seq(AnyItem)] /\ coverage' \in [AdapterSet -> CoverageRow]
       /\ families'[a] = list /\ coverage'[a] = row
       /\ \A b \in AdapterSet \ {a} : families'[b] = families[b] /\ coverage'[b] = coverage[b]
  BY <1>1, <1>4, <1>7, <1>8, <1>9, <1>13 DEF ContextTypes
<1>15. ContextTypes'
  <2>1. ASSUME NEW b \in AdapterSet
        PROVE  /\ families'[b] \in Seq(PlainItems(b))
               /\ coverage'[b].selected <= coverage'[b].admitted
               /\ coverage'[b].admitted <= coverage'[b].returned
    <3>1. CASE b = a
      <4>1. row.admitted \in Nat
        BY <1>9 DEF CoverageRow
      <4>2. QED
        BY <3>1, <4>1, <1>9, <1>10, <1>14
    <3>2. CASE b # a
      BY <3>2, <1>1, <1>14 DEF ContextTypes
    <3>3. QED
      BY <3>1, <3>2
  <2>2. QED
    BY <2>1, <1>1, <1>2, <1>11, <1>14 DEF ContextTypes
<1>16. Retrieving'
  <2>1. ASSUME NEW b \in AdapterSet
        PROVE  /\ OneEach(families'[b]) /\ Len(families'[b]) = coverage'[b].admitted
               /\ coverage'[b].selected = 0
               /\ Turn(b) \in DOMAIN supplied' /\ coverage'[b].status \in {"retrieved", "empty"} =>
                    Range(supplied'[Turn(b)].evidence) \subseteq Range(families'[b])
    <3>1. CASE b = a
      BY <3>1, <1>4, <1>9, <1>10, <1>11, <1>14
    <3>2. CASE b # a
      <4>1. Turn(b) # n + 1
        BY <3>2, <1>4 DEF Turn, AdapterSet
      <4>2. Turn(b) \in DOMAIN supplied' => Turn(b) \in DOMAIN supplied /\ supplied'[Turn(b)] = supplied[Turn(b)]
        BY <4>1, <1>11, <1>12
      <4>3. QED
        BY <3>2, <4>2, <1>1, <1>14 DEF Retrieving, Claimed, Answer
    <3>3. QED
      BY <3>1, <3>2
  <2>2. QED
    BY <2>1, <1>1 DEF Retrieving, Claimed, Answer, OneEach, Turn
<1>17. Projecting'
  BY <1>1 DEF Projecting, Permitted
<1>18. QED
  BY <1>1, <1>15, <1>16, <1>17 DEF ContextInv, ContextAccountable

\* assemble: ids that stand for two records are dropped.
Reduced(row, gone) ==
    [row EXCEPT !.status = "partial", !.admitted = @ - gone,
                !.reasons = @ \cup {"conflicting_evidence_id"}]

\* The row agrees with the list, before and after.
Listed(fam, row) ==
    OneEach(fam) /\ Len(fam) = row.admitted /\ row.selected = 0 /\ row.admitted <= row.returned
Reduces(row, next, lost) ==
    (lost = {} => next = row) /\ (lost # {} => next = Reduced(row, Cardinality(lost)))
KeepsClaim(row, next, lost) ==
    next.status \in {"retrieved", "empty"} => lost = {} /\ next.status = row.status

LEMMA LostOfSource ==
  ASSUME NEW a \in AdapterSet, NEW fam \in Seq(PlainItems(a)), NEW lost \in SUBSET Range(fam),
         NEW row \in CoverageRow, Listed(fam, row), NEW next, Reduces(row, next, lost),
         NEW list, list = ByScore(Range(fam) \ lost)
  PROVE  /\ next \in CoverageRow /\ list \in Seq(PlainItems(a)) /\ Listed(list, next)
         /\ Range(list) = Range(fam) \ lost /\ KeepsClaim(row, next, lost)
<1>0. /\ OneEach(fam) /\ Len(fam) = row.admitted /\ row.selected = 0 /\ row.admitted <= row.returned
      /\ lost = {} => next = row
      /\ lost # {} => next = Reduced(row, Cardinality(lost))
  BY DEF Listed, Reduces
<1>1. PICK all : all = Range(fam)
  OBVIOUS
<1>2. all \subseteq PlainItems(a) /\ IsInjective(fam)
  <2>1. all \subseteq PlainItems(a)
    BY <1>1 DEF Range
  <2>2. IsInjective(fam)
    BY <1>0 DEF OneEach, IsInjective
  <2>3. QED
    BY <2>1, <2>2
<1>3. ASSUME NEW i \in all, NEW j \in all, i.id = j.id PROVE i = j
  <2>1. PICK k \in DOMAIN fam, l \in DOMAIN fam : fam[k] = i /\ fam[l] = j
    BY <1>1 DEF Range
  <2>2. QED
    BY <1>0, <1>3, <2>1 DEF OneEach
<1>4. PICK left \in SUBSET PlainItems(a) : left = all \ lost
  BY <1>2
<1>5. \A i, j \in left : i.id = j.id => i = j
  BY <1>3, <1>4
<1>6. list = ByScore(left)
  BY <1>1, <1>4
<1>7. /\ list \in Seq(PlainItems(a)) /\ Range(list) = left /\ OneEach(list)
      /\ Len(list) = Cardinality(left) /\ Cardinality(left) \in Nat
  BY <1>4, <1>5, <1>6, ByScoreLists
<1>8. IsFiniteSet(all) /\ Cardinality(all) = row.admitted /\ row.admitted \in Nat /\ row.returned \in Nat
  BY <1>0, <1>1, <1>2, ListCounted DEF CoverageRow
<1>9. PICK gone \in Nat : gone = Cardinality(lost) /\ Cardinality(left) = row.admitted - gone /\ gone <= row.admitted
  <2>1. lost \in SUBSET all
    BY <1>1
  <2>2. all \cap lost = lost
    BY <2>1
  <2>3. IsFiniteSet(lost) /\ Cardinality(lost) <= Cardinality(all)
    BY <2>1, <1>8, FS_Subset
  <2>4. Cardinality(lost) \in Nat
    BY <2>3, FS_CardinalityType
  <2>5. Cardinality(all \ lost) = Cardinality(all) - Cardinality(all \cap lost)
    BY <1>8, FS_Difference
  <2>6. QED
    BY <2>2, <2>3, <2>4, <2>5, <1>4, <1>8
<1>10. CASE lost = {}
  <2>1. gone = 0 /\ next = row
    BY <1>0, <1>9, <1>10, FS_EmptySet
  <2>2. QED
    BY <2>1, <1>0, <1>1, <1>4, <1>6, <1>7, <1>8, <1>9, <1>10 DEF Listed, KeepsClaim
<1>11. CASE lost # {}
  <2>1. PICK why \in SUBSET (Oddities \cup {"unusable", "connector_failure", "source_truncated",
                                      "source_records_filtered", "source_limit_reached",
                                      "conflicting_evidence_id", "context_limit_reached"}) :
          why = row.reasons \cup {"conflicting_evidence_id"}
    BY DEF CoverageRow
  <2>2. PICK admitted \in Nat : admitted = row.admitted - gone
    BY <1>8, <1>9
  <2>3. next = [row EXCEPT !.status = "partial", !.admitted = admitted, !.reasons = why]
    BY <1>0, <1>9, <1>11, <2>1, <2>2 DEF Reduced
  <2>4. /\ next \in CoverageRow /\ next.status = "partial" /\ next.admitted = admitted
        /\ next.selected = 0 /\ next.returned = row.returned
    BY <1>0, <2>3 DEF CoverageRow
  <2>5. admitted <= row.returned
    BY <1>0, <2>2, <1>8, <1>9
  <2>6. Range(list) = Range(fam) \ lost /\ Len(list) = admitted
    BY <2>2, <1>1, <1>4, <1>6, <1>7, <1>9
  <2>7. QED
    BY <2>4, <2>5, <2>6, <1>7 DEF Listed, KeepsClaim
<1>12. QED
  BY <1>10, <1>11

LEMMA NoneChosen == \A a : Chosen(<<>>, a) = 0
<1> SUFFICES ASSUME NEW a PROVE Chosen(<<>>, a) = 0
  OBVIOUS
<1>1. {k \in DOMAIN <<>> : <<>>[k].adapter = a} = {}
  OBVIOUS
<1>2. QED
  BY <1>1, FS_EmptySet DEF Chosen

LEMMA CollidedStep == ASSUME ContextInv, RejectCollisions PROVE ContextInv'
<1>1. /\ ContextTypes /\ stage = "retrieve" /\ stage' = "balance" /\ Len(supplied) = 2 /\ Retrieving /\ Projecting
      /\ UNCHANGED <<supplied, balanced, disclosure>> /\ balanced = <<>>
  <2>1. Len(Adapters) = 2
    BY DEF Adapters
  <2>2. QED
    BY <2>1 DEF ContextInv, RejectCollisions, Retrieving
<1> DEFINE Lost(a) == {i \in Range(families[a]) : i.id \in Collisions}
<1>2. /\ families' = [a \in AdapterSet |-> ByScore(Range(families[a]) \ Lost(a))]
      /\ coverage' = [a \in AdapterSet |->
             IF Lost(a) = {} THEN coverage[a]
             ELSE [coverage[a] EXCEPT !.status = "partial",
                                      !.admitted = @ - Cardinality(Lost(a)),
                                      !.reasons = @ \cup {"conflicting_evidence_id"}]]
  BY Zenon DEF RejectCollisions
<1>3. ASSUME NEW a \in AdapterSet
      PROVE  /\ coverage'[a] \in CoverageRow /\ coverage'[a].selected = 0
             /\ coverage'[a].admitted <= coverage'[a].returned
             /\ families'[a] \in Seq(PlainItems(a)) /\ OneEach(families'[a])
             /\ Range(families'[a]) = Range(families[a]) \ Lost(a)
             /\ Len(families'[a]) = coverage'[a].admitted
             /\ coverage'[a].status \in {"retrieved", "empty"} =>
                   Lost(a) = {} /\ coverage'[a].status = coverage[a].status
  <2>1. PICK fam \in Seq(PlainItems(a)) : fam = families[a]
    BY <1>1 DEF ContextTypes
  <2>2. PICK row \in CoverageRow : row = coverage[a]
    BY <1>1 DEF ContextTypes
  <2>3. PICK lost : lost = Lost(a)
    OBVIOUS
  <2>4. lost \in SUBSET Range(fam)
    BY <2>1, <2>3
  <2>5. PICK next : next = coverage'[a]
    OBVIOUS
  <2> HIDE DEF Lost
  <2>6. Reduces(row, next, lost)
    <3>1. next = IF Lost(a) = {} THEN coverage[a]
             ELSE [coverage[a] EXCEPT !.status = "partial",
                                      !.admitted = @ - Cardinality(Lost(a)),
                                      !.reasons = @ \cup {"conflicting_evidence_id"}]
      BY <1>2, <2>5, Zenon
    <3>2. QED
      BY <3>1, <2>2, <2>3, Zenon DEF Reduced, Reduces
  <2>7. PICK list : list = families'[a] /\ list = ByScore(Range(fam) \ lost)
    BY <1>2, <2>1, <2>3, Zenon
  <2>8. Listed(fam, row)
    BY <1>1, <2>1, <2>2 DEF Retrieving, ContextTypes, Listed
  <2>9. /\ next \in CoverageRow /\ list \in Seq(PlainItems(a)) /\ Listed(list, next)
        /\ Range(list) = Range(fam) \ lost /\ KeepsClaim(row, next, lost)
    BY <2>4, <2>6, <2>7, <2>8, LostOfSource
  <2>10. QED
    BY <2>1, <2>2, <2>3, <2>5, <2>7, <2>9 DEF Listed, KeepsClaim
<1>4. ContextTypes'
  <2>1. ASSUME NEW a \in AdapterSet PROVE families'[a] \in Seq(AnyItem)
    <3>1. PlainItems(a) \subseteq AnyItem
      BY DEF AnyItem, AdapterSet
    <3>2. QED
      BY <1>3, <3>1
  <2>2. families' \in [AdapterSet -> Seq(AnyItem)] /\ coverage' \in [AdapterSet -> CoverageRow]
    <3>1. DOMAIN families' = AdapterSet /\ DOMAIN coverage' = AdapterSet
      BY <1>2
    <3>2. families' = [a \in AdapterSet |-> families'[a]] /\ coverage' = [a \in AdapterSet |-> coverage'[a]]
      BY <1>2
    <3>3. \A a \in AdapterSet : coverage'[a] \in CoverageRow
      BY <1>3
    <3>4. QED
      BY <2>1, <3>2, <3>3
  <2>3. \A a \in AdapterSet : /\ coverage'[a].selected <= coverage'[a].admitted
                              /\ coverage'[a].admitted <= coverage'[a].returned
    BY <1>3 DEF CoverageRow
  <2>4. QED
    BY <1>1, <1>3, <2>2, <2>3 DEF ContextTypes, Stages
<1>5. Apart(families'["calendar"], families'["mail"])
  <2>1. "calendar" \in AdapterSet /\ "mail" \in AdapterSet
    BY DEF AdapterSet
  <2>2. ASSUME NEW k \in DOMAIN families'["calendar"], NEW l \in DOMAIN families'["mail"],
               families'["calendar"][k].id = families'["mail"][l].id
        PROVE  FALSE
    <3>1. PICK i, j : i = families'["calendar"][k] /\ j = families'["mail"][l]
      OBVIOUS
    <3>2. i \in Range(families["calendar"]) \ Lost("calendar") /\ j \in Range(families["mail"]) \ Lost("mail")
      <4>1. i \in Range(families'["calendar"]) /\ j \in Range(families'["mail"])
        BY <3>1 DEF Range
      <4>2. QED
        BY <4>1, <2>1, <1>3
    <3>3. i.id = j.id
      BY <2>2, <3>1
    <3>4. i.id \in Collisions
      <4>1. PICK id : id = i.id
        OBVIOUS
      <4>2. id \in {m.id : m \in Range(families["calendar"])}
        BY <3>2, <4>1
      <4>3. id \in UNION {{m.id : m \in Range(families[a])} : a \in AdapterSet}
        BY <2>1, <4>2
      <4>4. \A a \in AdapterSet : \E m \in Range(families[a]) : m.id = id
        BY <3>2, <3>3, <4>1 DEF AdapterSet
      <4>5. QED
        BY <4>1, <4>3, <4>4, Zenon DEF Collisions
    <3>5. QED
      BY <3>2, <3>4
  <2>3. QED
    BY <2>2 DEF Apart
<1>6. Distinct(balanced', families')
  <2>1. OneEach(<<>>) /\ \A s : Apart(<<>>, s)
    BY DEF OneEach, Apart
  <2>2. QED
    BY <1>1, <1>3, <1>5, <2>1 DEF Distinct
<1>7. ASSUME NEW a \in AdapterSet PROVE Whole(balanced, families[a], a)'
  <2>1. PICK fam : fam = families'[a]
    OBVIOUS
  <2>2. Chosen(balanced', a) = 0 /\ Chosen(balanced', a) + Len(fam) = coverage'[a].admitted
    <3>1. coverage'[a].admitted \in Nat
      BY <1>3 DEF CoverageRow
    <3>2. QED
      BY <1>1, <1>3, <2>1, <3>1, NoneChosen
  <2>3. ASSUME coverage'[a].status \in {"retrieved", "empty"}
        PROVE  Range(supplied'[Turn(a)].evidence) \subseteq Range(balanced') \cup Range(fam)
    <3>1. Lost(a) = {} /\ coverage[a].status \in {"retrieved", "empty"}
      BY <1>3, <2>3
    <3>2. Range(fam) = Range(families[a])
      BY <1>3, <2>1, <3>1
    <3>3. Turn(a) \in DOMAIN supplied
      <4>1. DOMAIN supplied = 1 .. 2
        BY <1>1 DEF ContextTypes
      <4>2. QED
        BY <4>1 DEF Turn
    <3>4. QED
      BY <1>1, <3>1, <3>2, <3>3 DEF Retrieving, Claimed, Answer
  <2>4. QED
    BY <2>1, <2>2, <2>3 DEF Whole, Chosen, Claimed, Answer, Turn
<1>8. Balancing'
  <2>1. \A a \in AdapterSet : Chosen(balanced', a) = 0
    BY <1>1, NoneChosen
  <2>2. \A a \in AdapterSet : Chosen(balanced, a)' = 0
    BY <2>1 DEF Chosen
  <2>3. Distinct(balanced, families)'
    BY <1>6 DEF Distinct, OneEach, Apart
  <2>4. QED
    BY <1>1, <1>3, <1>7, <2>2, <2>3 DEF Balancing
<1>9. Projecting'
  BY <1>1 DEF Projecting, Permitted
<1>10. QED
  BY <1>1, <1>4, <1>8, <1>9 DEF ContextInv, ContextAccountable

\* assemble: a turn.  One item moves from the list of its source to the context.
LEMMA ChosenNext ==
  ASSUME NEW bal \in Seq(AnyItem), NEW a \in AdapterSet, NEW x \in PlainItems(a), NEW b \in AdapterSet
  PROVE  /\ Chosen(bal, b) \in Nat
         /\ b = a => Chosen(Append(bal, x), b) = Chosen(bal, b) + 1
         /\ b # a => Chosen(Append(bal, x), b) = Chosen(bal, b)
<1>1. x.adapter = a /\ x \in AnyItem
  BY ItemShape
<1>2. PICK more \in Seq(AnyItem) : more = Append(bal, x)
  <2>1. Append(bal, x) \in Seq(AnyItem)
    BY <1>1
  <2>2. QED
    BY <2>1, Zenon
<1>3. PICK n \in Nat : n = Len(bal) /\ DOMAIN bal = 1 .. n
  OBVIOUS
<1>4. DOMAIN more = 1 .. n + 1 /\ more[n + 1] = x /\ \A k \in 1 .. n : more[k] = bal[k]
  BY <1>1, <1>2, <1>3
<1>5. PICK old, new : /\ old = {k \in DOMAIN bal : bal[k].adapter = b}
                      /\ new = {k \in DOMAIN more : more[k].adapter = b}
  OBVIOUS
<1>6. IsFiniteSet(old) /\ Cardinality(old) \in Nat
  <2>1. IsFiniteSet(1 .. n)
    <3>1. 1 \in Int /\ n \in Int
      OBVIOUS
    <3>2. QED
      BY <3>1, FS_Interval
  <2>2. old \in SUBSET (1 .. n)
    BY <1>3, <1>5
  <2>3. IsFiniteSet(old)
    BY <2>1, <2>2, FS_Subset
  <2>4. QED
    BY <2>3, FS_CardinalityType
<1>7. ASSUME b = a PROVE Cardinality(new) = Cardinality(old) + 1
  <2>1. new = old \cup {n + 1}
    BY <1>1, <1>3, <1>4, <1>5, <1>7
  <2>2. n + 1 \notin old
    BY <1>3, <1>5
  <2>3. QED
    BY <2>1, <2>2, <1>6, FS_AddElement
<1>8. ASSUME b # a PROVE Cardinality(new) = Cardinality(old)
  <2>1. new = old
    BY <1>1, <1>3, <1>4, <1>5, <1>8
  <2>2. QED
    BY <2>1
<1>9. Chosen(bal, b) = Cardinality(old) /\ Chosen(more, b) = Cardinality(new)
  BY <1>5 DEF Chosen
<1>10. QED
  BY <1>2, <1>6, <1>7, <1>8, <1>9

LEMMA HeadAndTail ==
  ASSUME NEW S, NEW s \in Seq(S), s # <<>>
  PROVE  /\ Len(s) \in Nat \ {0} /\ Head(s) = s[1] /\ Head(s) \in S /\ DOMAIN s = 1 .. Len(s)
         /\ Tail(s) \in Seq(S) /\ Len(Tail(s)) = Len(s) - 1 /\ DOMAIN Tail(s) = 1 .. Len(s) - 1
         /\ \A k \in 1 .. Len(s) - 1 : Tail(s)[k] = s[k + 1]
         /\ Range(s) = Range(Tail(s)) \cup {Head(s)}
<1>1. /\ Len(s) \in Nat \ {0} /\ Head(s) = s[1] /\ Head(s) \in S /\ DOMAIN s = 1 .. Len(s)
      /\ Tail(s) \in Seq(S) /\ Len(Tail(s)) = Len(s) - 1 /\ DOMAIN Tail(s) = 1 .. Len(s) - 1
      /\ \A k \in 1 .. Len(s) - 1 : Tail(s)[k] = s[k + 1]
  <2>1. Len(s) \in Nat \ {0}
    BY EmptySeq
  <2>2. QED
    BY <2>1, HeadTailProperties
<1>2. PICK t \in Seq(S) : t = Tail(s)
  BY <1>1
<1>3. ASSUME NEW x, x \in Range(s) PROVE x \in Range(t) \cup {s[1]}
  <2>1. PICK k \in 1 .. Len(s) : s[k] = x
    BY <1>3, RangeMember
  <2>2. CASE k # 1
    <3>1. k - 1 \in 1 .. Len(t) /\ t[k - 1] = x
      BY <1>1, <1>2, <2>1, <2>2
    <3>2. QED
      BY <3>1, RangeMember
  <2>3. QED
    BY <2>1, <2>2
<1>4. ASSUME NEW x, x \in Range(t) \cup {s[1]} PROVE x \in Range(s)
  <2>1. CASE x \in Range(t)
    <3>1. PICK k \in 1 .. Len(t) : t[k] = x
      BY <2>1, RangeMember
    <3>2. k + 1 \in 1 .. Len(s) /\ s[k + 1] = x
      BY <1>1, <1>2, <3>1
    <3>3. QED
      BY <3>2, RangeMember
  <2>2. CASE x = s[1]
    <3>1. 1 \in 1 .. Len(s)
      BY <1>1
    <3>2. QED
      BY <2>2, <3>1, RangeMember
  <2>3. QED
    BY <1>4, <2>1, <2>2
<1>5. Range(s) = Range(t) \cup {s[1]}
  BY <1>3, <1>4
<1>6. QED
  BY <1>1, <1>2, <1>5

\* The lists the turns go over.
ListsFit(fams) ==
    /\ fams \in [AdapterSet -> Seq(AnyItem)]
    /\ \A a \in AdapterSet : fams[a] \in Seq(PlainItems(a))

LEMMA TailFits ==
  ASSUME NEW fams, ListsFit(fams), NEW a \in AdapterSet, fams[a] # <<>>
  PROVE  ListsFit([fams EXCEPT ![a] = Tail(fams[a])])
<1>1. fams[a] \in Seq(PlainItems(a)) /\ fams[a] \in Seq(AnyItem)
  BY DEF ListsFit
<1>2. PICK rest : rest = Tail(fams[a])
  OBVIOUS
<1>3. rest \in Seq(PlainItems(a)) /\ rest \in Seq(AnyItem)
  BY <1>1, <1>2, HeadAndTail
<1>4. ListsFit([fams EXCEPT ![a] = rest])
  BY <1>3 DEF ListsFit
<1>5. QED
  BY <1>2, <1>4

LEMMA DroppedApart ==
  ASSUME NEW bal \in Seq(AnyItem), NEW fams, ListsFit(fams), Distinct(bal, fams),
         NEW a \in AdapterSet, fams[a] # <<>>, NEW fams2, fams2 = [fams EXCEPT ![a] = Tail(fams[a])]
  PROVE  Distinct(bal, fams2)
<1>1. PICK s, t : s \in Seq(PlainItems(a)) /\ s = fams[a] /\ t = Tail(s) /\ s # <<>>
  BY DEF ListsFit
<1>2. /\ DOMAIN s = 1 .. Len(s) /\ Len(s) \in Nat /\ DOMAIN t = 1 .. Len(s) - 1
      /\ \A k \in 1 .. Len(s) - 1 : t[k] = s[k + 1]
  BY <1>1, HeadAndTail
<1>3. \A k \in DOMAIN t : k + 1 \in DOMAIN s /\ t[k] = s[k + 1] /\ k \in Nat
  BY <1>2
<1>4. fams2[a] = t /\ \A b \in AdapterSet \ {a} : fams2[b] = fams[b]
  BY <1>1 DEF ListsFit
<1>5. OneEach(t)
  <2>1. OneEach(s)
    BY <1>1 DEF Distinct
  <2>2. ASSUME NEW k \in DOMAIN t, NEW l \in DOMAIN t, t[k].id = t[l].id PROVE k = l
    <3>1. k + 1 = l + 1
      BY <1>3, <2>1, <2>2 DEF OneEach
    <3>2. QED
      BY <1>3, <3>1
  <2>3. QED
    BY <2>2 DEF OneEach
<1>6. \A r : (Apart(r, s) => Apart(r, t)) /\ (Apart(s, r) => Apart(t, r))
  BY <1>3 DEF Apart
<1>7. \A b \in AdapterSet : OneEach(fams2[b]) /\ Apart(bal, fams2[b])
  BY <1>1, <1>4, <1>5, <1>6 DEF Distinct
<1>8. Apart(fams2["calendar"], fams2["mail"])
  <2>1. "calendar" \in AdapterSet /\ "mail" \in AdapterSet
    BY DEF AdapterSet
  <2>2. CASE a = "calendar"
    BY <2>1, <2>2, <1>1, <1>4, <1>6 DEF Distinct
  <2>3. CASE a = "mail"
    BY <2>1, <2>3, <1>1, <1>4, <1>6 DEF Distinct
  <2>4. QED
    BY <2>2, <2>3 DEF AdapterSet
<1>9. QED
  BY <1>7, <1>8 DEF Distinct

LEMMA TakenApart ==
  ASSUME NEW bal \in Seq(AnyItem), NEW fams, ListsFit(fams), Distinct(bal, fams),
         NEW a \in AdapterSet, fams[a] # <<>>, NEW fams2, fams2 = [fams EXCEPT ![a] = Tail(fams[a])],
         NEW bal2, bal2 = Append(bal, Head(fams[a]))
  PROVE  Distinct(bal2, fams2)
<1>1. Distinct(bal, fams2)
  BY DroppedApart
<1>2. PICK s, t : s \in Seq(PlainItems(a)) /\ s = fams[a] /\ t = Tail(s) /\ s # <<>>
  BY DEF ListsFit
<1>3. /\ DOMAIN s = 1 .. Len(s) /\ Len(s) \in Nat \ {0} /\ DOMAIN t = 1 .. Len(s) - 1 /\ Head(s) = s[1]
      /\ \A k \in 1 .. Len(s) - 1 : t[k] = s[k + 1]
  BY <1>2, HeadAndTail
<1>4. PICK x \in AnyItem : x = Head(s) /\ x = s[1]
  <2>1. Head(s) \in PlainItems(a)
    BY <1>2, HeadAndTail
  <2>2. QED
    BY <2>1, <1>3, ItemShape
<1>5. fams2[a] = t /\ \A b \in AdapterSet \ {a} : fams2[b] = fams[b]
  BY <1>2 DEF ListsFit
<1>6. 1 \in DOMAIN s /\ \A k \in DOMAIN t : k + 1 \in DOMAIN s /\ t[k] = s[k + 1] /\ k + 1 # 1
  BY <1>3
<1>7. /\ DOMAIN bal2 = 1 .. Len(bal) + 1 /\ bal2[Len(bal) + 1] = x
      /\ DOMAIN bal = 1 .. Len(bal) /\ Len(bal) \in Nat /\ \A k \in 1 .. Len(bal) : bal2[k] = bal[k]
  BY <1>2, <1>4
<1>8. \A k \in DOMAIN bal2 : (k \in DOMAIN bal /\ bal2[k] = bal[k]) \/ (k = Len(bal) + 1 /\ bal2[k] = x)
  BY <1>7
<1>9. \A k \in DOMAIN bal : bal[k].id # x.id
  BY <1>2, <1>4, <1>6 DEF Distinct, Apart
<1>10. OneEach(bal2)
  <2>1. OneEach(bal)
    BY DEF Distinct
  <2>2. QED
    BY <2>1, <1>8, <1>9 DEF OneEach
<1>11. ASSUME NEW b \in AdapterSet, NEW k \in DOMAIN fams2[b] PROVE fams2[b][k].id # x.id
  <2>1. CASE b = a
    <3>1. k + 1 \in DOMAIN s /\ fams2[b][k] = s[k + 1] /\ k + 1 # 1
      BY <2>1, <1>5, <1>6, <1>11
    <3>2. OneEach(s)
      BY <1>2 DEF Distinct
    <3>3. QED
      BY <3>1, <3>2, <1>4, <1>6 DEF OneEach
  <2>2. CASE b # a
    <3>1. fams2[b] = fams[b]
      BY <2>2, <1>5
    <3>2. Apart(fams[b], s) \/ Apart(s, fams[b])
      BY <2>2, <1>2 DEF Distinct, AdapterSet
    <3>3. QED
      BY <3>1, <3>2, <1>4, <1>6, <1>11 DEF Apart
  <2>3. QED
    BY <2>1, <2>2
<1>12. \A b \in AdapterSet : Apart(bal2, fams2[b])
  <2>1. \A b \in AdapterSet : Apart(bal, fams2[b])
    BY <1>1 DEF Distinct
  <2>2. QED
    BY <2>1, <1>8, <1>11 DEF Apart
<1>13. QED
  BY <1>1, <1>10, <1>12 DEF Distinct

\* A turn is possible: every source is in the context and in its list as a whole.
InTurn(bal, fams) ==
    /\ bal \in Seq(AnyItem) /\ ListsFit(fams) /\ Distinct(bal, fams)
    /\ \A a \in AdapterSet : Whole(bal, fams[a], a)

\* The best item of a source joins the context; it leaves the list of its source.
Took(bal, fams, a, bal2) == bal2 = Append(bal, Head(fams[a]))
Left(fams, a, fams2) == fams2 = [fams EXCEPT ![a] = Tail(fams[a])]

LEMMA TookOne ==
  ASSUME ContextTypes, NEW bal, NEW fams, InTurn(bal, fams), NEW a \in AdapterSet, fams[a] # <<>>,
         NEW fams2, Left(fams, a, fams2), NEW bal2, Took(bal, fams, a, bal2)
  PROVE  /\ InTurn(bal2, fams2) /\ Len(bal2) = Len(bal) + 1
         /\ Chosen(bal2, a) = Chosen(bal, a) + 1
         /\ \A b \in AdapterSet \ {a} : Chosen(bal2, b) = Chosen(bal, b)
         /\ fams2[a] = Tail(fams[a]) /\ \A b \in AdapterSet \ {a} : fams2[b] = fams[b]
<1>0. bal2 = Append(bal, Head(fams[a])) /\ fams2 = [fams EXCEPT ![a] = Tail(fams[a])]
  BY DEF Took, Left
<1>1. bal \in Seq(AnyItem) /\ ListsFit(fams) /\ Distinct(bal, fams)
  BY DEF InTurn
<1>2. ListsFit(fams2) /\ Distinct(bal2, fams2)
  BY <1>0, <1>1, TailFits, TakenApart
<1>3. PICK s \in Seq(PlainItems(a)) : s = fams[a] /\ s # <<>>
  BY <1>1 DEF ListsFit
<1>4. PICK x \in PlainItems(a), t \in Seq(PlainItems(a)) :
        /\ x = Head(s) /\ t = Tail(s) /\ Len(t) = Len(s) - 1 /\ Len(s) \in Nat \ {0}
        /\ Range(s) = Range(t) \cup {x}
  <2>1. /\ Head(s) \in PlainItems(a) /\ Tail(s) \in Seq(PlainItems(a))
        /\ Len(Tail(s)) = Len(s) - 1 /\ Len(s) \in Nat \ {0} /\ Range(s) = Range(Tail(s)) \cup {Head(s)}
    BY <1>3, HeadAndTail
  <2>2. QED
    BY <2>1, Zenon
<1>5. fams2[a] = t /\ \A b \in AdapterSet \ {a} : fams2[b] = fams[b]
  BY <1>0, <1>1, <1>3, <1>4 DEF ListsFit
<1>6. bal2 = Append(bal, x) /\ x \in AnyItem
  BY <1>0, <1>3, <1>4, ItemShape
<1>7. bal2 \in Seq(AnyItem) /\ Len(bal2) = Len(bal) + 1
  BY <1>1, <1>6
<1>8. Range(bal2) = Range(bal) \cup {x}
  BY <1>1, <1>6, RangeOfAppend
<1>9. /\ Chosen(bal2, a) = Chosen(bal, a) + 1 /\ Chosen(bal, a) \in Nat
      /\ \A b \in AdapterSet \ {a} : Chosen(bal2, b) = Chosen(bal, b)
  BY <1>1, <1>6, ChosenNext
<1>10. ASSUME NEW b \in AdapterSet PROVE Whole(bal2, fams2[b], b)
  <2>1. Whole(bal, fams[b], b)
    BY DEF InTurn
  <2>2. CASE b = a
    <3>1. Chosen(bal2, b) + Len(t) = coverage[b].admitted
      <4>1. Chosen(bal, a) + Len(s) = coverage[a].admitted
        BY <2>1, <2>2, <1>3 DEF Whole
      <4>2. PICK c \in Nat, l \in Nat \ {0} : c = Chosen(bal, a) /\ l = Len(s)
        BY <1>4, <1>9
      <4>3. (c + 1) + (l - 1) = c + l
        OBVIOUS
      <4>4. Chosen(bal2, b) = c + 1 /\ Len(t) = l - 1
        BY <4>2, <2>2, <1>4, <1>9
      <4>5. QED
        BY <4>1, <4>2, <4>3, <4>4, <2>2
    <3>2. Range(bal2) \cup Range(t) = Range(bal) \cup Range(s)
      BY <1>4, <1>8
    <3>3. QED
      BY <2>1, <2>2, <3>1, <3>2, <1>3, <1>5 DEF Whole
  <2>3. CASE b # a
    <3>1. Range(bal) \subseteq Range(bal2) /\ fams2[b] = fams[b] /\ Chosen(bal2, b) = Chosen(bal, b)
      BY <2>3, <1>5, <1>8, <1>9
    <3>2. Claimed(b) => Range(Answer(b).evidence) \subseteq Range(bal2) \cup Range(fams2[b])
      BY <2>1, <3>1 DEF Whole
    <3>3. QED
      BY <2>1, <3>1, <3>2 DEF Whole
  <2>4. QED
    BY <2>2, <2>3
<1>11. QED
  BY <1>2, <1>3, <1>4, <1>5, <1>7, <1>9, <1>10 DEF InTurn

\* The context is full: the best item of a source is lost.
LEMMA LostOne ==
  ASSUME ContextTypes, NEW bal, NEW fams, InTurn(bal, fams), NEW a \in AdapterSet, fams[a] # <<>>,
         Len(bal) = TotalLimit, NEW fams2, Left(fams, a, fams2)
  PROVE  /\ ListsFit(fams2) /\ Distinct(bal, fams2)
         /\ \A b \in AdapterSet : Whole(bal, fams2[b], b) \/ CutShort(bal, fams2[b], b)
<1>0. fams2 = [fams EXCEPT ![a] = Tail(fams[a])]
  BY DEF Left
<1>1. bal \in Seq(AnyItem) /\ ListsFit(fams) /\ Distinct(bal, fams)
  BY DEF InTurn
<1>2. ListsFit(fams2) /\ Distinct(bal, fams2)
  BY <1>0, <1>1, TailFits, DroppedApart
<1>3. PICK s \in Seq(PlainItems(a)) : s = fams[a] /\ s # <<>>
  BY <1>1 DEF ListsFit
<1>4. PICK x \in PlainItems(a), t \in Seq(PlainItems(a)) :
        x = Head(s) /\ t = Tail(s) /\ Len(t) = Len(s) - 1 /\ Len(s) \in Nat \ {0}
  BY <1>3, HeadAndTail
<1>5. fams2[a] = t /\ \A b \in AdapterSet \ {a} : fams2[b] = fams[b]
  BY <1>0, <1>1, <1>3, <1>4 DEF ListsFit
<1>6. Chosen(bal, a) \in Nat
  BY <1>1, <1>4, ChosenNext
<1>7. CutShort(bal, t, a)
  <2>1. Chosen(bal, a) + Len(s) = coverage[a].admitted
    BY <1>3 DEF Whole, InTurn
  <2>2. PICK c \in Nat, l \in Nat \ {0} : c = Chosen(bal, a) /\ l = Len(s)
    BY <1>4, <1>6
  <2>3. c + (l - 1) < c + l
    OBVIOUS
  <2>4. QED
    BY <2>1, <2>2, <2>3, <1>4 DEF CutShort
<1>8. QED
  BY <1>2, <1>5, <1>7 DEF InTurn

\* What a turn leaves.
LEMMA Joined ==
  ASSUME NEW S, NEW b \in Seq(S), NEW h \in S, NEW g \in S
  PROVE  /\ SubSeq(b \o (<<h>> \o <<>>), 1, Len(b) + 1) = Append(b, h)
         /\ SubSeq(b \o (<<>> \o <<h>>), 1, Len(b) + 1) = Append(b, h)
         /\ SubSeq(b \o (<<h>> \o <<g>>), 1, Len(b) + 1) = Append(b, h)
         /\ SubSeq(b \o (<<h>> \o <<g>>), 1, Len(b) + 2) = Append(Append(b, h), g)
<1>1. PICK n \in Nat : n = Len(b) /\ DOMAIN b = 1 .. n
  OBVIOUS
<1>2. PICK one \in Seq(S) : one = Append(b, h)
  <2>1. Append(b, h) \in Seq(S)
    OBVIOUS
  <2>2. QED
    BY <2>1, Zenon
<1>3. Len(one) = n + 1 /\ one[n + 1] = h /\ \A k \in 1 .. n : one[k] = b[k]
  BY <1>1, <1>2
<1>4. PICK two \in Seq(S) : two = Append(one, g)
  <2>1. Append(one, g) \in Seq(S)
    OBVIOUS
  <2>2. QED
    BY <2>1, Zenon
<1>5. Len(two) = n + 2 /\ two[n + 2] = g /\ two[n + 1] = h /\ \A k \in 1 .. n : two[k] = b[k]
  BY <1>3, <1>4
<1>6. <<h>> \o <<>> = <<h>> /\ <<>> \o <<h>> = <<h>>
  BY ConcatEmptySeq
<1>7. PICK p \in Seq(S), q \in Seq(S) : p = b \o <<h>> /\ q = b \o (<<h>> \o <<g>>)
  <2>1. b \o <<h>> \in Seq(S) /\ b \o (<<h>> \o <<g>>) \in Seq(S)
    OBVIOUS
  <2>2. QED
    BY <2>1, Zenon
<1>8. /\ Len(p) = n + 1 /\ p[n + 1] = h /\ \A k \in 1 .. n : p[k] = b[k]
      /\ Len(q) = n + 2 /\ q[n + 1] = h /\ q[n + 2] = g /\ \A k \in 1 .. n : q[k] = b[k]
  BY <1>1, <1>7
<1>9. SubSeq(p, 1, n + 1) = one
  BY <1>3, <1>8
<1>10. SubSeq(q, 1, n + 1) = one
  BY <1>3, <1>8
<1>11. SubSeq(q, 1, n + 2) = two
  <2>1. \A k \in 1 .. n + 2 : k \in 1 .. n \/ k = n + 1 \/ k = n + 2
    OBVIOUS
  <2>2. \A k \in 1 .. n + 2 : q[k] = two[k]
    BY <2>1, <1>5, <1>8
  <2>3. q = two
    BY <2>2, <1>5, <1>8
  <2>4. SubSeq(two, 1, Len(two)) = two
    OBVIOUS
  <2>5. QED
    BY <2>3, <2>4, <1>5
<1>12. QED
  BY <1>1, <1>2, <1>4, <1>6, <1>7, <1>9, <1>10, <1>11

\* What one round does to the context and the lists.
Moved(bal, fams) ==
    /\ bal \in Seq(AnyItem) /\ Len(bal) <= TotalLimit /\ ListsFit(fams) /\ Distinct(bal, fams)
    /\ \A a \in AdapterSet : Whole(bal, fams[a], a) \/ CutShort(bal, fams[a], a)
    /\ \A a \in AdapterSet :
        /\ Chosen(bal, a) = Chosen(balanced, a) \/ Chosen(bal, a) = Chosen(balanced, a) + 1
        /\ families[a] = <<>> => fams[a] = <<>> /\ Chosen(bal, a) = Chosen(balanced, a)
        /\ Len(bal) < TotalLimit /\ families[a] # <<>> => Chosen(bal, a) = Chosen(balanced, a) + 1

LEMMA OneMoves ==
  ASSUME ContextTypes, InTurn(balanced, families), Len(balanced) < TotalLimit, TotalLimit \in Nat,
         NEW a \in AdapterSet, families[a] # <<>>, \A b \in AdapterSet \ {a} : families[b] = <<>>,
         NEW bal, Took(balanced, families, a, bal), NEW fams, Left(families, a, fams)
  PROVE  Moved(bal, fams)
<1>1. /\ InTurn(bal, fams) /\ Len(bal) = Len(balanced) + 1
      /\ Chosen(bal, a) = Chosen(balanced, a) + 1
      /\ \A b \in AdapterSet \ {a} : Chosen(bal, b) = Chosen(balanced, b)
      /\ \A b \in AdapterSet \ {a} : fams[b] = families[b]
  BY TookOne
<1>2. Len(bal) <= TotalLimit
  <2>1. Len(balanced) \in Nat
    BY DEF ContextTypes
  <2>2. QED
    BY <1>1, <2>1
<1>3. QED
  BY <1>1, <1>2 DEF Moved, InTurn

LEMMA BothMove ==
  ASSUME ContextTypes, InTurn(balanced, families), Len(balanced) + 1 < TotalLimit, TotalLimit \in Nat,
         families["calendar"] # <<>>, families["mail"] # <<>>,
         NEW bal, bal = Append(Append(balanced, Head(families["calendar"])), Head(families["mail"])),
         NEW fams, fams = [a \in AdapterSet |-> Tail(families[a])]
  PROVE  Moved(bal, fams)
<1>1. PICK one, left : Took(balanced, families, "calendar", one) /\ Left(families, "calendar", left)
  BY DEF Took, Left
<1>2. "calendar" \in AdapterSet /\ "mail" \in AdapterSet \ {"calendar"} /\ "calendar" \in AdapterSet \ {"mail"}
  BY DEF AdapterSet
<1>3. /\ InTurn(one, left) /\ Len(one) = Len(balanced) + 1
      /\ Chosen(one, "calendar") = Chosen(balanced, "calendar") + 1
      /\ Chosen(one, "mail") = Chosen(balanced, "mail")
      /\ left["mail"] = families["mail"] /\ left["calendar"] = Tail(families["calendar"])
  BY <1>1, <1>2, TookOne
<1>4. Took(one, left, "mail", bal) /\ left["mail"] # <<>>
  BY <1>1, <1>3 DEF Took
<1>5. Left(left, "mail", fams)
  <2>1. left = [a \in AdapterSet |-> left[a]]
    BY <1>1 DEF ContextTypes, Left
  <2>2. QED
    BY <2>1, <1>3 DEF AdapterSet, Left
<1>6. /\ InTurn(bal, fams) /\ Len(bal) = Len(one) + 1
      /\ Chosen(bal, "mail") = Chosen(one, "mail") + 1 /\ Chosen(bal, "calendar") = Chosen(one, "calendar")
  BY <1>2, <1>3, <1>4, <1>5, TookOne
<1>7. Len(bal) <= TotalLimit
  <2>1. Len(balanced) \in Nat
    BY DEF ContextTypes
  <2>2. QED
    BY <1>3, <1>6, <2>1
<1>8. \A a \in AdapterSet : Chosen(bal, a) = Chosen(balanced, a) + 1 /\ families[a] # <<>>
  BY <1>3, <1>6 DEF AdapterSet
<1>9. QED
  BY <1>6, <1>7, <1>8 DEF Moved, InTurn

LEMMA MailLosesOne ==
  ASSUME ContextTypes, InTurn(balanced, families), Len(balanced) + 1 = TotalLimit, TotalLimit \in Nat,
         families["calendar"] # <<>>, families["mail"] # <<>>,
         NEW bal, bal = Append(balanced, Head(families["calendar"])),
         NEW fams, fams = [a \in AdapterSet |-> Tail(families[a])]
  PROVE  Moved(bal, fams)
<1>1. PICK left : Left(families, "calendar", left) /\ Took(balanced, families, "calendar", bal)
  BY DEF Left, Took
<1>2. "calendar" \in AdapterSet /\ "mail" \in AdapterSet \ {"calendar"}
  BY DEF AdapterSet
<1>3. /\ InTurn(bal, left) /\ Len(bal) = TotalLimit
      /\ Chosen(bal, "calendar") = Chosen(balanced, "calendar") + 1
      /\ Chosen(bal, "mail") = Chosen(balanced, "mail")
      /\ left["mail"] = families["mail"] /\ left["calendar"] = Tail(families["calendar"])
  BY <1>1, <1>2, TookOne
<1>4. Left(left, "mail", fams) /\ left["mail"] # <<>>
  <2>1. left = [a \in AdapterSet |-> left[a]]
    BY <1>1 DEF ContextTypes, Left
  <2>2. QED
    BY <2>1, <1>3 DEF AdapterSet, Left
<1>5. /\ ListsFit(fams) /\ Distinct(bal, fams)
      /\ \A b \in AdapterSet : Whole(bal, fams[b], b) \/ CutShort(bal, fams[b], b)
  BY <1>2, <1>3, <1>4, LostOne
<1>6. bal \in Seq(AnyItem)
  BY <1>3 DEF InTurn
<1>7. \A a \in AdapterSet : /\ families[a] # <<>>
                            /\ Chosen(bal, a) = Chosen(balanced, a) \/ Chosen(bal, a) = Chosen(balanced, a) + 1
  BY <1>3 DEF AdapterSet
<1>8. QED
  BY <1>3, <1>5, <1>6, <1>7 DEF Moved

LEMMA RoundMoves == ASSUME ContextInv, TakeTurns PROVE Moved(balanced', families') /\ InTurn(balanced, families)
<1>1. /\ ContextTypes /\ Balancing /\ Len(balanced) < TotalLimit /\ TotalLimit \in Nat /\ TotalLimit > 0
      /\ Len(balanced) \in Nat
  BY ContextAssumption DEF ContextInv, TakeTurns, ContextTypes
<1>2. InTurn(balanced, families)
  <2>1. \A a \in AdapterSet : Whole(balanced, families[a], a)
    BY <1>1 DEF Balancing, CutShort
  <2>2. QED
    BY <2>1, <1>1 DEF InTurn, Balancing, ListsFit, ContextTypes
<1> DEFINE Best(a) == IF families[a] = <<>> THEN <<>> ELSE <<Head(families[a])>>
           Rest(a) == IF families[a] = <<>> THEN <<>> ELSE Tail(families[a])
           heads == Best("calendar") \o Best("mail")
<1>3. /\ heads # <<>> /\ families' = [a \in AdapterSet |-> Rest(a)]
      /\ balanced' = SubSeq(balanced \o heads, 1, Lower(TotalLimit, Len(balanced) + Len(heads)))
  <2>1. Adapters[1] = "calendar" /\ Adapters[2] = "mail"
    BY DEF Adapters
  <2>2. QED
    BY <2>1, Zenon DEF TakeTurns
<1>4. "calendar" \in AdapterSet /\ "mail" \in AdapterSet
  BY DEF AdapterSet
<1>5. balanced \in Seq(AnyItem) /\ families = [a \in AdapterSet |-> families[a]]
  BY <1>1 DEF ContextTypes
<1>6. ASSUME NEW a \in AdapterSet, families[a] # <<>> PROVE Head(families[a]) \in AnyItem
  <2>1. families[a] \in Seq(PlainItems(a))
    BY <1>1 DEF ContextTypes
  <2>2. Head(families[a]) \in PlainItems(a)
    BY <1>6, <2>1, HeadAndTail
  <2>3. QED
    BY <2>2, ItemShape
<1>7. CASE families["calendar"] # <<>> /\ families["mail"] # <<>>
  <2>1. PICK h \in AnyItem, g \in AnyItem : h = Head(families["calendar"]) /\ g = Head(families["mail"])
    BY <1>4, <1>6, <1>7
  <2>2. heads = <<h>> \o <<g>>
    BY <1>7, <2>1
  <2>3. Len(heads) = 2
    BY <2>2
  <2>4. families' = [a \in AdapterSet |-> Tail(families[a])]
    BY <1>3, <1>7 DEF AdapterSet
  <2>5. CASE Len(balanced) + 1 < TotalLimit
    <3>1. Lower(TotalLimit, Len(balanced) + Len(heads)) = Len(balanced) + 2
      BY <1>1, <2>3, <2>5 DEF Lower
    <3>2. balanced' = SubSeq(balanced \o (<<h>> \o <<g>>), 1, Len(balanced) + 2)
      BY <1>3, <2>2, <3>1
    <3>3. balanced' = Append(Append(balanced, h), g)
      BY <1>5, <3>2, Joined
    <3>4. QED
      BY <1>1, <1>2, <1>7, <2>1, <2>4, <2>5, <3>3, BothMove
  <2>6. CASE Len(balanced) + 1 = TotalLimit
    <3>1. Lower(TotalLimit, Len(balanced) + Len(heads)) = Len(balanced) + 1
      BY <1>1, <2>3, <2>6 DEF Lower
    <3>2. balanced' = SubSeq(balanced \o (<<h>> \o <<g>>), 1, Len(balanced) + 1)
      BY <1>3, <2>2, <3>1
    <3>3. balanced' = Append(balanced, h)
      BY <1>5, <3>2, Joined
    <3>4. QED
      BY <1>1, <1>2, <1>7, <2>1, <2>4, <2>6, <3>3, MailLosesOne
  <2>7. QED
    BY <1>1, <2>5, <2>6
<1>8. CASE families["calendar"] # <<>> /\ families["mail"] = <<>>
  <2>1. PICK h \in AnyItem : h = Head(families["calendar"])
    BY <1>4, <1>6, <1>8
  <2>2. heads = <<h>> \o <<>>
    BY <1>8, <2>1
  <2>3. Len(heads) = 1
    BY <2>2
  <2>4. Left(families, "calendar", families')
    BY <1>3, <1>5, <1>8 DEF AdapterSet, Left
  <2>5. Lower(TotalLimit, Len(balanced) + Len(heads)) = Len(balanced) + 1
    BY <1>1, <2>3 DEF Lower
  <2>6. balanced' = SubSeq(balanced \o (<<h>> \o <<>>), 1, Len(balanced) + 1)
    BY <1>3, <2>2, <2>5
  <2>7. Took(balanced, families, "calendar", balanced')
    BY <1>5, <2>1, <2>6, Joined DEF Took
  <2>8. \A b \in AdapterSet \ {"calendar"} : families[b] = <<>>
    BY <1>8 DEF AdapterSet
  <2>9. QED
    BY <1>1, <1>2, <1>4, <1>8, <2>1, <2>4, <2>7, <2>8, OneMoves
<1>9. CASE families["calendar"] = <<>> /\ families["mail"] # <<>>
  <2>1. PICK h \in AnyItem : h = Head(families["mail"])
    BY <1>4, <1>6, <1>9
  <2>2. heads = <<>> \o <<h>>
    BY <1>9, <2>1
  <2>3. Len(heads) = 1
    BY <2>2
  <2>4. Left(families, "mail", families')
    BY <1>3, <1>5, <1>9 DEF AdapterSet, Left
  <2>5. Lower(TotalLimit, Len(balanced) + Len(heads)) = Len(balanced) + 1
    BY <1>1, <2>3 DEF Lower
  <2>6. balanced' = SubSeq(balanced \o (<<>> \o <<h>>), 1, Len(balanced) + 1)
    BY <1>3, <2>2, <2>5
  <2>7. Took(balanced, families, "mail", balanced')
    BY <1>5, <2>1, <2>6, Joined DEF Took
  <2>8. \A b \in AdapterSet \ {"mail"} : families[b] = <<>>
    BY <1>9 DEF AdapterSet
  <2>9. QED
    BY <1>1, <1>2, <1>4, <1>9, <2>1, <2>4, <2>7, <2>8, OneMoves
<1>10. CASE families["calendar"] = <<>> /\ families["mail"] = <<>>
  <2>1. heads = <<>>
    BY <1>10
  <2>2. QED
    BY <1>3, <2>1
<1>11. QED
  BY <1>2, <1>7, <1>8, <1>9, <1>10

LEMMA TurnsStep == ASSUME ContextInv, TakeTurns PROVE ContextInv'
<1>1. /\ ContextTypes /\ Balancing /\ Projecting /\ stage = "balance" /\ Len(balanced) < TotalLimit
      /\ UNCHANGED <<stage, supplied, coverage, disclosure>>
  BY DEF ContextInv, TakeTurns
<1>2. Moved(balanced', families') /\ InTurn(balanced, families)
  BY RoundMoves
<1>3. ContextTypes'
  BY <1>1, <1>2 DEF Moved, ListsFit, ContextTypes
<1>4. ASSUME NEW a \in AdapterSet PROVE Chosen(balanced, a) \in Nat
  <2>1. \E x : x \in PlainItems(a)
    BY DEF PlainItems
  <2>2. QED
    BY <1>1, <2>1, ChosenNext DEF ContextTypes
<1>5. ASSUME NEW a \in AdapterSet, NEW b \in AdapterSet, families[a] # <<>>
      PROVE  /\ Chosen(balanced', b) <= Chosen(balanced', a) + 1
             /\ Len(balanced') < TotalLimit => Chosen(balanced', b) <= Chosen(balanced', a)
  <2>1. PICK c \in Nat, d \in Nat : c = Chosen(balanced, a) /\ d = Chosen(balanced, b)
    BY <1>4
  <2>2. d <= c
    BY <1>1, <1>5, <2>1 DEF Balancing
  <2>3. PICK c2, d2 : c2 = Chosen(balanced', a) /\ d2 = Chosen(balanced', b)
    OBVIOUS
  <2>4. /\ c2 = c \/ c2 = c + 1
        /\ d2 = d \/ d2 = d + 1
        /\ Len(balanced') < TotalLimit => c2 = c + 1
    BY <1>2, <1>5, <2>1, <2>3 DEF Moved
  <2>5. d2 <= c2 + 1 /\ (c2 = c + 1 => d2 <= c2)
    BY <2>2, <2>4
  <2>6. QED
    BY <2>3, <2>4, <2>5
<1>6. ASSUME NEW a \in AdapterSet, NEW b \in AdapterSet, Len(balanced') < TotalLimit, families'[a] # <<>>
      PROVE  Chosen(balanced', b) <= Chosen(balanced', a)
  <2>1. families[a] # <<>>
    BY <1>2, <1>6 DEF Moved
  <2>2. QED
    BY <1>5, <1>6, <2>1
<1>7. ASSUME NEW a \in AdapterSet, NEW b \in AdapterSet, Chosen(balanced', a) < coverage[a].admitted
      PROVE  Chosen(balanced', b) <= Chosen(balanced', a) + 1
  <2>1. CASE families[a] # <<>>
    BY <1>5, <2>1
  <2>2. CASE families[a] = <<>>
    <3>1. Chosen(balanced, a) + Len(families[a]) = coverage[a].admitted
      BY <1>2 DEF InTurn, Whole
    <3>2. Len(families[a]) = 0 /\ Chosen(balanced', a) = Chosen(balanced, a)
      BY <1>2, <2>2 DEF Moved
    <3>3. PICK c \in Nat : c = Chosen(balanced, a)
      BY <1>4
    <3>4. QED
      BY <1>7, <3>1, <3>2, <3>3
  <2>3. QED
    BY <2>1, <2>2
<1>8. Balancing'
  <2>1. \A a : Chosen(balanced, a)' = Chosen(balanced', a)
    BY DEF Chosen
  <2>2. ASSUME NEW a \in AdapterSet PROVE (Whole(balanced, families[a], a) \/ CutShort(balanced, families[a], a))'
    <3>1. Whole(balanced', families'[a], a) \/ CutShort(balanced', families'[a], a)
      BY <1>2 DEF Moved
    <3>2. QED
      BY <1>1, <2>1, <3>1 DEF Whole, CutShort, Claimed, Answer, Turn, Chosen
  <2>3. Distinct(balanced, families)'
    <3>1. Distinct(balanced', families')
      BY <1>2 DEF Moved
    <3>2. QED
      BY <3>1 DEF Distinct, OneEach, Apart
  <2>4. \A a, b \in AdapterSet :
           Chosen(balanced, a)' < coverage'[a].admitted => Chosen(balanced, b)' <= Chosen(balanced, a)' + 1
    BY <1>1, <1>7, <2>1
  <2>5. Len(balanced') < TotalLimit =>
           \A a, b \in AdapterSet : families'[a] # <<>> => Chosen(balanced, b)' <= Chosen(balanced, a)'
    BY <1>6, <2>1
  <2>6. QED
    BY <1>1, <2>2, <2>3, <2>4, <2>5 DEF Balancing
<1>9. Projecting'
  <2>1. disclosure = NoDisclosure /\ disclosure.projected = <<>>
    BY <1>1, NothingDisclosed DEF Projecting, NoDisclosure
  <2>2. Len(balanced') \in Nat
    BY <1>3 DEF ContextTypes
  <2>3. QED
    BY <1>1, <2>1, <2>2 DEF Projecting
<1>10. QED
  BY <1>1, <1>3, <1>8, <1>9 DEF ContextInv, ContextAccountable

\* assemble: the final pass over the rows.
Counts(row, n, next) ==
    LET why == row.reasons \cup (IF n < row.admitted THEN {"context_limit_reached"} ELSE {})
    IN next = [row EXCEPT !.selected = n, !.reasons = why,
                          !.status = IF why # {} /\ @ # "unavailable" THEN "partial" ELSE @]

LEMMA CountedRow ==
  ASSUME NEW row \in CoverageRow, NEW n \in Nat, NEW next, Counts(row, n, next)
  PROVE  /\ next \in CoverageRow /\ next.selected = n /\ next.admitted = row.admitted
         /\ next.returned = row.returned
         /\ next.status \in {"retrieved", "empty"} => next.status = row.status /\ ~(n < row.admitted)
<1>1. PICK why \in SUBSET (Oddities \cup {"unusable", "connector_failure", "source_truncated",
                                      "source_records_filtered", "source_limit_reached",
                                      "conflicting_evidence_id", "context_limit_reached"}) :
        why = row.reasons \cup (IF n < row.admitted THEN {"context_limit_reached"} ELSE {})
  BY DEF CoverageRow
<1>2. n < row.admitted => why # {}
  BY <1>1
<1>3. PICK status \in {"none", "unavailable", "retrieved", "empty", "partial"} :
        status = IF why # {} /\ row.status # "unavailable" THEN "partial" ELSE row.status
  BY DEF CoverageRow
<1>4. next = [row EXCEPT !.selected = n, !.reasons = why, !.status = status]
  BY <1>1, <1>3 DEF Counts
<1>5. /\ next \in CoverageRow /\ next.selected = n /\ next.admitted = row.admitted
      /\ next.returned = row.returned /\ next.status = status
  BY <1>4 DEF CoverageRow
<1>6. QED
  BY <1>2, <1>3, <1>5

LEMMA CountedStep == ASSUME ContextInv, CountSelected PROVE ContextInv'
<1>1. /\ ContextTypes /\ Balancing /\ Projecting /\ stage = "balance" /\ stage' = "assembled"
      /\ UNCHANGED <<supplied, families, balanced, disclosure>>
      /\ Len(balanced) = TotalLimit \/ \A a \in AdapterSet : families[a] = <<>>
  BY DEF ContextInv, CountSelected
<1>2. ASSUME NEW a \in AdapterSet PROVE Chosen(balanced, a) \in Nat
  <2>1. \E x : x \in PlainItems(a)
    BY DEF PlainItems
  <2>2. QED
    BY <1>1, <2>1, ChosenNext DEF ContextTypes
<1>3. ASSUME NEW a \in AdapterSet PROVE Counts(coverage[a], Chosen(balanced, a), coverage'[a])
  <2>1. SelectedOf(a) = Chosen(balanced, a)
    BY DEF SelectedOf, Chosen
  <2>2. coverage'[a] =
           [coverage[a] EXCEPT !.selected = SelectedOf(a),
              !.reasons = coverage[a].reasons
                  \cup (IF SelectedOf(a) < coverage[a].admitted THEN {"context_limit_reached"} ELSE {}),
              !.status = IF coverage[a].reasons
                  \cup (IF SelectedOf(a) < coverage[a].admitted THEN {"context_limit_reached"} ELSE {}) # {}
                     /\ @ # "unavailable" THEN "partial" ELSE @]
    BY Zenon DEF CountSelected
  <2>3. QED
    BY <2>1, <2>2, Zenon DEF Counts
<1>4. ASSUME NEW a \in AdapterSet
      PROVE  /\ Chosen(balanced, a) <= coverage[a].admitted
             /\ Whole(balanced, families[a], a) \/ CutShort(balanced, families[a], a)
  <2>1. Whole(balanced, families[a], a) \/ CutShort(balanced, families[a], a)
    BY <1>1 DEF Balancing
  <2>2. PICK c \in Nat, l \in Nat, m \in Nat :
           c = Chosen(balanced, a) /\ l = Len(families[a]) /\ m = coverage[a].admitted
    BY <1>1, <1>2 DEF ContextTypes, CoverageRow
  <2>3. c + l = m \/ c + l < m
    BY <2>1, <2>2 DEF Whole, CutShort
  <2>4. c <= m
    BY <2>3
  <2>5. QED
    BY <2>1, <2>2, <2>4
<1>5. ASSUME NEW a \in AdapterSet
      PROVE  /\ coverage'[a] \in CoverageRow /\ coverage'[a].selected = Chosen(balanced, a)
             /\ coverage'[a].admitted = coverage[a].admitted /\ coverage'[a].returned = coverage[a].returned
             /\ coverage'[a].status \in {"retrieved", "empty"} =>
                   coverage'[a].status = coverage[a].status /\ ~(Chosen(balanced, a) < coverage[a].admitted)
  <2>1. PICK row \in CoverageRow, n \in Nat : row = coverage[a] /\ n = Chosen(balanced, a)
    BY <1>1, <1>2 DEF ContextTypes
  <2>2. Counts(row, n, coverage'[a])
    BY <2>1, <1>3
  <2>3. QED
    BY <2>1, <2>2, CountedRow
<1>6. ContextTypes'
  <2>1. coverage' \in [AdapterSet -> CoverageRow]
    <3>1. coverage' = [a \in AdapterSet |-> coverage'[a]]
      BY DEF CountSelected
    <3>2. QED
      BY <3>1, <1>5
  <2>2. QED
    BY <1>1, <1>4, <1>5, <2>1 DEF ContextTypes, Stages
<1>7. ASSUME NEW a \in AdapterSet, coverage'[a].status \in {"retrieved", "empty"}
      PROVE  Range(Answer(a).evidence) \subseteq Range(balanced)
  <2>1. Claimed(a) /\ ~(Chosen(balanced, a) < coverage[a].admitted)
    BY <1>5, <1>7 DEF Claimed
  <2>2. PICK c \in Nat, l \in Nat, m \in Nat :
           c = Chosen(balanced, a) /\ l = Len(families[a]) /\ m = coverage[a].admitted
    BY <1>1, <1>2 DEF ContextTypes, CoverageRow
  <2>3. ~(c + l < m) /\ ~(c < m)
    BY <2>1, <2>2
  <2>4. Whole(balanced, families[a], a)
    BY <1>4, <2>2, <2>3 DEF CutShort
  <2>5. l = 0
    <3>1. c + l = m
      BY <2>2, <2>4 DEF Whole
    <3>2. QED
      BY <2>3, <3>1
  <2>6. families[a] = <<>>
    <3>1. families[a] \in Seq(AnyItem)
      BY <1>1 DEF ContextTypes
    <3>2. QED
      BY <2>2, <2>5, <3>1, EmptySeq
  <2>7. Range(families[a]) = {}
    BY <2>6 DEF Range
  <2>8. QED
    BY <2>1, <2>4, <2>7 DEF Whole
<1>8. ContextAccountable'
  <2>1. \A k, l \in DOMAIN balanced : balanced[k].id = balanced[l].id => k = l
    BY <1>1 DEF Balancing, Distinct, OneEach
  <2>2. ASSUME NEW n \in DOMAIN Adapters
        PROVE  /\ coverage'[Adapters[n]].status \in {"retrieved", "empty"} =>
                    Range(supplied[n].evidence) \subseteq Range(balanced)
               /\ coverage'[Adapters[n]].selected < coverage'[Adapters[n]].admitted =>
                    \A b \in AdapterSet :
                       coverage'[b].selected <= coverage'[Adapters[n]].selected + 1
    <3>1. PICK a \in AdapterSet : a = Adapters[n] /\ Turn(a) = n
      BY DEF Adapters, AdapterSet, Turn
    <3>2. coverage'[a].status \in {"retrieved", "empty"} => Range(supplied[n].evidence) \subseteq Range(balanced)
      BY <1>7, <3>1 DEF Answer
    <3>3. coverage'[a].selected < coverage'[a].admitted =>
             \A b \in AdapterSet : coverage'[b].selected <= coverage'[a].selected + 1
      BY <1>1, <1>5 DEF Balancing
    <3>4. QED
      BY <3>1, <3>2, <3>3
  <2>3. QED
    BY <1>1, <2>1, <2>2 DEF ContextAccountable
<1>9. Projecting'
  <2>1. disclosure = NoDisclosure /\ disclosure.projected = <<>>
    BY <1>1, NothingDisclosed DEF Projecting, NoDisclosure
  <2>2. QED
    BY <1>1, <2>1 DEF Projecting
<1>10. QED
  BY <1>1, <1>6, <1>8, <1>9 DEF ContextInv

\* The assembly starts with nothing asked and nothing disclosed.
LEMMA ContextInitInv == ASSUME ContextInit PROVE ContextInv
<1>1. /\ stage = "retrieve" /\ supplied = <<>> /\ balanced = <<>> /\ disclosure = NoDisclosure
      /\ families = [a \in AdapterSet |-> <<>>] /\ coverage = [a \in AdapterSet |-> NoCoverage]
  BY DEF ContextInit
<1>2. TotalLimit \in Nat
  BY ContextAssumption
<1>3. NoCoverage \in CoverageRow /\ NoCoverage.selected = 0 /\ NoCoverage.admitted = 0 /\ NoCoverage.returned = 0
  <2>1. PICK empty \in SUBSET (Oddities \cup {"unusable", "connector_failure", "source_truncated",
                                      "source_records_filtered", "source_limit_reached",
                                      "conflicting_evidence_id", "context_limit_reached"}) : empty = {}
    OBVIOUS
  <2>2. NoCoverage = [status |-> "none", returned |-> 0, admitted |-> 0, selected |-> 0, reasons |-> empty]
    BY <2>1 DEF NoCoverage
  <2>3. QED
    BY <2>2 DEF CoverageRow
<1>4. ContextTypes
  <2>1. \A S : <<>> \in Seq(S)
    OBVIOUS
  <2>2. supplied \in Seq(AnyOutcome) /\ Len(supplied) = 0 /\ balanced \in Seq(AnyItem) /\ Len(balanced) = 0
    BY <1>1, <2>1
  <2>3. \A a \in AdapterSet : families[a] = <<>> /\ coverage[a] = NoCoverage
    BY <1>1
  <2>4. families \in [AdapterSet -> Seq(AnyItem)] /\ coverage \in [AdapterSet -> CoverageRow]
    BY <1>1, <1>3, <2>1
  <2>5. \A a \in AdapterSet : /\ families[a] \in Seq(PlainItems(a))
                              /\ coverage[a].selected <= coverage[a].admitted
                              /\ coverage[a].admitted <= coverage[a].returned
    <3>1. \A a \in AdapterSet : families[a] \in Seq(PlainItems(a))
      BY <2>1, <2>3, Zenon
    <3>2. QED
      BY <1>3, <2>3, <3>1
  <2>6. QED
    BY <1>1, <1>2, <2>2, <2>4, <2>5, NothingDisclosed DEF ContextTypes, Stages
<1>5. Retrieving
  <2>1. ASSUME NEW a \in AdapterSet
        PROVE  /\ OneEach(families[a]) /\ Len(families[a]) = coverage[a].admitted
               /\ coverage[a].selected = 0 /\ Turn(a) \notin DOMAIN supplied
    BY <1>1, <1>3 DEF OneEach
  <2>2. QED
    BY <1>1, <2>1 DEF Retrieving
<1>6. Projecting
  <2>1. disclosure.projected = <<>>
    BY <1>1, NothingDisclosed DEF NoDisclosure
  <2>2. QED
    BY <1>1, <2>1 DEF Projecting
<1>7. QED
  BY <1>1, <1>4, <1>5, <1>6 DEF ContextInv, ContextAccountable

LEMMA ContextStep == ASSUME ContextInv, [ContextNext]_contextVars PROVE ContextInv'
<1>1. CASE \E a \in AdapterSet : \E outcome \in Outcomes(a) : Retrieve(outcome)
  BY <1>1, RetrievedStep
<1>2. CASE RejectCollisions
  BY <1>2, CollidedStep
<1>3. CASE TakeTurns
  BY <1>3, TurnsStep
<1>4. CASE CountSelected
  BY <1>4, CountedStep
<1>5. CASE \E policy \in Policies : Decide(policy)
  BY <1>5, DecidedStep
<1>6. CASE ProjectItem
  <2>1. disclosure.remaining - TitlePrefix <= 0 \/ ~(disclosure.remaining - TitlePrefix <= 0)
    OBVIOUS
  <2>2. QED
    BY <1>6, <2>1, CutOffStep, ProjectedStep
<1>7. CASE FinishProjection
  BY <1>7, FinishedStep
<1>8. CASE \E answer \in {"response", "fallback"} : Generate(answer)
  BY <1>8, GeneratedStep
<1>9. CASE UNCHANGED contextVars
  <2>1. UNCHANGED <<stage, supplied, families, balanced, coverage, disclosure>>
    BY <1>9 DEF contextVars
  <2>2. ContextTypes' /\ ContextAccountable'
    BY <2>1 DEF ContextInv, ContextTypes, ContextAccountable
  <2>3. Retrieving => Retrieving'
    BY <2>1 DEF Retrieving, OneEach, Turn, Claimed, Answer
  <2>4. Balancing => Balancing'
    <3>1. \A a : Chosen(balanced, a)' = Chosen(balanced, a)
      BY <2>1 DEF Chosen
    <3>2. ASSUME NEW a PROVE /\ Whole(balanced, families[a], a) => Whole(balanced, families[a], a)'
                             /\ CutShort(balanced, families[a], a) => CutShort(balanced, families[a], a)'
      BY <2>1, <3>1 DEF Whole, CutShort, Claimed, Answer, Turn
    <3>3. Distinct(balanced, families) => Distinct(balanced, families)'
      BY <2>1 DEF Distinct, OneEach, Apart
    <3>4. QED
      BY <2>1, <3>1, <3>2, <3>3 DEF Balancing
  <2>5. Projecting'
    BY <2>1 DEF ContextInv, Projecting, Permitted
  <2>6. QED
    BY <2>1, <2>2, <2>3, <2>4, <2>5 DEF ContextInv
<1>10. QED
  BY <1>1, <1>2, <1>3, <1>4, <1>5, <1>6, <1>7, <1>8, <1>9 DEF ContextNext

LEMMA ContextPromises == ASSUME ContextInv PROVE ContextTypeOK /\ ContextAccountable /\ DisclosureConfined
<1>1. ContextTypes /\ ContextAccountable /\ Projecting
  BY DEF ContextInv
<1>2. ContextTypeOK
  <2>1. Len(Adapters) = 2
    BY DEF Adapters
  <2>2. ASSUME NEW a \in AdapterSet PROVE Range(families[a]) \subseteq PlainItems(a)
    <3>1. families[a] \in Seq(PlainItems(a))
      BY <1>1 DEF ContextTypes
    <3>2. QED
      BY <3>1 DEF Range
  <2>3. disclosure.remaining \in Nat
    BY <1>1 DEF ContextTypes, Disclosed
  <2>4. \A a \in AdapterSet : coverage[a].status \in {"none", "unavailable", "retrieved", "empty", "partial"}
    BY <1>1 DEF ContextTypes, CoverageRow
  <2>5. QED
    BY <1>1, <2>1, <2>2, <2>3, <2>4 DEF ContextTypes, ContextTypeOK, Stages
<1>3. DisclosureConfined
  <2>1. PICK p \in PolicyRow, shown \in Seq(Text) : p = disclosure.policy /\ shown = disclosure.projected
    BY <1>1 DEF ContextTypes, Disclosed
  <2>2. ASSUME shown # <<>>
        PROVE  /\ p.authority /\ p.principal /\ p.domain /\ p.classified = "within"
               /\ Len(shown) <= p.items
               /\ SumOf(shown) + Len(shown) * TitlePrefix <= p.chars
    <3>1. Permitted(p) /\ disclosure.remaining + SumOf(shown) + Len(shown) = p.chars
      BY <1>1, <2>1, <2>2 DEF Projecting
    <3>2. PICK l \in Nat, m \in Nat, r \in Nat, c \in Nat, i \in Nat :
            l = Len(shown) /\ m = Len(balanced) /\ r = disclosure.remaining /\ c = p.chars /\ i = p.items
      <4>1. Len(shown) \in Nat /\ p.chars \in Nat /\ p.items \in Nat
        BY DEF PolicyRow
      <4>2. Len(balanced) \in Nat /\ disclosure.remaining \in Nat
        BY <1>1 DEF ContextTypes, Disclosed
      <4>3. QED
        BY <4>1, <4>2, Zenon
    <3>3. PICK sum \in Nat : sum = SumOf(shown)
      <4>1. PICK e \in Text : e = [before |-> 0, marker |-> 0, redacted |-> 0, after |-> 0]
        BY DEF Text
      <4>2. QED
        BY SumAppended
    <3>4. l # 0 /\ l <= m
      <4>1. l # 0
        BY <2>2, <3>2, EmptySeq
      <4>2. QED
        BY <1>1, <2>1, <3>2, <4>1 DEF Projecting
    <3>5. balanced # <<>>
      BY <3>2, <3>4
    <3>6. m <= i /\ p.authority /\ p.principal /\ p.domain /\ p.classified = "within"
      BY <3>1, <3>2, <3>5 DEF Permitted
    <3>7. l <= i
      BY <3>4, <3>6
    <3>8. r + sum + l = c
      BY <3>1, <3>2, <3>3
    <3>9. sum + l * TitlePrefix <= c
      BY <3>8 DEF TitlePrefix
    <3>10. QED
      BY <3>2, <3>3, <3>6, <3>7, <3>9
  <2>3. ASSUME stage \in {"projected", "done"}, disclosure.outcome = "allowed"
        PROVE  shown = [k \in DOMAIN balanced |-> balanced[k].excerpt]
    <3>1. disclosure.redactions = {} /\ Len(shown) = Len(balanced)
      BY <1>1, <2>1, <2>3 DEF Projecting
    <3>2. \A k \in DOMAIN shown : shown[k] = balanced[k].excerpt
      BY <1>1, <2>1, <3>1 DEF Projecting
    <3>3. DOMAIN shown = DOMAIN balanced
      BY <1>1, <3>1 DEF ContextTypes
    <3>4. QED
      BY <3>2, <3>3
  <2>4. \A k \in DOMAIN shown : ~Exposed(shown[k])
    BY <1>1, <2>1 DEF Projecting
  <2>5. QED
    BY <2>1, <2>2, <2>3, <2>4 DEF DisclosureConfined
<1>4. QED
  BY <1>1, <1>2, <1>3

(***************************************************************************)
(* Whatever the adapters return and the policy says: a context names every *)
(* gap in its evidence and cites each record once, no source is crowded    *)
(* out, and what reaches the provider is authorised, within the budgets,   *)
(* with excerpts free of marked values, and never a cut passed off as the  *)
(* whole; titles go out as they are                                        *)
(* (ContextAssembler.assemble, ContextProjector.decide and project).       *)
(***************************************************************************)
THEOREM ContextStands == ContextSpec => [](ContextTypeOK /\ ContextAccountable /\ DisclosureConfined)
<1>1. ContextInit => ContextInv
  BY ContextInitInv
<1>2. ContextInv /\ [ContextNext]_contextVars => ContextInv'
  BY ContextStep
<1>3. ContextInv => ContextTypeOK /\ ContextAccountable /\ DisclosureConfined
  BY ContextPromises
<1>4. QED
  BY <1>1, <1>2, <1>3, PTL DEF ContextSpec

(***************************************************************************)
(* The bounds of the two stores, beside the invariants of what is decided. *)
(***************************************************************************)
ActionRange == actionStore \in {"sqlite", "memory"} /\ actionClock \in 0 .. ActionHorizon

LEMMA ActionRangeStep == ASSUME ActionRange, [ActionNext]_actionVars PROVE ActionRange'
<1>1. CASE ActionTick
  BY <1>1, ActionAssumption DEF ActionTick, ActionRange
<1>2. CASE UNCHANGED <<actionStore, actionClock>>
  BY <1>2 DEF ActionRange
<1>3. CASE ActionNext
  <2>1. ActionTick \/ UNCHANGED <<actionStore, actionClock>>
    BY <1>3, ZenonT(60) DEF ActionNext, PlanAction, ReviewProposal, Revise, RefuseReplacement,
                          ChangeEvidence
  <2>2. QED
    BY <1>1, <1>2, <2>1
<1>4. QED
  BY <1>2, <1>3 DEF actionVars

\* The clock stays within its bound and every stored proposal has a status.
THEOREM ActionsTyped == ActionSpec => []ActionTypeOK
<1>1. ActionInit => ActionRange
  BY ActionAssumption DEF ActionInit, ActionRange
<1>2. ActionRange /\ [ActionNext]_actionVars => ActionRange'
  BY ActionRangeStep
<1>3. ActionInv /\ ActionRange => ActionTypeOK
  <2>1. ASSUME ActionInv, NEW id \in ProposalIds, Exists(id) PROVE proposals[id].status \in ActionStatuses
    <3>1. proposals[id] \in Proposal /\ ProposalSound(proposals[id])
      BY <2>1 DEF ActionInv
    <3>2. proposals[id].status # "none"
      BY <2>1, <3>1 DEF ProposalSound, Exists
    <3>3. QED
      BY <3>1, <3>2 DEF Proposal
  <2>2. QED
    BY <2>1 DEF ActionInv, ActionRange, ActionTypeOK
<1>4. QED
  BY <1>1, <1>2, <1>3, ActionsStand, PTL DEF ActionSpec

AdmissionRange ==
    /\ scopeMode \in {"admission-v2", "category-required", "dedicated-edn"}
    /\ snapshots \in SnapshotChoices /\ granted \subseteq SnapshotChoices
    /\ search.now \in 0 .. AdmissionHorizon /\ admissionDay \in 0 .. AdmissionHorizon
    /\ search.folder \in 1 .. 3 /\ Len(search.raw) <= MailLimit
    /\ search.admitted \subseteq DOMAIN search.raw

LEMMA EmptySearch ==
  /\ NoSearch.now = 0 /\ NoSearch.folder = 1 /\ NoSearch.raw = <<>> /\ NoSearch.admitted = {}
BY DEF NoSearch

LEMMA AdmissionRangeStep ==
  ASSUME AdmissionInv, AdmissionRange, [AdmissionNext]_admissionVars PROVE AdmissionRange'
<1>1. MailLimit \in Nat /\ AdmissionHorizon \in Nat
  BY MailAdmissionAssumption
<1>2. /\ search \in Search /\ search.raw \in Batch /\ Len(search.raw) \in Nat
  BY DEF AdmissionInv, Search, Batch
<1>3. CASE ApproveScope
  BY <1>3 DEF ApproveScope, AdmissionRange
<1>4. CASE \E new \in SnapshotChoices : ReplaceSnapshots(new)
  BY <1>4 DEF ReplaceSnapshots, AdmissionRange
<1>5. CASE AdmissionTick
  BY <1>1, <1>5 DEF AdmissionTick, AdmissionRange
<1>6. ASSUME search' = NoSearch, UNCHANGED <<scopeMode, snapshots, granted, admissionDay>> PROVE AdmissionRange'
  <2>1. 0 \in 0 .. AdmissionHorizon /\ Len(<<>>) <= MailLimit
    BY <1>1
  <2>2. QED
    BY <1>6, <2>1, EmptySearch DEF AdmissionRange
<1>7. CASE BeginSearch
  <2>1. search' = [NoSearch EXCEPT !.pc = "read", !.now = admissionDay, !.policy = snapshots]
    BY <1>7 DEF BeginSearch
  <2>2. search'.now = admissionDay /\ search'.folder = 1 /\ search'.raw = <<>> /\ search'.admitted = {}
    BY <2>1 DEF NoSearch
  <2>3. Len(<<>>) <= MailLimit
    BY <1>1
  <2>4. QED
    BY <1>7, <2>2, <2>3 DEF BeginSearch, AdmissionRange
<1>8. ASSUME NEW page \in Pages, ReadFolder(page) PROVE AdmissionRange'
  <2>1. PICK raw \in Batch, n \in Nat, f \in 1 .. 3 : raw = search.raw /\ n = Len(raw) /\ f = search.folder
    BY <1>2 DEF AdmissionRange
  <2>2. PICK p \in Seq(MailRecord), l \in Nat : p = page /\ l = Len(p)
    BY PagesTyped
  <2>3. search' = [search EXCEPT !.raw = raw \o p, !.folder = f + 1] /\ f <= 2 /\ l <= MailLimit - n
    <3>1. Len(MailFolders) = 2
      BY DEF MailFolders
    <3>2. QED
      BY <1>8, <2>1, <2>2, <3>1 DEF ReadFolder, RoomLeft
  <2>4. Len(raw \o p) = n + l /\ DOMAIN raw \subseteq DOMAIN (raw \o p)
    BY <2>1, <2>2 DEF Batch
  <2>5. PICK more : more = raw \o p
    OBVIOUS
  <2>6. /\ search'.raw = more /\ search'.folder = f + 1 /\ search'.now = search.now
        /\ search'.admitted = search.admitted
    BY <1>2, <2>3, <2>5 DEF Search
  <2>7. f + 1 \in 1 .. 3 /\ Len(more) <= MailLimit
    BY <1>1, <2>3, <2>4, <2>5
  <2>8. search.admitted \subseteq DOMAIN more
    BY <2>1, <2>4, <2>5 DEF AdmissionRange
  <2>9. QED
    BY <1>8, <2>6, <2>7, <2>8 DEF ReadFolder, AdmissionRange
<1>9. ASSUME NEW decisions, NEW reasons, NEW admitted \in SUBSET (DOMAIN search.raw),
             search' = [search EXCEPT !.pc = "done", !.decisions = decisions, !.admitted = admitted, !.reasons = reasons],
             UNCHANGED <<scopeMode, snapshots, granted, admissionDay>>
      PROVE  AdmissionRange'
  <2>1. /\ search'.raw = search.raw /\ search'.folder = search.folder /\ search'.now = search.now
        /\ search'.admitted = admitted
    BY <1>2, <1>9 DEF Search
  <2>2. QED
    BY <1>9, <2>1 DEF AdmissionRange
<1>10. CASE AdmitBatch
  <2>1. PICK decisions, admitted, reasons :
          /\ search' = [search EXCEPT !.pc = "done", !.decisions = decisions, !.admitted = admitted, !.reasons = reasons]
          /\ admitted \in SUBSET (DOMAIN search.raw)
    <3> DEFINE verdicts == [k \in DOMAIN search.raw |-> Decided(search.raw, k, search.policy, search.now)]
               chosen == {k \in DOMAIN search.raw : verdicts[k] = "admitted"}
    <3>1. search' = [search EXCEPT !.pc = "done", !.decisions = verdicts, !.admitted = chosen,
                        !.reasons = Coverage(search.policy, search.now, chosen)]
      BY <1>10, Zenon DEF AdmitBatch
    <3>2. chosen \in SUBSET (DOMAIN search.raw)
      OBVIOUS
    <3> HIDE DEF verdicts, chosen
    <3>3. QED
      BY <3>1, <3>2, Zenon
  <2>2. UNCHANGED <<scopeMode, snapshots, granted, admissionDay>>
    BY <1>10 DEF AdmitBatch
  <2>3. QED
    BY <1>9, <2>1, <2>2
<1>11. CASE FilterBatch
  <2>1. UNCHANGED <<scopeMode, snapshots, granted, admissionDay>>
    BY <1>11 DEF FilterBatch
  <2>2. CASE search' = NoSearch
    BY <1>6, <2>1, <2>2
  <2>3. CASE search' # NoSearch
    <3>1. PICK admitted : /\ search' = [search EXCEPT !.pc = "done", !.admitted = admitted]
                          /\ admitted \in SUBSET (DOMAIN search.raw)
      BY <1>11, <2>3 DEF FilterBatch
    <3>2. /\ search'.raw = search.raw /\ search'.folder = search.folder /\ search'.now = search.now
          /\ search'.admitted = admitted
      BY <1>2, <3>1 DEF Search
    <3>3. QED
      BY <2>1, <3>1, <3>2 DEF AdmissionRange
  <2>4. QED
    BY <2>2, <2>3
<1>12. CASE FolderUnavailable \/ EndSearch
  BY <1>6, <1>12 DEF FolderUnavailable, EndSearch
<1>13. CASE UNCHANGED admissionVars
  BY <1>13 DEF admissionVars, AdmissionRange
<1>14. QED
  BY <1>3, <1>4, <1>5, <1>7, <1>8, <1>10, <1>11, <1>12, <1>13 DEF AdmissionNext

\* A search stays within its limit and its folders, admits records of its own batch only,
\* and the owner's approval is of snapshots the host can have (search, ReadFolder's cut).
THEOREM AdmissionTyped == AdmissionSpec => []AdmissionTypeOK
<1>1. AdmissionInit => AdmissionRange
  <2> SUFFICES ASSUME AdmissionInit PROVE AdmissionRange
    OBVIOUS
  <2>1. SomePolicy \in SnapshotChoices
    <3>1. [clients |-> RelationshipSnapshot("empty", 1, {}),
           projects |-> RelationshipSnapshot("unavailable", 0, {})] \in SnapshotChoices
      BY DEF SnapshotChoices
    <3>2. QED
      BY <3>1 DEF SomePolicy
  <2>2. 0 \in 0 .. AdmissionHorizon /\ Len(<<>>) <= MailLimit
    BY MailAdmissionAssumption
  <2>3. QED
    BY <2>1, <2>2, EmptySearch DEF AdmissionInit, AdmissionRange
<1>2. AdmissionInv /\ AdmissionRange /\ [AdmissionNext]_admissionVars => AdmissionRange'
  BY AdmissionRangeStep
<1>3. AdmissionInv /\ AdmissionRange => AdmissionTypeOK
  <2>1. Len(MailFolders) + 1 = 3
    BY DEF MailFolders
  <2>2. AdmissionInv => search.pc \in {"idle", "read", "done"}
    BY DEF AdmissionInv, Search
  <2>3. QED
    BY <2>1, <2>2 DEF AdmissionRange, AdmissionTypeOK
<1>4. QED
  BY <1>1, <1>2, <1>3, AdmissionStands, PTL DEF AdmissionSpec
=============================================================================
