---------------------------- MODULE ActionReview ----------------------------
(***************************************************************************)
(* Action proposals and their review (src/src/edn/intelligence/actions.py, *)
(* action_models.py).                                                      *)
(*                                                                         *)
(* The planner stores a proposal bound to its evidence; reviewers who have *)
(* read it decide on it later, or replace it by a revision, while it       *)
(* expires and its evidence loses authority.  Every store operation is one *)
(* transaction (SQLite) or one method (in memory).                         *)
(*                                                                         *)
(* Abstractions: a proposal's content is the evidence it cites and its     *)
(* expiry (expires_at, {} for None); its hash is right or wrong; the       *)
(* fields that are only displayed are left out.  "reviewed" is whether     *)
(* human_review_ref is set.  "decided" is a history field: whether a       *)
(* review of this very proposal was accepted, and met all an approval has  *)
(* to meet.                                                                *)
(***************************************************************************)
EXTENDS Naturals, FiniteSets

CONSTANTS
    ProposalIds,     \* proposals that may exist
    ProposalLife,    \* the seven days of a planned proposal, in steps of the clock
    ActionHorizon    \* bound: the clock

ASSUME ActionAssumption ==
    /\ ProposalIds # {}
    /\ ProposalLife \in Nat \ {0} /\ ActionHorizon \in Nat

VARIABLES
    actionStore,     \* which store: "sqlite" or "memory"
    proposals,       \* the stored proposals
    currentEvidence, \* the evidence that is still authorised
    actionClock

actionVars == <<actionStore, proposals, currentEvidence, actionClock>>

Evidence == {"e1"}
Closed == {"rejected", "superseded", "cancelled"}
ActionStatuses ==
    {"proposed", "draft", "awaiting_review", "approved_for_execution", "executed", "failed"}
       \cup Closed

NoProposal == [status |-> "none", evidence |-> {}, expires |-> {}, reviewed |-> FALSE,
               heir |-> {}, decided |-> "no"]

\* The proposals ActionPlanner.plan makes from the first evidence of a context.
Planned(e, draft) ==
    [NoProposal EXCEPT !.status = IF draft THEN "awaiting_review" ELSE "proposed",
                       !.evidence = {e}, !.expires = {actionClock + ProposalLife}]

Exists(id) == proposals[id] # NoProposal

\* plan: no proposal without evidence, none whose provenance is of another domain or
\* classification than the request; create refuses an id that exists.
PlanAction(id, e, inDomain, draft) ==
    /\ ~Exists(id) /\ e \in currentEvidence /\ inDomain
    /\ proposals' = [proposals EXCEPT ![id] = Planned(e, draft)]
    /\ UNCHANGED <<actionStore, currentEvidence, actionClock>>

-----------------------------------------------------------------------------
\* The transitions a review may make.
Allowed(status) ==
    CASE status = "proposed" -> {"draft", "awaiting_review"} \cup Closed
      [] status = "draft" -> {"awaiting_review"} \cup Closed
      [] status = "awaiting_review" -> {"approved_for_execution"} \cup Closed
      [] status = "approved_for_execution" -> {"cancelled", "superseded"}
      [] OTHER -> {}

\* An approval needs a proposal that has not expired, if it ever does, and evidence still
\* authorised.
Approvable(proposal, now, current) ==
    (\A expiry \in proposal.expires : now < expiry) /\ proposal.evidence \subseteq current

\* _review: the exact hash, a reference, no execution, and an allowed transition.
ReviewAdmits(proposal, review, now, current) ==
    /\ review.exact /\ review.ref
    /\ review.status \notin {"executed", "failed"}
    /\ review.status = "approved_for_execution" => Approvable(proposal, now, current)
    /\ review.status \in Allowed(proposal.status)

Reviewed(proposal, review, now, current) ==
    [proposal EXCEPT !.status = review.status, !.reviewed = TRUE,
                     !.decided = IF /\ proposal.status = "awaiting_review"
                                    /\ \A expiry \in proposal.expires : now < expiry
                                    /\ proposal.evidence \subseteq current
                                 THEN "approvable" ELSE "yes"]

Reviews == [status : ActionStatuses, exact : BOOLEAN, ref : BOOLEAN]

\* The review revise makes.
Supersessions == {review \in Reviews : review.status = "superseded"}

\* review, with the evidence the caller finds authorised now.
ReviewProposal(id, review) ==
    /\ Exists(id)
    /\ ReviewAdmits(proposals[id], review, actionClock, currentEvidence)
    /\ proposals' = [proposals EXCEPT ![id] =
                        Reviewed(@, review, actionClock, currentEvidence)]
    /\ UNCHANGED <<actionStore, currentEvidence, actionClock>>

\* None, or any time; the clock does not tell those past ActionHorizon from none.
Expiries == {{}} \cup {{t} : t \in 0 .. ActionHorizon}

\* The replacements revise stores: ActionProposal asks for evidence and for nothing of the
\* status or the expiry, and a replacement that has a review reference is refused.
Replacement(status, cited, expires) ==
    [NoProposal EXCEPT !.status = status, !.evidence = cited, !.expires = expires]

Replacements ==
    {Replacement(status, cited, expires) :
        status \in ActionStatuses, cited \in (SUBSET Evidence) \ {{}}, expires \in Expiries}

\* The review of revise: at the proposal's own creation, with the evidence it cites.
Supersedes(id, review) ==
    Exists(id) /\ ReviewAdmits(proposals[id], review, 0, proposals[id].evidence)

Superseded(id, review) == Reviewed(proposals[id], review, actionClock, currentEvidence)

\* revise: the proposal is superseded and its replacement stored as it is.
Revise(id, new, review, replacement) ==
    /\ Supersedes(id, review) /\ ~Exists(new)
    /\ proposals' = [proposals EXCEPT ![id] = [Superseded(id, review) EXCEPT !.heir = {new}],
                                      ![new] = replacement]
    /\ UNCHANGED <<actionStore, currentEvidence, actionClock>>

\* The replacement has a review reference, or an id that exists.  SQLite leaves everything
\* as it was; the store in memory has superseded the proposal before it refuses.
RefuseReplacement(id, review) ==
    /\ actionStore = "memory"
    /\ Supersedes(id, review)
    /\ proposals' = [proposals EXCEPT ![id] = Superseded(id, review)]
    /\ UNCHANGED <<actionStore, currentEvidence, actionClock>>

-----------------------------------------------------------------------------
\* Evidence loses or regains its authority, and time passes.
ChangeEvidence(e) ==
    /\ currentEvidence' = IF e \in currentEvidence THEN currentEvidence \ {e}
                          ELSE currentEvidence \cup {e}
    /\ UNCHANGED <<actionStore, proposals, actionClock>>

ActionTick ==
    /\ actionClock < ActionHorizon
    /\ actionClock' = actionClock + 1
    /\ UNCHANGED <<actionStore, proposals, currentEvidence>>

ActionInit ==
    /\ actionStore \in {"sqlite", "memory"}
    /\ proposals = [id \in ProposalIds |-> NoProposal]
    /\ currentEvidence = Evidence
    /\ actionClock = 0

ActionNext ==
    \/ \E id \in ProposalIds, e \in Evidence, inDomain, draft \in BOOLEAN :
          PlanAction(id, e, inDomain, draft)
    \/ \E id \in ProposalIds, review \in Reviews : ReviewProposal(id, review)
    \/ \E id, new \in ProposalIds, review \in Supersessions, replacement \in Replacements :
          Revise(id, new, review, replacement)
    \/ \E id \in ProposalIds, review \in Supersessions : RefuseReplacement(id, review)
    \/ \E e \in Evidence : ChangeEvidence(e)
    \/ ActionTick

-----------------------------------------------------------------------------
\* Types of the proposal store.
ActionTypeOK ==
    /\ actionStore \in {"sqlite", "memory"}
    /\ currentEvidence \subseteq Evidence /\ actionClock \in 0 .. ActionHorizon
    /\ \A id \in ProposalIds : Exists(id) => proposals[id].status \in ActionStatuses

\* A proposal that was reviewed into its approval was then awaiting review, not expired
\* and its evidence authorised; no review executes one, also not one stored as executed
\* or as approved; a review stays with the proposal it decided; and what a revision has
\* superseded stays so, its replacement beside it (_review, revise).
ActionsConfined ==
    \A id \in ProposalIds :
       LET p == proposals[id]
       IN /\ p.status = "approved_for_execution" /\ p.reviewed => p.decided = "approvable"
          /\ p.status \in {"executed", "failed"} => ~p.reviewed
          /\ p.reviewed <=> p.decided # "no"
          /\ \A heir \in p.heir : Exists(heir) /\ p.status = "superseded"
=============================================================================
