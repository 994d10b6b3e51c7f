-------------------------- MODULE ContextDisclosure --------------------------
(***************************************************************************)
(* From the sources to a model provider: assembly of a context             *)
(* (src/src/edn/intelligence/context.py) and its bounded disclosure        *)
(* (src/src/edn/intelligence/model_boundary.py).                           *)
(*                                                                         *)
(* The assembler asks the adapters one after the other, keeps the sound    *)
(* items, drops ids that stand for two records, and chooses among the      *)
(* sources in turn; then the projector decides on the disclosure and cuts  *)
(* and redacts the items one after the other to a budget of characters.    *)
(* Adapters, policies and the provider are arbitrary.                      *)
(*                                                                         *)
(* Abstractions: an item is its id, its score, what the admission checks   *)
(* tell apart, whether its title holds a sensitive marker, and the shape   *)
(* of its excerpt, in units of text; scope is whether all its references   *)
(* have the request's domain and classification; wording, labels and       *)
(* timestamps are left out.                                                *)
(***************************************************************************)
EXTENDS Naturals, Sequences, FiniteSets, Functions

CONSTANTS
    PerSourceLimit,  \* ContextAssembler.per_source_limit
    TotalLimit       \* ContextAssembler.total_limit

ASSUME ContextAssumption == PerSourceLimit \in 1 .. 25 /\ TotalLimit \in 1 .. 100

VARIABLES
    stage,           \* how far the request is
    supplied,        \* external: what the adapters asked so far have returned
    families,        \* admitted items of each adapter
    balanced,        \* the context's evidence
    coverage,        \* source_coverage: one row per adapter
    disclosure       \* policy, decision, projected items, response

contextVars == <<stage, supplied, families, balanced, coverage, disclosure>>

-----------------------------------------------------------------------------
\* Sources and their items.
Adapters == <<"calendar", "mail">>
AdapterSet == {"calendar", "mail"}
Oddities == {"plain", "other_instance", "other_capability", "infinite_score", "out_of_scope"}

\* An excerpt: plain units, a sensitive marker (its keyword, then its value) or what has
\* been put in its place, plain units.
Excerpt(before, marker, after) ==
    [before |-> before, marker |-> marker, redacted |-> 0, after |-> after]

Titles == {"unmarked", "marked"}

Item(a, id, score, title, excerpt, odd) ==
    [adapter |-> a, id |-> id, score |-> score, title |-> title, excerpt |-> excerpt, odd |-> odd]

OwnItem(a, odd) == Item(a, <<a, 1>>, 1, "unmarked", Excerpt(1, 2, 0), odd)
PlainItems(a) ==
    {OwnItem(a, "plain"),
     Item(a, <<a, 2>>, 2, "unmarked", Excerpt(0, 4, 1), "plain"),
     Item(a, <<"both", 1>>, 3, "marked", Excerpt(2, 0, 0), "plain"),
     Item(a, <<"both", 1>>, 3, "unmarked", Excerpt(1, 0, 0), "plain")}

Items(a) == PlainItems(a) \cup {OwnItem(a, odd) : odd \in Oddities \ {"plain"}}
Evidences(a) ==
    {<<>>} \cup {<<i>> : i \in Items(a)} \cup (Items(a) \X PlainItems(a))
      \cup {t \in {OwnItem(a, "plain")} \X PlainItems(a) \X PlainItems(a) :
               t[2].score = 2 /\ t[3].score = 3}

\* What asking an adapter comes to: evaluate_capability_use refuses, retrieve raises a
\* ConnectorError, or it returns evidence, perhaps with a SourceBatch's reservations.
Outcomes(a) ==
    [kind : {"unusable", "connector_failure"}, evidence : {<<>>}, reservations : {{}}]
      \cup [kind : {"batch"}, evidence : Evidences(a), reservations : {{}}]
      \cup [kind : {"batch"}, evidence : {<<i>> : i \in PlainItems(a)},
            reservations : {{"source_truncated"}, {"source_records_filtered"}}]

-----------------------------------------------------------------------------
\* Assembly.
Lower(m, n) == IF m <= n THEN m ELSE n

Considered(outcome) ==
    SubSeq(outcome.evidence, 1, Lower(PerSourceLimit, Len(outcome.evidence)))

Sound(outcome) == {i \in Range(Considered(outcome)) : i.odd = "plain"}

\* Two different items under one id are both dropped; a repeated item is kept once.
Conflicting(items) == {i \in items : \E j \in items : j.id = i.id /\ j # i}

Reasons(outcome) ==
    outcome.reservations
      \cup {i.odd : i \in {j \in Range(Considered(outcome)) : j.odd # "plain"}}
      \cup (IF Len(outcome.evidence) >= PerSourceLimit THEN {"source_limit_reached"} ELSE {})
      \cup (IF Conflicting(Sound(outcome)) # {} THEN {"conflicting_evidence_id"} ELSE {})

\* Items that share no id, the best first; no two of them have one score.
ByScore(items) ==
    CHOOSE s \in [1 .. Cardinality(items) -> items] :
        /\ Range(s) = items
        /\ \A k, l \in DOMAIN s : k < l => s[k].score > s[l].score

NoCoverage == [status |-> "none", returned |-> 0, admitted |-> 0, selected |-> 0, reasons |-> {}]

\* One iteration of the loop over the adapters.
Retrieve(outcome) ==
    LET a == Adapters[Len(supplied) + 1]
        kept == Sound(outcome) \ Conflicting(Sound(outcome))
    IN /\ stage = "retrieve" /\ Len(supplied) < Len(Adapters)
       /\ outcome \in Outcomes(a)
       /\ supplied' = Append(supplied, outcome)
       /\ families' = [families EXCEPT ![a] = ByScore(kept)]
       /\ coverage' = [coverage EXCEPT ![a] =
             IF outcome.kind # "batch"
             THEN [NoCoverage EXCEPT !.status = "unavailable", !.reasons = {outcome.kind}]
             ELSE [status |-> IF Reasons(outcome) # {} THEN "partial"
                              ELSE IF kept # {} THEN "retrieved" ELSE "empty",
                   returned |-> Len(outcome.evidence), admitted |-> Cardinality(kept),
                   selected |-> 0, reasons |-> Reasons(outcome)]]
       /\ UNCHANGED <<stage, balanced, disclosure>>

Collisions ==
    {id \in UNION {{i.id : i \in Range(families[a])} : a \in AdapterSet} :
        \A a \in AdapterSet : \E i \in Range(families[a]) : i.id = id}

\* A citation id stands for one record, or for none.
RejectCollisions ==
    LET Lost(a) == {i \in Range(families[a]) : i.id \in Collisions}
    IN /\ stage = "retrieve" /\ Len(supplied) = Len(Adapters)
       /\ stage' = "balance"
       /\ families' = [a \in AdapterSet |-> ByScore(Range(families[a]) \ Lost(a))]
       /\ coverage' = [a \in AdapterSet |->
             IF Lost(a) = {} THEN coverage[a]
             ELSE [coverage[a] EXCEPT !.status = "partial",
                                      !.admitted = @ - Cardinality(Lost(a)),
                                      !.reasons = @ \cup {"conflicting_evidence_id"}]]
       /\ UNCHANGED <<supplied, balanced, disclosure>>

\* One round over the sources that still have items.
TakeTurns ==
    LET Best(a) == IF families[a] = <<>> THEN <<>> ELSE <<Head(families[a])>>
        Rest(a) == IF families[a] = <<>> THEN <<>> ELSE Tail(families[a])
        heads == Best(Adapters[1]) \o Best(Adapters[2])
        room == Lower(TotalLimit, Len(balanced) + Len(heads))
    IN /\ stage = "balance" /\ heads # <<>> /\ Len(balanced) < TotalLimit
       /\ balanced' = SubSeq(balanced \o heads, 1, room)
       /\ families' = [a \in AdapterSet |-> Rest(a)]
       /\ UNCHANGED <<stage, supplied, coverage, disclosure>>

SelectedOf(a) == Cardinality({k \in DOMAIN balanced : balanced[k].adapter = a})

\* The final pass over the coverage rows.
CountSelected ==
    LET Short(a) == SelectedOf(a) < coverage[a].admitted
        Why(a) == coverage[a].reasons \cup (IF Short(a) THEN {"context_limit_reached"} ELSE {})
    IN /\ stage = "balance"
       /\ Len(balanced) = TotalLimit \/ \A a \in AdapterSet : families[a] = <<>>
       /\ stage' = "assembled"
       /\ coverage' = [a \in AdapterSet |->
             [coverage[a] EXCEPT !.selected = SelectedOf(a), !.reasons = Why(a),
                 !.status = IF Why(a) # {} /\ @ # "unavailable" THEN "partial" ELSE @]]
       /\ UNCHANGED <<supplied, families, balanced, disclosure>>

-----------------------------------------------------------------------------
\* Disclosure.  The references of the evidence have the request's classification, so
\* "classified" says how that compares with the policy's ceiling.
Policy(authority, principal, domain, classified, items, chars) ==
    [authority |-> authority, principal |-> principal, domain |-> domain,
     classified |-> classified, items |-> items, chars |-> chars]

Policies ==
    [authority : {TRUE}, principal : {TRUE}, domain : {TRUE}, classified : {"within"},
     items : {1, 3}, chars : {2, 4, 9}]
      \cup {Policy(FALSE, TRUE, TRUE, "within", 3, 9), Policy(TRUE, FALSE, TRUE, "within", 3, 9),
            Policy(TRUE, TRUE, FALSE, "within", 3, 9)}
      \cup {Policy(TRUE, TRUE, TRUE, c, 3, 9) : c \in {"unranked", "other_scheme", "above"}}

\* decide
Decision(policy) ==
    IF ~policy.authority THEN "missing_authority"
    ELSE IF ~policy.principal \/ ~policy.domain \/ Len(balanced) > policy.items THEN "denied"
    ELSE IF balanced = <<>> \/ policy.classified = "within" THEN "allowed"
    ELSE [unranked |-> "unknown_classification", other_scheme |-> "denied",
          above |-> "classification_ceiling_exceeded"][policy.classified]

NoDisclosure == [policy |-> Policy(FALSE, FALSE, FALSE, "above", 1, 1), outcome |-> "none",
                 titles |-> <<>>, projected |-> <<>>, remaining |-> 0, redactions |-> {},
                 answer |-> "none"]

Decide(policy) ==
    /\ stage = "assembled"
    /\ stage' = IF Decision(policy) = "allowed" THEN "project" ELSE "done"
    /\ disclosure' = [NoDisclosure EXCEPT !.policy = policy, !.outcome = Decision(policy),
                                          !.remaining = policy.chars]
    /\ UNCHANGED <<supplied, families, balanced, coverage>>

\* A title is never cut or redacted, so it counts as one unit whatever it holds.
TitlePrefix == 1
Units(e) == e.before + e.marker + e.redacted + e.after
Cut(e, n) ==
    LET b == Lower(e.before, n)
        m == Lower(e.marker, n - b)
        r == Lower(e.redacted, n - b - m)
    IN [before |-> b, marker |-> m, redacted |-> r, after |-> Lower(e.after, n - b - m - r)]

\* A keyword with at least the first unit of its value is replaced by "[redacted]".
Exposed(e) == e.marker >= 2
SafeExcerpt(e) == IF Exposed(e) THEN [e EXCEPT !.marker = 0, !.redacted = 3] ELSE e

\* One iteration of project.
ProjectItem ==
    LET k == Len(disclosure.projected) + 1
        available == disclosure.remaining - TitlePrefix
        raw == Cut(balanced[k].excerpt, available)
        excerpt == Cut(SafeExcerpt(raw), available)
    IN /\ stage = "project" /\ k <= Len(balanced)
       /\ IF available <= 0
          THEN /\ disclosure' = [disclosure EXCEPT !.redactions = @ \cup {<<k, "context_budget">>}]
               /\ stage' = "cut_off"
          ELSE /\ disclosure' = [disclosure EXCEPT
                      !.titles = Append(@, balanced[k].title),
                      !.projected = Append(@, excerpt),
                      !.remaining = @ - TitlePrefix - Units(excerpt),
                      !.redactions = @ \cup {<<k, why>> : why \in
                          {w \in {"sensitive_marker", "excerpt_truncated"} :
                              IF w = "sensitive_marker" THEN excerpt # raw
                              ELSE Units(excerpt) < Units(balanced[k].excerpt)}}]
               /\ UNCHANGED stage
       /\ UNCHANGED <<supplied, families, balanced, coverage>>

FinishProjection ==
    /\ stage = "cut_off" \/ (stage = "project" /\ Len(disclosure.projected) = Len(balanced))
    /\ stage' = "projected"
    /\ disclosure' = [disclosure EXCEPT
          !.outcome = IF disclosure.redactions # {} THEN "redacted_projected" ELSE @]
    /\ UNCHANGED <<supplied, families, balanced, coverage>>

\* The provider is given the projection.  run hands on what it answers as it is, or
\* falls back when it raises.
Generate(answer) ==
    /\ stage = "projected"
    /\ stage' = "done"
    /\ disclosure' = [disclosure EXCEPT !.answer = answer]
    /\ UNCHANGED <<supplied, families, balanced, coverage>>

SumOf(texts) ==
    LET Sum[n \in 0 .. Len(texts)] == IF n = 0 THEN 0 ELSE Sum[n - 1] + Units(texts[n])
    IN Sum[Len(texts)]

ContextInit ==
    /\ stage = "retrieve" /\ supplied = <<>> /\ balanced = <<>>
    /\ families = [a \in AdapterSet |-> <<>>]
    /\ coverage = [a \in AdapterSet |-> NoCoverage]
    /\ disclosure = NoDisclosure

ContextNext ==
    \/ \E a \in AdapterSet : \E outcome \in Outcomes(a) : Retrieve(outcome)
    \/ RejectCollisions
    \/ TakeTurns
    \/ CountSelected
    \/ \E policy \in Policies : Decide(policy)
    \/ ProjectItem
    \/ FinishProjection
    \/ \E answer \in {"response", "fallback"} : Generate(answer)

-----------------------------------------------------------------------------
ContextTypeOK ==
    /\ stage \in {"retrieve", "balance", "assembled", "project", "cut_off", "projected", "done"}
    /\ Len(supplied) <= Len(Adapters) /\ Len(balanced) <= TotalLimit
    /\ \A a \in AdapterSet :
         /\ Range(families[a]) \subseteq PlainItems(a)
         /\ coverage[a].status \in {"none", "unavailable", "retrieved", "empty", "partial"}
         /\ coverage[a].selected <= coverage[a].admitted
         /\ coverage[a].admitted <= coverage[a].returned
    /\ disclosure.remaining \in Nat

\* A context never hides a gap: a source reported as retrieved or empty has everything it
\* returned in the context; no citation id stands twice; and no source is crowded out by
\* another that has more than one item more (assemble, with its collisions and limits).
ContextAccountable ==
    stage \notin {"retrieve", "balance"} =>
        /\ \A k, l \in DOMAIN balanced : balanced[k].id = balanced[l].id => k = l
        /\ \A n \in DOMAIN Adapters :
             /\ coverage[Adapters[n]].status \in {"retrieved", "empty"} =>
                  Range(supplied[n].evidence) \subseteq Range(balanced)
             /\ coverage[Adapters[n]].selected < coverage[Adapters[n]].admitted =>
                  \A b \in AdapterSet :
                     coverage[b].selected <= coverage[Adapters[n]].selected + 1

\* What reaches the provider has every authority and stays within the budget of items and
\* characters, no excerpt in it shows a marked value, and what is cut, redacted or left
\* out is never passed off as the whole (decide, project).
DisclosureConfined ==
    LET p == disclosure.policy
        shown == disclosure.projected
    IN /\ shown # <<>> =>
            /\ p.authority /\ p.principal /\ p.domain /\ p.classified = "within"
            /\ Len(shown) <= p.items
            /\ SumOf(shown) + Len(shown) * TitlePrefix <= p.chars
       /\ \A k \in DOMAIN shown : ~Exposed(shown[k])
       /\ stage \in {"projected", "done"} /\ disclosure.outcome = "allowed" =>
            shown = [k \in DOMAIN balanced |-> balanced[k].excerpt]
=============================================================================
