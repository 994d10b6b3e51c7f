--------------------------- MODULE KnowledgeGraph ---------------------------
(***************************************************************************)
(* Incremental extraction of the knowledge graph from the stored emails    *)
(* (src/src/edn/knowledge_graph/pipeline.py, persistence.py).              *)
(*                                                                         *)
(* A run reads pages of emails by row id and writes each page's facts in   *)
(* one transaction with the checkpoint.  Runs of two program versions may  *)
(* overlap each other and an import, and may end between any two steps.    *)
(*                                                                         *)
(* Abstractions: a fact is the row it was extracted from and the version   *)
(* of the rules; entities, relationships and occurrences are inserted with *)
(* INSERT OR IGNORE, so a page applied again adds nothing.                 *)
(***************************************************************************)
EXTENDS Naturals, FiniteSets

CONSTANTS
    Pipelines,       \* extraction processes that may be under way together
    GraphBatch,      \* batch_size of the pipeline
    MaxEmails        \* bound: rows of the email store

ASSUME GraphAssumption ==
    /\ Pipelines # {}
    /\ GraphBatch \in Nat \ {0} /\ MaxEmails \in Nat

VARIABLES
    stored,          \* emails: the number of rows, whose ids are 1 .. stored
    graphState,      \* knowledge_extraction_state: no row, or its single row
    graph,           \* the facts stored: <<row, rule version>>
    pipelines        \* what each extraction process holds in memory

graphVars == <<stored, graphState, graph, pipelines>>

RuleVersions == {"v1", "v2"}
NoState == [version |-> "none", last |-> 0]
NotExtracting == [pc |-> "idle", version |-> "none", last |-> 0, end |-> 0]

\* add_many commits a batch of new rows: ids only grow, nothing is deleted.
StoreEmails(n) ==
    /\ stored + n <= MaxEmails
    /\ stored' = stored + n
    /\ UNCHANGED <<graphState, graph, pipelines>>

\* KnowledgeGraphStore.initialise: the rule version of the row must be the program's.
StartPipeline(q, version) ==
    /\ pipelines[q].pc = "idle"
    /\ graphState = NoState \/ graphState.version = version
    /\ pipelines' = [pipelines EXCEPT ![q] = [NotExtracting EXCEPT
                        !.pc = IF graphState = NoState THEN "inserting" ELSE "resuming",
                        !.version = version]]
    /\ UNCHANGED <<stored, graphState, graph>>

\* A mutant: the first row replaces one that another initialiser has inserted meanwhile.
InsertStateReplacing(q) ==
    /\ pipelines[q].pc = "inserting"
    /\ graphState' = [version |-> pipelines[q].version, last |-> 0]
    /\ pipelines' = [pipelines EXCEPT ![q].pc = "resuming"]
    /\ UNCHANGED <<stored, graph>>

\* The first row: an initialiser that lost the race gets an integrity error.
InsertState(q) ==
    /\ pipelines[q].pc = "inserting"
    /\ IF graphState = NoState
       THEN /\ graphState' = [version |-> pipelines[q].version, last |-> 0]
            /\ pipelines' = [pipelines EXCEPT ![q].pc = "resuming"]
       ELSE pipelines' = [pipelines EXCEPT ![q] = NotExtracting] /\ UNCHANGED graphState
    /\ UNCHANGED <<stored, graph>>

\* last_email_id.
ReadCheckpoint(q) ==
    /\ pipelines[q].pc = "resuming"
    /\ pipelines' = [pipelines EXCEPT ![q].pc = "paging", ![q].last = graphState.last]
    /\ UNCHANGED <<stored, graphState, graph>>

\* records_after_id, with the batch size or what max_records leaves as its limit; the
\* run ends when no row is left.
ReadEmailPage(q, limit) ==
    LET last == pipelines[q].last
        end == IF last + limit < stored THEN last + limit ELSE stored
    IN /\ pipelines[q].pc = "paging"
       /\ pipelines' = [pipelines EXCEPT ![q] =
             IF last = stored THEN NotExtracting ELSE [@ EXCEPT !.pc = "applying", !.end = end]]
       /\ UNCHANGED <<stored, graphState, graph>>

\* The facts of a page.
Facts(run) == (run.last + 1 .. run.end) \X {run.version}

\* apply_batch: the facts of the page and the checkpoint in one transaction.  The
\* checkpoint is written blindly: the page of a slower run may move it back.
ApplyBatch(q) ==
    LET run == pipelines[q]
    IN /\ run.pc = "applying"
       /\ graph' = graph \cup Facts(run)
       /\ graphState' = [graphState EXCEPT !.last = run.end]
       /\ pipelines' = [pipelines EXCEPT ![q] = [@ EXCEPT !.pc = "paging", !.last = run.end,
                                                          !.end = 0]]
       /\ UNCHANGED stored

\* The run ends with max_records, an exception (the page is rolled back) or the process.
StopPipeline(q) ==
    /\ pipelines[q].pc # "idle"
    /\ pipelines' = [pipelines EXCEPT ![q] = NotExtracting]
    /\ UNCHANGED <<stored, graphState, graph>>

-----------------------------------------------------------------------------
GraphInit ==
    /\ stored = 0
    /\ graphState = NoState /\ graph = {}
    /\ pipelines = [q \in Pipelines |-> NotExtracting]

GraphNext ==
    \/ \E n \in 1 .. MaxEmails : StoreEmails(n)
    \/ \E q \in Pipelines :
          \/ \E version \in RuleVersions : StartPipeline(q, version)
          \/ InsertState(q) \/ ReadCheckpoint(q)
          \/ \E limit \in 1 .. GraphBatch : ReadEmailPage(q, limit)
          \/ ApplyBatch(q) \/ StopPipeline(q)

-----------------------------------------------------------------------------
\* Types of the graph store.
GraphTypeOK ==
    /\ stored \in 0 .. MaxEmails
    /\ graphState \in [version : RuleVersions \cup {"none"}, last : 0 .. stored]
    /\ graph \subseteq (1 .. stored) \X RuleVersions
    /\ pipelines \in [Pipelines ->
          [pc : {"idle", "inserting", "resuming", "paging", "applying"},
           version : RuleVersions \cup {"none"}, last : 0 .. stored, end : 0 .. stored]]

\* No email up to the checkpoint is missing from the graph, though overlapping runs
\* write the checkpoint blindly and emails arrive meanwhile, and all facts come from
\* one version of the rules (apply_batch, initialise).
GraphCovers ==
    /\ \A id \in 1 .. graphState.last : <<id, graphState.version>> \in graph
    /\ \A fact \in graph : fact[2] = graphState.version
=============================================================================
