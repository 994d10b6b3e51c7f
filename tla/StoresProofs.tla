----------------------------- MODULE StoresProofs -----------------------------
(***************************************************************************)
(* Proofs about the stores that several processes write and may leave half *)
(* written: the knowledge graph, the run directory of the schema           *)
(* inspection, the operational backups and the local ingestion.            *)
(***************************************************************************)
EXTENDS Components, SequenceTheorems, FiniteSetTheorems, TLAPS

(***************************************************************************)
(* The knowledge graph.  What a run of the pipeline knows in memory is in  *)
(* the graph: the page it applies joins on to rows that are there, so that *)
(* a checkpoint written blindly never skips one.                           *)
(***************************************************************************)
PipelineType ==
    [pc : {"idle", "inserting", "resuming", "paging", "applying"},
     version : RuleVersions \cup {"none"}, last : 0 .. stored, end : 0 .. stored]

\* The run has seen its own version in the row, and the graph has all up to its page.
Backed(next) ==
    /\ next.pc = "inserting" => next.version \in RuleVersions /\ next.last = 0
    /\ next.pc \in {"resuming", "paging", "applying"} =>
        /\ graphState.version = next.version
        /\ graphState.version \in RuleVersions
        /\ \A id \in 1 .. next.last : <<id, graphState.version>> \in graph

GraphInv ==
    /\ GraphTypeOK
    /\ GraphCovers
    /\ graphState.version = "none" => graphState = NoState
    /\ \A q \in Pipelines : Backed(pipelines[q])

LEMMA GraphInitInv == GraphInit => GraphInv
<1> SUFFICES ASSUME GraphInit PROVE GraphInv
  OBVIOUS
<1> USE GraphAssumption DEF GraphInit
<1>1. graphState.version = "none" /\ graphState.last = 0
  BY DEF NoState
<1>2. \A q \in Pipelines : pipelines[q].pc = "idle"
  BY DEF NotExtracting
<1>3. GraphTypeOK
  <2>1. NotExtracting \in [pc : {"idle", "inserting", "resuming", "paging", "applying"},
                           version : RuleVersions \cup {"none"}, last : 0 .. stored, end : 0 .. stored]
    BY DEF NotExtracting
  <2>2. graphState \in [version : RuleVersions \cup {"none"}, last : 0 .. stored]
    BY DEF NoState
  <2>3. QED
    BY <2>1, <2>2 DEF GraphTypeOK
<1>4. GraphCovers
  BY <1>1 DEF GraphCovers
<1>5. QED
  BY <1>2, <1>3, <1>4 DEF GraphInv, Backed

\* A step of one run that leaves the stores alone keeps the invariant.
LEMMA RunMoves ==
  ASSUME GraphInv, NEW q \in Pipelines, NEW next \in PipelineType, Backed(next),
         pipelines' = [pipelines EXCEPT ![q] = next],
         UNCHANGED <<stored, graphState, graph>>
  PROVE  GraphInv'
<1>1. GraphTypeOK'
  BY DEF GraphInv, GraphTypeOK, PipelineType
<1>2. GraphCovers'
  BY DEF GraphInv, GraphCovers
<1>3. ASSUME NEW r \in Pipelines PROVE Backed(pipelines[r])'
  <2>1. pipelines'[r] = IF r = q THEN next ELSE pipelines[r]
    BY DEF GraphInv, GraphTypeOK
  <2>2. Backed(pipelines[r])
    BY DEF GraphInv
  <2>3. QED
    BY <2>1, <2>2 DEF Backed
<1>4. (graphState.version = "none" => graphState = NoState)'
  BY DEF GraphInv, NoState
<1>5. QED
  BY <1>1, <1>2, <1>3, <1>4 DEF GraphInv

\* A run that ends is idle again.
LEMMA RunEnds ==
  ASSUME GraphInv PROVE NotExtracting \in PipelineType /\ Backed(NotExtracting)
BY GraphAssumption DEF GraphInv, GraphTypeOK, NotExtracting, PipelineType, Backed

LEMMA GraphStep == GraphInv /\ [GraphNext]_graphVars => GraphInv'
<1> SUFFICES ASSUME GraphInv, [GraphNext]_graphVars PROVE GraphInv'
  OBVIOUS
<1> USE GraphAssumption
<1>0. /\ stored \in Nat /\ graphState.last \in 0 .. stored
      /\ \A q \in Pipelines : pipelines[q] \in PipelineType /\ Backed(pipelines[q])
  BY DEF GraphInv, GraphTypeOK, PipelineType
<1>1. ASSUME NEW n \in 1 .. MaxEmails, StoreEmails(n) PROVE GraphInv'
  <2> USE <1>1 DEF StoreEmails
  <2>1. stored' \in 0 .. MaxEmails /\ 0 .. stored \subseteq 0 .. stored' /\ 1 .. stored \subseteq 1 .. stored'
    BY <1>0
  <2>2. GraphTypeOK'
    <3>1. graphState' \in [version : RuleVersions \cup {"none"}, last : 0 .. stored']
      BY <2>1 DEF GraphInv, GraphTypeOK
    <3>2. graph' \subseteq (1 .. stored') \X RuleVersions
      BY <2>1 DEF GraphInv, GraphTypeOK
    <3>3. PipelineType \subseteq PipelineType'
      BY <2>1 DEF PipelineType
    <3>4. pipelines' \in [Pipelines -> PipelineType']
      BY <3>3 DEF GraphInv, GraphTypeOK, PipelineType
    <3>5. QED
      BY <2>1, <3>1, <3>2, <3>4 DEF GraphTypeOK, PipelineType
  <2>3. QED
    BY <2>2 DEF GraphInv, GraphCovers, Backed, NoState
<1>2. ASSUME NEW q \in Pipelines, NEW version \in RuleVersions, StartPipeline(q, version)
      PROVE GraphInv'
  <2> DEFINE pc == IF graphState = NoState THEN "inserting" ELSE "resuming"
  <2>1. PICK next : next = [NotExtracting EXCEPT !.pc = pc, !.version = version]
    OBVIOUS
  <2>2. /\ next = [pc |-> pc, version |-> version, last |-> 0, end |-> 0]
    BY <2>1 DEF NotExtracting
  <2>3. next \in PipelineType /\ next.pc = pc /\ next.version = version /\ next.last = 0
    BY <2>2, <1>0 DEF PipelineType
  <2>4. graphState = NoState \/ graphState.version = version
    BY <1>2 DEF StartPipeline
  <2>5. Backed(next)
    BY <2>3, <2>4 DEF Backed
  <2>6. pipelines' = [pipelines EXCEPT ![q] = next] /\ UNCHANGED <<stored, graphState, graph>>
    BY <1>2, <2>1 DEF StartPipeline
  <2>7. QED
    BY <2>3, <2>5, <2>6, RunMoves
<1>3. ASSUME NEW q \in Pipelines, InsertState(q) PROVE GraphInv'
  <2> USE <1>3 DEF InsertState
  <2>1. CASE graphState # NoState
    BY <2>1, RunEnds, RunMoves
  <2>2. CASE graphState = NoState
    <3>1. PICK next : next = [pipelines[q] EXCEPT !.pc = "resuming"]
      OBVIOUS
    <3>2. /\ next \in PipelineType /\ next.pc = "resuming" /\ next.last = pipelines[q].last
          /\ next.version = pipelines[q].version /\ next.version \in RuleVersions /\ next.last = 0
      BY <3>1, <1>0 DEF PipelineType, Backed
    <3>3. pipelines' = [pipelines EXCEPT ![q] = next]
      BY <3>1, <2>2
    <3>4. /\ graphState' = [version |-> next.version, last |-> 0]
          /\ UNCHANGED <<stored, graph>>
      BY <2>2, <3>2
    <3>5. graph = {}
      BY <2>2 DEF GraphInv, GraphTypeOK, GraphCovers, NoState, RuleVersions
    <3>6. graphState'.version = next.version /\ graphState'.last = 0
      BY <3>4
    <3>7. GraphTypeOK'
      <4>1. graphState' \in [version : RuleVersions \cup {"none"}, last : 0 .. stored']
        BY <3>2, <3>4, <1>0
      <4>2. pipelines' \in [Pipelines -> PipelineType']
        BY <3>2, <3>3, <3>4 DEF GraphInv, GraphTypeOK, PipelineType
      <4>3. QED
        BY <4>1, <4>2, <3>4 DEF GraphInv, GraphTypeOK, PipelineType
    <3>8. GraphCovers'
      BY <3>4, <3>5, <3>6 DEF GraphCovers
    <3>9. ASSUME NEW r \in Pipelines PROVE Backed(pipelines[r])'
      <4>1. pipelines'[r] = IF r = q THEN next ELSE pipelines[r]
        BY <3>3 DEF GraphInv, GraphTypeOK
      <4>2. pipelines[r].pc \notin {"resuming", "paging", "applying"}
        BY <1>0, <2>2 DEF Backed, NoState, RuleVersions
      <4>3. QED
        BY <4>1, <4>2, <3>2, <3>6, <1>0 DEF Backed
    <3>10. QED
      BY <3>2, <3>6, <3>7, <3>8, <3>9 DEF GraphInv, RuleVersions
  <2>3. QED
    BY <2>1, <2>2
<1>4. ASSUME NEW q \in Pipelines, ReadCheckpoint(q) PROVE GraphInv'
  <2>1. PICK next : next = [pipelines[q] EXCEPT !.pc = "paging", !.last = graphState.last]
    OBVIOUS
  <2>2. /\ next \in PipelineType /\ next.pc = "paging" /\ next.last = graphState.last
        /\ next.version = pipelines[q].version
    BY <2>1, <1>0 DEF PipelineType
  <2>3. Backed(next)
    BY <2>2, <1>0, <1>4 DEF Backed, GraphInv, GraphCovers, ReadCheckpoint
  <2>4. pipelines' = [pipelines EXCEPT ![q] = next] /\ UNCHANGED <<stored, graphState, graph>>
    BY <1>4, <2>1 DEF ReadCheckpoint
  <2>5. QED
    BY <2>2, <2>3, <2>4, RunMoves
<1>5. ASSUME NEW q \in Pipelines, NEW limit \in 1 .. GraphBatch, ReadEmailPage(q, limit)
      PROVE GraphInv'
  <2> DEFINE last == pipelines[q].last
             end == IF last + limit < stored THEN last + limit ELSE stored
  <2>1. CASE last = stored
    BY <2>1, <1>5, RunEnds, RunMoves DEF ReadEmailPage
  <2>2. CASE last # stored
    <3>1. PICK next : next = [pipelines[q] EXCEPT !.pc = "applying", !.end = end]
      OBVIOUS
    <3>2. last \in 0 .. stored /\ end \in 0 .. stored
      BY <1>0 DEF PipelineType
    <3>3. /\ next \in PipelineType /\ next.pc = "applying" /\ next.last = last
          /\ next.version = pipelines[q].version
      BY <3>1, <3>2, <1>0 DEF PipelineType
    <3>4. Backed(next)
      BY <3>3, <1>0, <1>5 DEF Backed, ReadEmailPage
    <3>5. pipelines' = [pipelines EXCEPT ![q] = next] /\ UNCHANGED <<stored, graphState, graph>>
      BY <1>5, <2>2, <3>1 DEF ReadEmailPage
    <3>6. QED
      BY <3>3, <3>4, <3>5, RunMoves
  <2>3. QED
    BY <2>1, <2>2
<1>6. ASSUME NEW q \in Pipelines, ApplyBatch(q) PROVE GraphInv'
  <2> DEFINE old == pipelines[q]
             version == graphState.version
  <2>1. /\ old \in PipelineType /\ old.version = version /\ version \in RuleVersions
        /\ \A id \in 1 .. old.last : <<id, version>> \in graph
    BY <1>0, <1>6 DEF ApplyBatch, Backed
  <2>2. PICK next : next = [old EXCEPT !.pc = "paging", !.last = old.end, !.end = 0]
    OBVIOUS
  <2>3. /\ next \in PipelineType /\ next.pc = "paging" /\ next.last = old.end
        /\ next.version = version
    <3>1. next = [pc |-> "paging", version |-> version, last |-> old.end, end |-> 0]
      BY <2>1, <2>2 DEF PipelineType
    <3>2. old.end \in 0 .. stored /\ 0 \in 0 .. stored
      BY <2>1, <1>0 DEF PipelineType
    <3>3. QED
      BY <2>1, <3>1, <3>2 DEF PipelineType
  <2>4. /\ pipelines' = [pipelines EXCEPT ![q] = next] /\ stored' = stored
        /\ graph' = graph \cup ((old.last + 1 .. old.end) \X {version})
        /\ graphState' = [graphState EXCEPT !.last = old.end]
    BY <1>6, <2>1, <2>2 DEF ApplyBatch, Facts
  <2>5. /\ graphState' \in [version : RuleVersions \cup {"none"}, last : 0 .. stored]
        /\ graphState'.version = version /\ graphState'.last = old.end
    BY <2>1, <2>4 DEF GraphInv, GraphTypeOK, PipelineType
  <2>6. old.last \in 0 .. stored /\ old.end \in 0 .. stored
    BY <2>1 DEF PipelineType
  <2>7. \A id \in 1 .. old.end : <<id, version>> \in graph'
    BY <2>1, <2>4, <2>6
  <2>8. graph' \subseteq (1 .. stored) \X RuleVersions
    <3>1. (old.last + 1 .. old.end) \subseteq 1 .. stored
      BY <2>6, <1>0
    <3>2. QED
      BY <3>1, <2>1, <2>4 DEF GraphInv, GraphTypeOK
  <2>9. GraphTypeOK'
    <3>1. pipelines' \in [Pipelines -> PipelineType']
      BY <2>3, <2>4 DEF GraphInv, GraphTypeOK, PipelineType
    <3>2. QED
      BY <3>1, <2>4, <2>5, <2>8 DEF GraphInv, GraphTypeOK, PipelineType
  <2>10. GraphCovers'
    BY <2>4, <2>5, <2>7 DEF GraphInv, GraphCovers
  <2>11. ASSUME NEW r \in Pipelines PROVE Backed(pipelines[r])'
    <3>1. pipelines'[r] = IF r = q THEN next ELSE pipelines[r]
      BY <2>4 DEF GraphInv, GraphTypeOK
    <3>2. graph \subseteq graph'
      BY <2>4
    <3>3. QED
      BY <3>1, <3>2, <2>1, <2>3, <2>5, <2>7, <1>0 DEF Backed
  <2>12. QED
    BY <2>1, <2>5, <2>9, <2>10, <2>11 DEF GraphInv, RuleVersions
<1>7. ASSUME NEW q \in Pipelines, StopPipeline(q) PROVE GraphInv'
  BY <1>7, RunEnds, RunMoves DEF StopPipeline
<1>8. CASE UNCHANGED graphVars
  BY <1>8 DEF graphVars, GraphInv, GraphTypeOK, GraphCovers, Backed, NoState
<1>9. QED
  BY <1>1, <1>2, <1>3, <1>4, <1>5, <1>6, <1>7, <1>8 DEF GraphNext

(***************************************************************************)
(* The schema inspection.  Whoever opened the artifact is the one that     *)
(* sends, and the plan's position, the GETs that left, the replies that    *)
(* were accepted and the manifest move together.                           *)
(***************************************************************************)
EntryList == Seq({"attempted", "verified"})

ArtifactType ==
    [kind : {"missing", "torn", "manifest"}, state : {"none", "started", "stopped", "complete"},
     requests : EntryList]

Storage == [made : BOOLEAN, boundary : {"sound", "exposed", "linked"}, artifact : ArtifactType]

AnyReply == {"none"} \cup UNION {Replies(k) : k \in Nat}

RunnerType ==
    [pc : {"new", "prepared", "signed_in", "checked", "opening", "sending", "recorded", "replied", "stopped"},
     request : 0 .. Budget + 1, entries : EntryList,
     reply : AnyReply]

InspectionTypes ==
    /\ mode \in {"full", "projects"}
    /\ storage \in Storage
    /\ runners \in [Executors -> RunnerType]
    /\ dispatched \in Seq(Nat)

Sends(next) == next.pc \in {"sending", "recorded", "replied"}

\* The executor that sends: its position, what left, what was accepted and what the
\* manifest says of it.
SenderExact(next) ==
    /\ next.request \in 1 .. Budget + 1
    /\ next.pc # "sending" => next.request <= Budget
    /\ Len(next.entries) = IF next.pc = "sending" THEN next.request - 1 ELSE next.request
    /\ Len(dispatched) = IF next.pc = "replied" THEN next.request ELSE next.request - 1
    /\ accepted = 1 .. next.request - 1
    /\ storage.artifact.kind = "manifest" /\ storage.artifact.state = "started"
    /\ Len(storage.artifact.requests) = Len(next.entries)

InspectionInv ==
    /\ InspectionTypes
    /\ storage.artifact.kind = "missing" => storage.artifact = Missing
    /\ storage.artifact = Missing => dispatched = <<>> /\ accepted = {}
    /\ \A e \in Executors : IF Sends(runners[e]) THEN SenderExact(runners[e])
                             ELSE runners[e].entries = <<>>
    /\ \A e, f \in Executors : Sends(runners[e]) /\ Sends(runners[f]) => e = f
    /\ InspectionAccounted

LEMMA BudgetType ==
  ASSUME mode \in {"full", "projects"} PROVE Budget \in Nat \ {0}
BY InspectionAssumption DEF Budget

LEMMA ArtifactShapes ==
  /\ Missing \in ArtifactType /\ Missing.kind = "missing" /\ Missing.state = "none"
  /\ Torn \in ArtifactType /\ Torn.kind = "torn" /\ Torn.state = "none"
  /\ \A state \in {"started", "stopped", "complete"}, entries \in EntryList :
        /\ Saved(state, entries) \in ArtifactType
        /\ Saved(state, entries).kind = "manifest"
        /\ Saved(state, entries).state = state
        /\ Saved(state, entries).requests = entries
BY DEF Missing, Torn, Saved, ArtifactType, EntryList

LEMMA HaltedRunner ==
  ASSUME mode \in {"full", "projects"}
  PROVE  /\ [NoRunner EXCEPT !.pc = "stopped"] \in RunnerType /\ NoRunner \in RunnerType
         /\ ~Sends(NoRunner) /\ ~Sends([NoRunner EXCEPT !.pc = "stopped"])
         /\ NoRunner.entries = <<>> /\ [NoRunner EXCEPT !.pc = "stopped"].entries = <<>>
<1>1. [NoRunner EXCEPT !.pc = "stopped"] =
        [pc |-> "stopped", request |-> 0, entries |-> <<>>, reply |-> "none"]
  BY DEF NoRunner
<1>2. 0 \in 0 .. Budget + 1 /\ <<>> \in EntryList
  BY BudgetType DEF EntryList
<1>3. QED
  BY <1>1, <1>2 DEF NoRunner, RunnerType, AnyReply, Sends

LEMMA InspectionInitInv == InspectionInit => InspectionInv
<1> SUFFICES ASSUME InspectionInit PROVE InspectionInv
  OBVIOUS
<1> USE DEF InspectionInit
<1>1. \A e \in Executors : runners[e] = NoRunner
  OBVIOUS
<1>2. InspectionTypes
  BY HaltedRunner, ArtifactShapes DEF InspectionTypes, Storage
<1>3. storage.artifact = Missing /\ dispatched = <<>>
  OBVIOUS
<1>4. InspectionAccounted
  BY <1>3, ArtifactShapes DEF InspectionAccounted
<1>5. QED
  BY <1>1, <1>2, <1>3, <1>4, HaltedRunner DEF InspectionInv

\* An executor that does not send, or no longer sends: the artifact stays, or is written
\* by the sender or over nothing, and still names what left.
LEMMA NotSending ==
  ASSUME InspectionInv, NEW e \in Executors, NEW next \in RunnerType, ~Sends(next), next.entries = <<>>,
         runners' = [runners EXCEPT ![e] = next],
         storage' \in Storage,
         UNCHANGED <<mode, dispatched, accepted>>,
         \/ storage'.artifact = storage.artifact
         \/ /\ Sends(runners[e]) \/ storage.artifact = Missing
            /\ storage'.artifact.kind # "missing"
            /\ storage'.artifact.kind = "manifest" =>
                    Len(storage'.artifact.requests) >= Len(dispatched)
            /\ storage'.artifact.state = "complete" => accepted = 1 .. Budget
  PROVE  InspectionInv'
<1>0. /\ Budget' = Budget /\ dispatched' = dispatched /\ accepted' = accepted
      /\ RunnerType' = RunnerType
  BY DEF Budget, RunnerType
<1>1. InspectionTypes'
  BY <1>0 DEF InspectionInv, InspectionTypes
<1>2. \A f \in Executors : runners'[f] = IF f = e THEN next ELSE runners[f]
  BY DEF InspectionInv, InspectionTypes
<1>3. CASE storage'.artifact = storage.artifact
  <2>1. InspectionAccounted'
    BY <1>0, <1>3 DEF InspectionInv, InspectionAccounted, Missing
  <2>2. \A f \in Executors : IF Sends(runners'[f]) THEN SenderExact(runners[f])' /\ Sends(runners[f])
                             ELSE runners'[f].entries = <<>>
    BY <1>0, <1>2, <1>3 DEF InspectionInv, SenderExact, Sends
  <2>3. QED
    BY <1>0, <1>1, <1>2, <1>3, <2>1, <2>2 DEF InspectionInv, Missing, Sends
<1>4. CASE storage'.artifact # storage.artifact
  <2>1. storage'.artifact.kind # "missing" /\ storage'.artifact # Missing
    BY <1>4, ArtifactShapes
  <2>2. \A f \in Executors : ~Sends(runners'[f]) /\ runners'[f].entries = <<>>
    <3>1. CASE Sends(runners[e])
      BY <3>1, <1>2 DEF InspectionInv, Sends
    <3>2. CASE storage.artifact = Missing
      <4>1. \A f \in Executors : ~Sends(runners[f])
        BY <3>2, ArtifactShapes DEF InspectionInv, SenderExact
      <4>2. QED
        BY <4>1, <1>2 DEF InspectionInv
    <3>3. QED
      BY <3>1, <3>2, <1>4
  <2>3. InspectionAccounted'
    BY <1>0, <1>4, <2>1 DEF InspectionInv, InspectionAccounted, Missing
  <2>4. QED
    BY <1>1, <2>1, <2>2, <2>3 DEF InspectionInv, Sends, Missing
<1>5. QED
  BY <1>3, <1>4

\* The sender takes its next step.
LEMMA SenderMoves ==
  ASSUME InspectionInv, NEW e \in Executors, NEW next \in RunnerType,
         runners' = [runners EXCEPT ![e] = next],
         mode' = mode, dispatched' \in Seq(Nat),
         storage' \in Storage,
         Sends(runners[e]) \/ storage.artifact = Missing,
         Sends(next), SenderExact(next)',
         \A i \in DOMAIN dispatched' :
            dispatched'[i] = i /\ i <= Budget /\ (i < Len(dispatched') => i \in accepted')
  PROVE  InspectionInv'
<1>0. Budget' = Budget /\ RunnerType' = RunnerType
  BY DEF Budget, RunnerType
<1>1. InspectionTypes'
  BY <1>0 DEF InspectionInv, InspectionTypes
<1>2. \A f \in Executors : runners'[f] = IF f = e THEN next ELSE runners[f]
  BY DEF InspectionInv, InspectionTypes
<1>3. \A f \in Executors : f # e => ~Sends(runners[f]) /\ runners[f].entries = <<>>
  BY ArtifactShapes DEF InspectionInv, SenderExact
<1>4. /\ storage'.artifact.kind = "manifest" /\ storage'.artifact.state = "started"
      /\ Len(storage'.artifact.requests) = Len(next.entries)
      /\ storage'.artifact # Missing
  BY ArtifactShapes DEF SenderExact
<1>5. Len(next.entries) >= Len(dispatched')
  <2>1. next.request \in Nat
    BY DEF RunnerType
  <2>2. QED
    BY <2>1 DEF SenderExact, Sends
<1>6. InspectionAccounted'
  BY <1>0, <1>4, <1>5 DEF InspectionAccounted, Missing
<1>7. \A f \in Executors : IF Sends(runners[f])' THEN f = e /\ SenderExact(runners[f])'
                           ELSE runners'[f].entries = <<>>
  BY <1>2, <1>3 DEF Sends, SenderExact
<1>8. QED
  BY <1>1, <1>4, <1>6, <1>7 DEF InspectionInv, Missing, Sends

\* The step of one executor that halts.
LEMMA Halted ==
  ASSUME InspectionInv, NEW e \in Executors, Halt(e), UNCHANGED <<mode, dispatched, accepted>>,
         storage' \in Storage,
         \/ storage'.artifact = storage.artifact
         \/ /\ Sends(runners[e]) \/ storage.artifact = Missing
            /\ storage'.artifact.kind # "missing"
            /\ storage'.artifact.kind = "manifest" =>
                    Len(storage'.artifact.requests) >= Len(dispatched)
            /\ storage'.artifact.state = "complete" => accepted = 1 .. Budget
  PROVE  InspectionInv'
BY HaltedRunner, NotSending DEF InspectionInv, InspectionTypes, Halt

\* A step that only moves an executor that has not opened the artifact.
LEMMA Approaches ==
  ASSUME InspectionInv, NEW e \in Executors, NEW pc \in {"prepared", "signed_in", "checked", "opening"},
         ~Sends(runners[e]), runners' = [runners EXCEPT ![e].pc = pc],
         storage' \in Storage,
         storage'.artifact = storage.artifact, UNCHANGED <<mode, dispatched, accepted>>
  PROVE  InspectionInv'
<1>1. runners[e] \in RunnerType
  BY DEF InspectionInv, InspectionTypes
<1>2. PICK next : next = [runners[e] EXCEPT !.pc = pc]
  OBVIOUS
<1>3. next \in RunnerType /\ ~Sends(next) /\ next.entries = <<>>
  BY <1>1, <1>2 DEF RunnerType, Sends, InspectionInv
<1>4. runners' = [runners EXCEPT ![e] = next]
  BY <1>2
<1>5. QED
  BY <1>3, <1>4, NotSending

LEMMA InspectionStep == InspectionInv /\ [InspectionNext]_inspectionVars => InspectionInv'
<1> SUFFICES ASSUME InspectionInv, [InspectionNext]_inspectionVars PROVE InspectionInv'
  OBVIOUS
<1>0. /\ storage \in Storage /\ Budget \in Nat \ {0} /\ dispatched \in Seq(Nat)
      /\ \A e \in Executors :
            /\ runners[e] \in RunnerType
            /\ runners[e].request \in Nat /\ runners[e].entries \in EntryList
            /\ IF Sends(runners[e]) THEN SenderExact(runners[e]) ELSE runners[e].entries = <<>>
  BY BudgetType DEF InspectionInv, InspectionTypes, RunnerType
<1>a. \A artifact \in ArtifactType :
        /\ [storage EXCEPT !.artifact = artifact] \in Storage
        /\ [storage EXCEPT !.artifact = artifact].artifact = artifact
  BY <1>0 DEF Storage
<1>1. ASSUME NEW e \in Executors, PrepareRun(e) PROVE InspectionInv'
  <2>1. storage' \in Storage /\ storage'.artifact = storage.artifact
    BY <1>0, <1>1 DEF PrepareRun, Storage
  <2>2. QED
    BY <1>1, <2>1, Approaches DEF PrepareRun, Sends
<1>2. ASSUME NEW e \in Executors, NEW signIn \in SignIns, Authenticate(e, signIn)
      PROVE InspectionInv'
  BY <1>0, <1>2, Approaches, Halted DEF Authenticate, Sends
<1>3. ASSUME NEW e \in Executors, RecheckStorage(e) PROVE InspectionInv'
  BY <1>0, <1>3, Approaches, Halted DEF RecheckStorage, Sends
<1>4. ASSUME NEW e \in Executors, SecondExecutor(e) PROVE InspectionInv'
  BY <1>0, <1>4, Approaches DEF SecondExecutor, Sends
<1>5. ASSUME NEW e \in Executors, OpenArtifact(e) PROVE InspectionInv'
  <2>1. CASE storage.artifact # Missing
    BY <1>0, <1>5, <2>1, Halted DEF OpenArtifact
  <2>2. CASE storage.artifact = Missing
    <3>1. PICK next : next = [runners[e] EXCEPT !.pc = "sending", !.request = 1]
      OBVIOUS
    <3>2. /\ next \in RunnerType /\ next.pc = "sending" /\ next.request = 1
          /\ next.entries = runners[e].entries
      <4>1. 1 \in 0 .. Budget + 1
        BY <1>0
      <4>2. QED
        BY <1>0, <3>1, <4>1 DEF RunnerType
    <3>3. runners' = [runners EXCEPT ![e] = next] /\ UNCHANGED <<mode, dispatched, accepted>>
      BY <1>5, <2>2, <3>1 DEF OpenArtifact
    <3>4. <<>> \in EntryList
      BY DEF EntryList
    <3>5. /\ storage' \in Storage /\ storage'.artifact.kind = "manifest"
          /\ storage'.artifact.state = "started" /\ storage'.artifact.requests = <<>>
      <4>1. storage' = [storage EXCEPT !.artifact = Saved("started", <<>>)]
        BY <1>5, <2>2 DEF OpenArtifact
      <4>2. QED
        BY <1>a, <3>4, <4>1, ArtifactShapes
    <3>6. dispatched = <<>> /\ accepted = {}
      BY <2>2 DEF InspectionInv
    <3>7. next.entries = <<>>
      BY <1>0, <1>5, <3>2 DEF OpenArtifact, Sends
    <3>8. SenderExact(next)'
      <4>1. Budget' = Budget
        BY <3>3 DEF Budget
      <4>2. next.request \in 1 .. Budget + 1 /\ next.request - 1 = 0 /\ 1 .. next.request - 1 = {}
        BY <3>2, <1>0
      <4>3. Len(next.entries) = 0 /\ Len(dispatched') = 0 /\ accepted' = {}
            /\ Len(storage'.artifact.requests) = 0
        BY <3>3, <3>5, <3>6, <3>7
      <4>4. QED
        BY <3>2, <3>5, <4>1, <4>2, <4>3 DEF SenderExact
    <3>9. \A i \in DOMAIN dispatched' :
            dispatched'[i] = i /\ i <= Budget /\ (i < Len(dispatched') => i \in accepted')
      BY <3>3, <3>6
    <3>10. Sends(next) /\ dispatched' \in Seq(Nat) /\ mode' = mode
      BY <1>0, <3>2, <3>3 DEF Sends
    <3>11. QED
      BY <2>2, <3>2, <3>3, <3>5, <3>8, <3>9, <3>10, SenderMoves
  <2>3. QED
    BY <2>1, <2>2
<1>6. ASSUME NEW e \in Executors, RecordAttempt(e) PROVE InspectionInv'
  <2> DEFINE old == runners[e]
  <2>1. PICK entries : entries = Append(old.entries, "attempted")
    OBVIOUS
  <2>2. entries \in EntryList /\ Len(entries) = Len(old.entries) + 1
    BY <1>0, <2>1 DEF EntryList
  <2>3. PICK next : next = [old EXCEPT !.pc = "recorded", !.entries = entries]
    OBVIOUS
  <2>4. /\ next \in RunnerType /\ next.pc = "recorded" /\ next.request = old.request
        /\ next.entries = entries
    BY <1>0, <2>2, <2>3 DEF RunnerType
  <2>5. /\ runners' = [runners EXCEPT ![e] = next] /\ UNCHANGED <<mode, dispatched, accepted>>
        /\ storage' = [storage EXCEPT !.artifact = Saved("started", entries)]
        /\ old.pc = "sending" /\ old.request <= Budget
    BY <1>6, <2>1, <2>3 DEF RecordAttempt
  <2>6. /\ storage' \in Storage /\ storage'.artifact.kind = "manifest"
        /\ storage'.artifact.state = "started" /\ storage'.artifact.requests = entries
    BY <2>2, <2>5, <1>a, ArtifactShapes
  <2>7. Sends(old) /\ SenderExact(old)
    BY <1>0, <2>5 DEF Sends
  <2>8. SenderExact(next)'
    BY <1>0, <2>2, <2>4, <2>5, <2>6, <2>7 DEF SenderExact, Budget
  <2>9. \A i \in DOMAIN dispatched' :
            dispatched'[i] = i /\ i <= Budget /\ (i < Len(dispatched') => i \in accepted')
    BY <2>5 DEF InspectionInv, InspectionAccounted
  <2>10. QED
    BY <1>0, <2>4, <2>5, <2>6, <2>7, <2>8, <2>9, SenderMoves DEF Sends
<1>7. ASSUME NEW e \in Executors, NEW reply \in Replies(runners[e].request), Dispatch(e, reply)
      PROVE InspectionInv'
  <2> DEFINE old == runners[e]
  <2>1. PICK next : next = [old EXCEPT !.pc = "replied", !.reply = reply]
    OBVIOUS
  <2>2. reply \in AnyReply
    BY <1>0 DEF AnyReply
  <2>3. /\ next \in RunnerType /\ next.pc = "replied" /\ next.request = old.request
        /\ next.entries = old.entries
    BY <1>0, <2>1, <2>2 DEF RunnerType
  <2>4. /\ runners' = [runners EXCEPT ![e] = next] /\ UNCHANGED <<mode, storage, accepted>>
        /\ dispatched' = Append(dispatched, old.request)
        /\ old.pc = "recorded"
    BY <1>7, <2>1 DEF Dispatch
  <2>5. Sends(old) /\ SenderExact(old)
    BY <1>0, <2>4 DEF Sends
  <2>6. dispatched' \in Seq(Nat) /\ Len(dispatched') = Len(dispatched) + 1
    BY <1>0, <2>4
  <2>7. SenderExact(next)'
    BY <1>0, <2>3, <2>4, <2>5, <2>6 DEF SenderExact, Budget
  <2>8. ASSUME NEW i \in DOMAIN dispatched'
        PROVE dispatched'[i] = i /\ i <= Budget /\ (i < Len(dispatched') => i \in accepted')
    <3>1. i \in 1 .. old.request /\ Len(dispatched) = old.request - 1 /\ old.request <= Budget
          /\ Len(dispatched') = old.request /\ accepted' = 1 .. old.request - 1
      BY <1>0, <2>4, <2>5, <2>6 DEF SenderExact
    <3>2. dispatched'[i] = IF i = old.request THEN old.request ELSE dispatched[i]
      BY <1>0, <2>4, <3>1
    <3>3. i # old.request => dispatched[i] = i
      BY <1>0, <3>1 DEF InspectionInv, InspectionAccounted
    <3>4. QED
      BY <1>0, <3>1, <3>2, <3>3
  <2>9. QED
    BY <1>0, <2>3, <2>4, <2>5, <2>6, <2>7, <2>8, SenderMoves DEF Sends
<1>8. ASSUME NEW e \in Executors, AcceptReply(e) PROVE InspectionInv'
  <2> DEFINE old == runners[e]
  <2>1. PICK entries : entries = [old.entries EXCEPT ![Len(old.entries)] = "verified"]
    OBVIOUS
  <2>2. entries \in EntryList /\ Len(entries) = Len(old.entries)
    <3>1. Len(old.entries) \in 1 .. Len(old.entries)
      BY <1>0, <1>8 DEF AcceptReply, Sends, SenderExact, EntryList
    <3>2. QED
      BY <1>0, <2>1, <3>1, ExceptSeq DEF EntryList
  <2>3. PICK next : next = [old EXCEPT !.pc = "sending", !.request = @ + 1, !.entries = entries]
    OBVIOUS
  <2>4. /\ runners' = [runners EXCEPT ![e] = next] /\ UNCHANGED <<mode, storage, dispatched>>
        /\ accepted' = accepted \cup {old.request}
        /\ old.pc = "replied"
    BY <1>8, <2>1, <2>3 DEF AcceptReply
  <2>5. Sends(old) /\ SenderExact(old)
    BY <1>0, <2>4 DEF Sends
  <2>6. old.request + 1 \in 0 .. Budget + 1
    BY <1>0, <2>4, <2>5, SMTT(40) DEF SenderExact
  <2>7. /\ next \in RunnerType /\ next.pc = "sending" /\ next.request = old.request + 1
        /\ next.entries = entries
    BY <1>0, <2>2, <2>3, <2>6 DEF RunnerType
  <2>8. accepted' = 1 .. old.request
    BY <1>0, <2>4, <2>5 DEF SenderExact
  <2>9. SenderExact(next)'
    BY <1>0, <2>2, <2>4, <2>5, <2>7, <2>8, SMTT(40) DEF SenderExact, Budget
  <2>10. \A i \in DOMAIN dispatched' :
            dispatched'[i] = i /\ i <= Budget /\ (i < Len(dispatched') => i \in accepted')
    BY <2>4 DEF InspectionInv, InspectionAccounted
  <2>11. QED
    BY <1>0, <2>4, <2>5, <2>7, <2>9, <2>10, SenderMoves DEF Sends
<1>9. ASSUME NEW e \in Executors, RefuseReply(e) PROVE InspectionInv'
  <2> DEFINE old == runners[e]
  <2>1. /\ old.pc = "replied" /\ Halt(e) /\ UNCHANGED <<mode, dispatched, accepted>>
        /\ storage' = [storage EXCEPT !.artifact = Saved("stopped", old.entries)]
    BY <1>9 DEF RefuseReply
  <2>2. Sends(old) /\ SenderExact(old)
    BY <1>0, <2>1 DEF Sends
  <2>3. /\ storage' \in Storage /\ storage'.artifact.kind = "manifest"
        /\ storage'.artifact.state = "stopped" /\ storage'.artifact.requests = old.entries
    BY <1>0, <1>a, <2>1, ArtifactShapes
  <2>4. Len(old.entries) >= Len(dispatched)
    BY <1>0, <2>1, <2>2 DEF SenderExact
  <2>5. QED
    BY <2>1, <2>2, <2>3, <2>4, Halted
<1>10. ASSUME NEW e \in Executors, CompleteRun(e) PROVE InspectionInv'
  <2> DEFINE old == runners[e]
  <2>1. /\ old.pc = "sending" /\ Halt(e) /\ UNCHANGED <<mode, dispatched, accepted>>
        /\ storage' = [storage EXCEPT !.artifact = Saved("complete", old.entries)]
        /\ old.request > Budget
    BY <1>10 DEF CompleteRun
  <2>2. Sends(old) /\ SenderExact(old)
    BY <1>0, <2>1 DEF Sends
  <2>3. /\ storage' \in Storage /\ storage'.artifact.kind = "manifest"
        /\ storage'.artifact.state = "complete" /\ storage'.artifact.requests = old.entries
    BY <1>0, <1>a, <2>1, ArtifactShapes
  <2>4. old.request = Budget + 1 /\ accepted = 1 .. Budget /\ Len(old.entries) >= Len(dispatched)
    BY <1>0, <2>1, <2>2 DEF SenderExact
  <2>5. QED
    BY <2>1, <2>2, <2>3, <2>4, Halted
<1>11. ASSUME NEW e \in Executors, NEW tearing \in BOOLEAN, DieInspecting(e, tearing)
       PROVE InspectionInv'
  <2>1. CASE tearing
    <3>1. Halt(e) /\ UNCHANGED <<mode, dispatched, accepted>>
          /\ storage' = [storage EXCEPT !.artifact = Torn]
          /\ (Sends(runners[e]) \/ storage.artifact = Missing)
      BY <1>11, <2>1 DEF DieInspecting, Sends
    <3>2. storage' \in Storage /\ storage'.artifact = Torn
      BY <1>a, <3>1, ArtifactShapes
    <3>3. QED
      BY <3>1, <3>2, ArtifactShapes, Halted
  <2>2. CASE ~tearing
    <3>1. Halt(e) /\ UNCHANGED <<mode, storage, dispatched, accepted>>
      BY <1>11, <2>2 DEF DieInspecting
    <3>2. QED
      BY <1>0, <3>1, Halted
  <2>3. QED
    BY <2>1, <2>2
<1>12. ASSUME NEW boundary \in {"exposed", "linked"}, LoseProtection(boundary) PROVE InspectionInv'
  <2>1. /\ storage' \in Storage /\ storage'.artifact = storage.artifact
        /\ UNCHANGED <<mode, runners, dispatched, accepted>>
    BY <1>0, <1>12 DEF LoseProtection, Storage
  <2>2. Budget' = Budget /\ RunnerType' = RunnerType
    BY <2>1 DEF Budget, RunnerType
  <2>3. InspectionAccounted'
    BY <2>1, <2>2 DEF InspectionInv, InspectionAccounted, Missing
  <2>4. \A e \in Executors : IF Sends(runners[e])' THEN SenderExact(runners[e])'
                              ELSE runners'[e].entries = <<>>
    BY <2>1, <2>2 DEF InspectionInv, SenderExact, Sends
  <2>5. QED
    BY <2>1, <2>2, <2>3, <2>4 DEF InspectionInv, InspectionTypes, Missing, Sends
<1>13. CASE UNCHANGED inspectionVars
  BY <1>13 DEF inspectionVars, InspectionInv, InspectionTypes, InspectionAccounted, SenderExact,
               Sends, Missing, Budget, RunnerType
<1>14. ASSUME NEW e \in Executors, EnterRun(e) PROVE InspectionInv'
  BY <1>0, <1>14, Approaches, Halted DEF EnterRun, Sends
<1>15. ASSUME NEW e \in Executors, SendFails(e) PROVE InspectionInv'
  <2> DEFINE old == runners[e]
  <2>1. /\ old.pc = "recorded" /\ Halt(e) /\ UNCHANGED <<mode, dispatched, accepted>>
        /\ storage' = [storage EXCEPT !.artifact = Saved("stopped", old.entries)]
    BY <1>15 DEF SendFails
  <2>2. Sends(old) /\ SenderExact(old)
    BY <1>0, <2>1 DEF Sends
  <2>3. /\ storage' \in Storage /\ storage'.artifact.kind = "manifest"
        /\ storage'.artifact.state = "stopped" /\ storage'.artifact.requests = old.entries
    BY <1>0, <1>a, <2>1, ArtifactShapes
  <2>4. Len(old.entries) >= Len(dispatched)
    BY <1>0, <2>1, <2>2 DEF SenderExact
  <2>5. QED
    BY <2>1, <2>2, <2>3, <2>4, Halted
<1>16. QED
  BY <1>1, <1>2, <1>3, <1>4, <1>5, <1>6, <1>7, <1>8, <1>9, <1>10, <1>11, <1>12, <1>13, <1>14, <1>15
     DEF InspectionNext

(***************************************************************************)
(* Backups.  Whoever made a directory is the one that fills it, and what   *)
(* it has recorded is what is there until the manifest is published.       *)
(***************************************************************************)
FileVersions == 0 .. MaxWrites
BackupContent ==
    [kind : {"plain", "sqlite", "damaged", "missing"}, head : FileVersions, rest : FileVersions]

FileKinds == [kind : {"plain", "sqlite"}, version : FileVersions]

LEMMA NoVersion == 0 \in FileVersions
BY BackupAssumption DEF FileVersions

FileContents == [BackupItems -> BackupContent]

DirType == [exists : BOOLEAN, files : FileContents, manifest : FileContents]

BackupProc ==
    [pc : {"idle", "mkdir", "remkdir", "copying", "copying_rest", "restoring", "checking",
           "publishing", "verifying"},
     snapshot : [BackupItems -> BOOLEAN], to : Destinations, at : 1 .. 3,
     header : FileKinds, manifest : FileContents]

\* A copied file: plain, or one version of a database.
WholeCopy(content) ==
    /\ content.kind \in {"plain", "sqlite"}
    /\ content.kind = "sqlite" => content.head = content.rest

Filling(proc) ==
    proc.pc \in {"copying", "copying_rest", "restoring", "checking", "publishing"}

Reading(proc) == proc.pc \in {"verifying", "remkdir"}

\* A directory being filled: its files up to the process's position are those recorded.
FilledUpTo(proc) ==
    /\ dirs[proc.to].exists /\ dirs[proc.to].manifest = NoManifest
    /\ proc.pc = "publishing" <=> proc.at = 3
    /\ \A c \in BackupItems : c < proc.at =>
            dirs[proc.to].files[c] = proc.manifest[c] /\ WholeCopy(proc.manifest[c])
    /\ proc.pc \in {"copying", "copying_rest"} => proc.to = "backup"
    /\ proc.pc = "copying_rest" => proc.header.kind = "plain"
    /\ proc.pc \in {"restoring", "checking"} => proc.to = "restored"
    /\ proc.to = "restored" =>
            proc.manifest = dirs["backup"].manifest /\ proc.manifest # NoManifest

ProcFits(proc) ==
    /\ proc.pc # "publishing" => proc.at \in BackupItems
    /\ proc.pc = "mkdir" => proc.to = "backup"
    /\ Reading(proc) => /\ proc.to = "restored" /\ proc.manifest = dirs["backup"].manifest
                        /\ proc.manifest # NoManifest
    /\ Filling(proc) => FilledUpTo(proc)

BackupTypes ==
    /\ live \in [BackupItems -> FileKinds]
    /\ dirs \in [Destinations -> DirType]
    /\ backupProcs \in [BackupProcesses -> BackupProc]

BackupInv ==
    /\ BackupTypes
    /\ \A p \in BackupProcesses : ProcFits(backupProcs[p])
    /\ \A p, q \in BackupProcesses :
        Filling(backupProcs[p]) /\ Filling(backupProcs[q])
            /\ backupProcs[p].to = backupProcs[q].to => p = q
    /\ \A d \in Destinations : ~dirs[d].exists => dirs[d].manifest = NoManifest
    /\ ManifestWhole

LEMMA ItemsCount == Cardinality(BackupItems) = 2
<1>1. 1 \in Int /\ 2 \in Int
  OBVIOUS
<1>2. Cardinality(1 .. 2) = IF 1 > 2 THEN 0 ELSE 2 - 1 + 1
  BY <1>1, FS_Interval, Zenon
<1>3. QED
  BY <1>2 DEF BackupItems

LEMMA NoFilesShape ==
  /\ NoFiles \in FileContents /\ NoManifest = NoFiles
  /\ NoContent \in BackupContent /\ Damaged \in BackupContent
  /\ NoContent.kind = "missing" /\ Damaged.kind = "damaged"
  /\ \A c \in BackupItems : NoManifest[c].kind = "missing"
BY NoVersion DEF NoFiles, NoManifest, NoContent, Damaged, Content, FileContents, BackupContent

LEMMA IdleFits ==
  /\ IdleProc \in BackupProc /\ ~Filling(IdleProc) /\ ProcFits(IdleProc)
  /\ IdleProc.pc = "idle" /\ IdleProc.at = 1 /\ IdleProc.to = "backup"
<1>1. [kind |-> "plain", version |-> 0] \in FileKinds
  BY NoVersion DEF FileKinds
<1>2. [c \in BackupItems |-> FALSE] \in [BackupItems -> BOOLEAN]
  OBVIOUS
<1>3. 1 \in BackupItems
  BY DEF BackupItems
<1>4. QED
  BY <1>1, <1>2, <1>3, NoFilesShape
     DEF IdleProc, BackupProc, Filling, ProcFits, Reading, Destinations

LEMMA BackupInitInv == BackupInit => BackupInv
<1> SUFFICES ASSUME BackupInit PROVE BackupInv
  OBVIOUS
<1> USE DEF BackupInit
<1>1. live \in [BackupItems -> FileKinds]
  BY NoVersion DEF FileKinds
<1>2. NoDir \in DirType /\ ~NoDir.exists /\ NoDir.manifest = NoManifest
  BY NoFilesShape DEF NoDir, DirType
<1>3. \A d \in Destinations : dirs[d] = NoDir
  OBVIOUS
<1>4. \A p \in BackupProcesses : backupProcs[p] = IdleProc
  OBVIOUS
<1>5. BackupTypes
  BY <1>1, <1>2, IdleFits DEF BackupTypes
<1>6. ManifestWhole
  BY <1>2, <1>3 DEF ManifestWhole, Destinations
<1>7. QED
  BY <1>2, <1>3, <1>4, <1>5, <1>6, IdleFits DEF BackupInv

\* A step of one process that leaves the directories alone.
LEMMA ProcMoves ==
  ASSUME BackupInv, NEW p \in BackupProcesses, NEW next \in BackupProc, ProcFits(next),
         Filling(next) => Filling(backupProcs[p]) /\ next.to = backupProcs[p].to,
         backupProcs' = [backupProcs EXCEPT ![p] = next], UNCHANGED <<live, dirs>>
  PROVE  BackupInv'
<1>1. BackupTypes'
  BY DEF BackupInv, BackupTypes
<1>2. \A q \in BackupProcesses : backupProcs'[q] = IF q = p THEN next ELSE backupProcs[q]
  BY DEF BackupInv, BackupTypes
<1>3. \A q \in BackupProcesses : ProcFits(backupProcs[q])'
  BY <1>2 DEF BackupInv, ProcFits, Filling, Reading, FilledUpTo
<1>4. \A q, r \in BackupProcesses :
        (Filling(backupProcs[q]) /\ Filling(backupProcs[r])
            /\ backupProcs[q].to = backupProcs[r].to => q = r)'
  BY <1>2 DEF BackupInv, Filling
<1>5. ManifestWhole'
  BY DEF BackupInv, ManifestWhole
<1>6. QED
  BY <1>1, <1>3, <1>4, <1>5 DEF BackupInv

LEMMA Abandons ==
  ASSUME BackupInv, NEW p \in BackupProcesses, Abandon(p), UNCHANGED <<live, dirs>>
  PROVE  BackupInv'
BY IdleFits, ProcMoves DEF Abandon, Step

\* What ManifestWhole says of one directory.
WholeDir(d, dir) ==
    dir.manifest # NoManifest =>
        \A c \in BackupItems :
            /\ WholeCopy(dir.manifest[c])
            /\ dir.files[c] \in {dir.manifest[c]} \cup
                 (IF d = "backup" THEN {Damaged, NoContent} ELSE {})

LEMMA WholeDirs ==
  ManifestWhole <=> /\ \A d \in Destinations : WholeDir(d, dirs[d])
                    /\ dirs["restored"].manifest \in {NoManifest, dirs["backup"].manifest}
BY DEF ManifestWhole, WholeDir, WholeCopy

LEMMA WholeDirsNext ==
  ASSUME \A d \in Destinations : WholeDir(d, dirs'[d]),
         dirs'["restored"].manifest \in {NoManifest, dirs'["backup"].manifest}
  PROVE  ManifestWhole'
BY DEF ManifestWhole, WholeDir, WholeCopy

\* Filling one directory leaves alone what the other processes know.
LEMMA OthersKept ==
  ASSUME BackupInv, NEW p \in BackupProcesses, NEW next \in BackupProc, NEW to \in Destinations,
         backupProcs' = [backupProcs EXCEPT ![p] = next], live' = live,
         dirs' \in [Destinations -> DirType],
         \A d \in Destinations : d # to => dirs'[d] = dirs[d],
         dirs["backup"].manifest = dirs'["backup"].manifest,
         \A q \in BackupProcesses \ {p} :
            Filling(backupProcs[q]) => backupProcs[q].to # to,
         Filling(next) => next.to = to,
         ProcFits(next)'
  PROVE  /\ BackupTypes'
         /\ \A q \in BackupProcesses : ProcFits(backupProcs[q])'
         /\ \A q, r \in BackupProcesses :
              (Filling(backupProcs[q]) /\ Filling(backupProcs[r])
                  /\ backupProcs[q].to = backupProcs[r].to => q = r)'
<1>1. BackupTypes'
  BY DEF BackupInv, BackupTypes
<1>2. \A q \in BackupProcesses : backupProcs'[q] = IF q = p THEN next ELSE backupProcs[q]
  BY DEF BackupInv, BackupTypes
<1>3. \A q \in BackupProcesses : backupProcs[q].to \in Destinations
  BY DEF BackupInv, BackupTypes, BackupProc
<1>4. ASSUME NEW q \in BackupProcesses PROVE ProcFits(backupProcs[q])'
  <2>1. CASE q = p
    BY <2>1, <1>2 DEF ProcFits, Filling, Reading, FilledUpTo
  <2>2. CASE q # p
    <3>1. ProcFits(backupProcs[q]) /\ backupProcs'[q] = backupProcs[q]
      BY <2>2, <1>2 DEF BackupInv
    <3>2. Filling(backupProcs[q]) => dirs'[backupProcs[q].to] = dirs[backupProcs[q].to]
      BY <2>2, <1>3
    <3>3. QED
      BY <3>1, <3>2 DEF ProcFits, Filling, Reading, FilledUpTo
  <2>3. QED
    BY <2>1, <2>2
<1>5. \A q, r \in BackupProcesses :
        (Filling(backupProcs[q]) /\ Filling(backupProcs[r])
            /\ backupProcs[q].to = backupProcs[r].to => q = r)'
  BY <1>2 DEF BackupInv, Filling
<1>6. QED
  BY <1>1, <1>4, <1>5

\* A process puts a file into the directory that it fills.
LEMMA FileWritten ==
  ASSUME BackupInv, NEW p \in BackupProcesses, NEW next \in BackupProc,
         NEW to, to = backupProcs[p].to, Filling(backupProcs[p]),
         NEW dir \in DirType, dir.exists, dir.manifest = dirs[to].manifest,
         dirs' = [dirs EXCEPT ![to] = dir],
         backupProcs' = [backupProcs EXCEPT ![p] = next], live' = live,
         Filling(next), next.to = to,
         ProcFits(next)'
  PROVE  BackupInv'
<1>1. /\ to \in Destinations /\ dirs[to].exists /\ dirs[to].manifest = NoManifest
  BY DEF BackupInv, BackupTypes, BackupProc, ProcFits, FilledUpTo
<1>3. dir \in DirType /\ dir.exists = dirs[to].exists /\ dir.manifest = dirs[to].manifest
  BY <1>1 DEF BackupInv, BackupTypes, DirType
<1>4. dirs' = [dirs EXCEPT ![to] = dir]
  OBVIOUS
<1>5. \A d \in Destinations : dirs'[d] = IF d = to THEN dir ELSE dirs[d]
  BY <1>4 DEF BackupInv, BackupTypes
<1>6. dirs' \in [Destinations -> DirType]
  BY <1>1, <1>3, <1>4 DEF BackupInv, BackupTypes
<1>7. dirs["backup"].manifest = dirs'["backup"].manifest
  BY <1>1, <1>3, <1>5 DEF Destinations
<1>8. \A q \in BackupProcesses \ {p} : Filling(backupProcs[q]) => backupProcs[q].to # to
  BY DEF BackupInv
<1>9. /\ BackupTypes' /\ \A q \in BackupProcesses : ProcFits(backupProcs[q])'
      /\ \A q, r \in BackupProcesses :
            (Filling(backupProcs[q]) /\ Filling(backupProcs[r])
                /\ backupProcs[q].to = backupProcs[r].to => q = r)'
  BY <1>1, <1>5, <1>6, <1>7, <1>8, OthersKept, ZenonT(60)
<1>10. ManifestWhole'
  <2>1. \A d \in Destinations : dirs'[d].manifest # NoManifest => dirs'[d] = dirs[d]
    BY <1>1, <1>3, <1>5
  <2>2. dirs'["restored"].manifest = dirs["restored"].manifest
    BY <1>1, <1>3, <1>5 DEF Destinations
  <2>3. \A d \in Destinations : dirs'[d].manifest # NoManifest => dirs[d].manifest # NoManifest
    BY <2>1
  <2>4. dirs'["restored"].manifest \in {NoManifest, dirs'["backup"].manifest}
    BY <1>7, <2>2 DEF BackupInv, ManifestWhole
  <2>5. \A d \in Destinations : WholeDir(d, dirs'[d])
    BY <2>1, WholeDirs DEF WholeDir, BackupInv
  <2>6. QED
    BY <2>4, <2>5, WholeDirsNext
<1>11. \A d \in Destinations : ~dirs'[d].exists => dirs'[d].manifest = NoManifest
  BY <1>1, <1>3, <1>5 DEF BackupInv
<1>12. QED
  BY <1>9, <1>10, <1>11 DEF BackupInv, NoManifest

\* The record of a copied file in memory.
LEMMA RecordedShape ==
  ASSUME NEW proc \in BackupProc, NEW content \in BackupContent, proc.at \in BackupItems
  PROVE  /\ Recorded(proc, content) \in BackupProc
         /\ Recorded(proc, content).to = proc.to
         /\ Recorded(proc, content).at = proc.at + 1
         /\ Recorded(proc, content).pc = IF proc.at = 2 THEN "publishing" ELSE "copying"
         /\ \A c \in BackupItems :
                Recorded(proc, content).manifest[c] = IF c = proc.at THEN content ELSE proc.manifest[c]
<1>1. PICK manifest : manifest = [proc.manifest EXCEPT ![proc.at] = content]
  OBVIOUS
<1>2. /\ manifest \in FileContents
      /\ \A c \in BackupItems : manifest[c] = IF c = proc.at THEN content ELSE proc.manifest[c]
  BY <1>1 DEF BackupProc, FileContents
<1>3. proc.at + 1 \in 1 .. 3
  BY DEF BackupItems
<1>4. PICK pc \in {"publishing", "copying"} : pc = IF proc.at = 2 THEN "publishing" ELSE "copying"
  OBVIOUS
<1>5. PICK at \in 1 .. 3 : at = proc.at + 1
  BY <1>3
<1>6. PICK first : first = [proc EXCEPT !.manifest = manifest]
  OBVIOUS
<1>7. /\ first \in BackupProc /\ first.to = proc.to /\ first.manifest = manifest
  BY <1>2, <1>6 DEF BackupProc
<1>8. PICK second : second = [first EXCEPT !.at = at]
  OBVIOUS
<1>9. /\ second \in BackupProc /\ second.to = proc.to /\ second.manifest = manifest
      /\ second.at = at
  BY <1>7, <1>8 DEF BackupProc
<1>10. PICK third : third = [second EXCEPT !.pc = pc]
  OBVIOUS
<1>11. /\ third \in BackupProc /\ third.to = proc.to /\ third.manifest = manifest
       /\ third.at = at /\ third.pc = pc
  BY <1>4, <1>9, <1>10 DEF BackupProc
<1>12. Recorded(proc, content) = third
  BY <1>1, <1>4, <1>5, <1>6, <1>8, <1>10, ItemsCount DEF Recorded, BackupProc
<1>13. QED
  BY <1>2, <1>4, <1>5, <1>11, <1>12

\* A file put into a directory.
WithFile(d, at, content) == [dirs EXCEPT ![d].files[at] = content]

LEMMA PutFile ==
  ASSUME BackupInv, NEW to \in Destinations, NEW at \in BackupItems, NEW content \in BackupContent
  PROVE  \E dir \in DirType :
            /\ dirs[to].exists => dir.exists
            /\ dir.manifest = dirs[to].manifest
            /\ \A c \in BackupItems : dir.files[c] = IF c = at THEN content ELSE dirs[to].files[c]
            /\ WithFile(to, at, content) = [dirs EXCEPT ![to] = dir]
<1>1. PICK dir : dir = [dirs[to] EXCEPT !.files[at] = content]
  OBVIOUS
<1>2. dir \in DirType
  BY <1>1 DEF BackupInv, BackupTypes, DirType, FileContents
<1>3. /\ dirs[to].exists => dir.exists
      /\ dir.manifest = dirs[to].manifest
      /\ \A c \in BackupItems : dir.files[c] = IF c = at THEN content ELSE dirs[to].files[c]
  BY <1>1 DEF BackupInv, BackupTypes, DirType, FileContents
<1>4. WithFile(to, at, content) = [dirs EXCEPT ![to] = dir]
  BY <1>1 DEF WithFile
<1>5. QED
  BY <1>2, <1>3, <1>4

\* A whole copy of the next file, stored and recorded in the backup.
LEMMA CopyRecorded ==
  ASSUME BackupInv, NEW p \in BackupProcesses, NEW content \in BackupContent, WholeCopy(content),
         backupProcs[p].pc \in {"copying", "copying_rest"},
         NEW dir \in DirType, dirs["backup"].exists => dir.exists,
         dir.manifest = dirs["backup"].manifest,
         \A c \in BackupItems :
            dir.files[c] = IF c = backupProcs[p].at THEN content ELSE dirs["backup"].files[c],
         dirs' = [dirs EXCEPT !["backup"] = dir],
         Step(p, Recorded(backupProcs[p], content)), live' = live
  PROVE  BackupInv'
<1>1. PICK proc : proc = backupProcs[p]
  OBVIOUS
<1>2. PICK next : next = Recorded(proc, content)
  OBVIOUS
<1>3. /\ proc \in BackupProc /\ proc.at \in BackupItems /\ proc.to = "backup" /\ Filling(proc)
      /\ FilledUpTo(proc)
  BY <1>1 DEF BackupInv, BackupTypes, ProcFits, Filling, FilledUpTo
<1>4. /\ next \in BackupProc /\ next.to = "backup" /\ next.at = proc.at + 1
      /\ next.pc = IF proc.at = 2 THEN "publishing" ELSE "copying"
      /\ \A c \in BackupItems : next.manifest[c] = IF c = proc.at THEN content ELSE proc.manifest[c]
  BY <1>2, <1>3, RecordedShape
<1>5. backupProcs' = [backupProcs EXCEPT ![p] = next]
  BY <1>1, <1>2, <1>3 DEF Step
<1>6. "backup" \in Destinations /\ dirs \in [Destinations -> DirType]
  BY DEF Destinations, BackupInv, BackupTypes
<1>7. \A c \in BackupItems : dir.files[c] = IF c = proc.at THEN content ELSE dirs["backup"].files[c]
  BY <1>1
<1>8. dirs["backup"].exists /\ dirs["backup"].manifest = NoManifest
  BY <1>3 DEF FilledUpTo
<1>9. dirs'["backup"] = dir
  BY <1>6
<1>10. FilledUpTo(next)'
  <2>1. dirs'[next.to].exists /\ dirs'[next.to].manifest = NoManifest
    BY <1>4, <1>8, <1>9
  <2>2. next.pc = "publishing" <=> next.at = 3
    BY <1>3, <1>4 DEF BackupItems
  <2>3. ASSUME NEW c \in BackupItems, c < next.at
        PROVE dirs'[next.to].files[c] = next.manifest[c] /\ WholeCopy(next.manifest[c])
    <3>1. CASE c = proc.at
      BY <3>1, <1>4, <1>7, <1>8, <1>9
    <3>2. CASE c # proc.at
      <4>1. c < proc.at
        BY <3>2, <2>3, <1>3, <1>4 DEF BackupItems
      <4>2. dirs["backup"].files[c] = proc.manifest[c] /\ WholeCopy(proc.manifest[c])
        BY <4>1, <1>3 DEF FilledUpTo
      <4>3. next.manifest[c] = proc.manifest[c] /\ dirs'[next.to].files[c] = dirs["backup"].files[c]
        BY <3>2, <1>4, <1>7, <1>8, <1>9
      <4>4. QED
        BY <4>2, <4>3
    <3>3. QED
      BY <3>1, <3>2
  <2>4. QED
    BY <1>4, <2>1, <2>2, <2>3 DEF FilledUpTo, NoManifest
<1>11. next.pc # "publishing" => next.at \in BackupItems
  BY <1>3, <1>4 DEF BackupItems
<1>12. ProcFits(next)' /\ Filling(next)
  BY <1>4, <1>10, <1>11 DEF ProcFits, Filling, Reading
<1>13. "backup" = backupProcs[p].to /\ Filling(backupProcs[p]) /\ dir.exists
  BY <1>1, <1>3, <1>8
<1>14. QED
  BY <1>4, <1>5, <1>8, <1>12, <1>13, FileWritten

\* destination.mkdir succeeds: nobody fills the directory yet.
LEMMA DirectoryMade ==
  ASSUME BackupInv, NEW p \in BackupProcesses, MakeDirectory(p), ~dirs[backupProcs[p].to].exists
  PROVE  BackupInv'
<1>1. PICK proc \in BackupProc : proc = backupProcs[p]
  BY DEF BackupInv, BackupTypes
<1>2. PICK to \in Destinations : to = proc.to
  BY DEF BackupProc
<1>3. /\ proc.pc \in {"mkdir", "remkdir"} /\ dirs' = [dirs EXCEPT ![to].exists = TRUE]
      /\ live' = live
      /\ Step(p, [proc EXCEPT !.pc = IF @ = "mkdir" THEN "copying" ELSE "restoring", !.at = 1])
  BY <1>1, <1>2 DEF MakeDirectory
<1>20. live' = live
  BY <1>3
<1>4. PICK pc \in {"copying", "restoring"} : pc = IF proc.pc = "mkdir" THEN "copying" ELSE "restoring"
  OBVIOUS
<1>5. PICK next : next = [proc EXCEPT !.pc = pc, !.at = 1]
  OBVIOUS
<1>6. backupProcs' = [backupProcs EXCEPT ![p] = next]
  BY <1>3, <1>4, <1>5 DEF Step
<1>7. /\ next \in BackupProc /\ next.pc = pc /\ next.at = 1 /\ next.to = to
      /\ next.manifest = proc.manifest
  <2>1. PICK first : first = [proc EXCEPT !.pc = pc]
    OBVIOUS
  <2>2. first \in BackupProc /\ first.pc = pc /\ first.to = to /\ first.manifest = proc.manifest
    BY <1>2, <1>4, <2>1 DEF BackupProc
  <2>3. next = [first EXCEPT !.at = 1] /\ 1 \in 1 .. 3
    BY <1>5, <2>1
  <2>4. QED
    BY <2>2, <2>3 DEF BackupProc
<1>8. PICK dir : dir = [dirs[to] EXCEPT !.exists = TRUE]
  OBVIOUS
<1>9. dir \in DirType /\ dir.exists /\ dir.manifest = dirs[to].manifest
  BY <1>8 DEF DirType, BackupInv, BackupTypes
<1>10. dirs' = [dirs EXCEPT ![to] = dir]
  BY <1>3, <1>8
<1>11. \A d \in Destinations : dirs'[d] = IF d = to THEN dir ELSE dirs[d]
  BY <1>10 DEF BackupInv, BackupTypes
<1>12. ~dirs[to].exists /\ dirs[to].manifest = NoManifest
  BY <1>1, <1>2 DEF BackupInv
<1>13. \A d \in Destinations : dirs'[d].manifest = dirs[d].manifest
  BY <1>9, <1>11
<1>14. \A q \in BackupProcesses \ {p} : Filling(backupProcs[q]) => backupProcs[q].to # to
  BY <1>12 DEF BackupInv, ProcFits, FilledUpTo
<1>15. ProcFits(next)' /\ Filling(next)
  <2>1. ProcFits(proc)
    BY <1>1 DEF BackupInv
  <2>2. dirs'["backup"].manifest = dirs["backup"].manifest
    BY <1>13 DEF Destinations
  <2>3. pc = "copying" => to = "backup"
    BY <1>2, <1>3, <1>4, <2>1 DEF ProcFits
  <2>4. pc = "restoring" => /\ to = "restored" /\ proc.manifest = dirs["backup"].manifest
                            /\ proc.manifest # NoManifest
    BY <1>2, <1>3, <1>4, <2>1 DEF ProcFits, Reading
  <2>5. dirs'[to].exists /\ dirs'[to].manifest = NoManifest
    BY <1>9, <1>11, <1>12
  <2>6. \A c \in BackupItems : ~(c < 1)
    BY DEF BackupItems
  <2>7. FilledUpTo(next)'
    BY <1>4, <1>7, <2>2, <2>3, <2>4, <2>5, <2>6 DEF FilledUpTo, NoManifest
  <2>8. QED
    BY <1>4, <1>7, <2>7 DEF ProcFits, Filling, Reading, BackupItems
<1>16. /\ BackupTypes' /\ \A q \in BackupProcesses : ProcFits(backupProcs[q])'
       /\ \A q, r \in BackupProcesses :
            (Filling(backupProcs[q]) /\ Filling(backupProcs[r])
                /\ backupProcs[q].to = backupProcs[r].to => q = r)'
  <2>1. dirs["backup"].manifest = dirs'["backup"].manifest
    BY <1>13 DEF Destinations
  <2>2. dirs' \in [Destinations -> DirType]
    BY <1>9, <1>10 DEF BackupInv, BackupTypes
  <2>3. \A d \in Destinations : d # to => dirs'[d] = dirs[d]
    BY <1>11
  <2>5. next \in BackupProc
    BY <1>7
  <2>6. Filling(next) => next.to = to
    BY <1>7
  <2>7. ProcFits(next)'
    BY <1>15
  <2>4. QED
    BY <1>6, <1>14, <1>20, <2>1, <2>2, <2>3, <2>5, <2>6, <2>7, OthersKept, ZenonT(60)
<1>17. ManifestWhole'
  <2>1. \A d \in Destinations : WholeDir(d, dirs'[d])
    BY <1>9, <1>11, <1>12, WholeDirs DEF WholeDir, BackupInv
  <2>2. dirs'["restored"].manifest \in {NoManifest, dirs'["backup"].manifest}
    BY <1>13, WholeDirs DEF BackupInv, Destinations
  <2>3. QED
    BY <2>1, <2>2, WholeDirsNext
<1>18. \A d \in Destinations : ~dirs'[d].exists => dirs'[d].manifest = NoManifest
  BY <1>9, <1>11 DEF BackupInv
<1>19. QED
  BY <1>16, <1>17, <1>18 DEF BackupInv, NoManifest

\* The manifest becomes visible: the directory is whole, and nobody reads or fills
\* anything on the strength of the manifest that was not there.
LEMMA Published ==
  ASSUME BackupInv, NEW p \in BackupProcesses, PublishManifest(p)
  PROVE  BackupInv'
<1>1. PICK proc \in BackupProc : proc = backupProcs[p]
  BY DEF BackupInv, BackupTypes
<1>2. PICK to \in Destinations : to = proc.to
  BY DEF BackupProc
<1>3. /\ ProcFits(proc) /\ Filling(proc) /\ FilledUpTo(proc) /\ proc.at = 3
  BY <1>1 DEF BackupInv, ProcFits, Filling, FilledUpTo, PublishManifest
<1>4. /\ dirs[to].manifest = NoManifest /\ dirs[to].exists
      /\ \A c \in BackupItems : dirs[to].files[c] = proc.manifest[c] /\ WholeCopy(proc.manifest[c])
      /\ to = "restored" => proc.manifest = dirs["backup"].manifest
  BY <1>2, <1>3 DEF FilledUpTo, BackupItems
<1>5. /\ dirs' = [dirs EXCEPT ![to].manifest = proc.manifest]
      /\ backupProcs' = [backupProcs EXCEPT ![p] = IdleProc] /\ live' = live
  BY <1>1, <1>2, <1>4 DEF PublishManifest, Abandon, Step
<1>6. PICK dir : dir = [dirs[to] EXCEPT !.manifest = proc.manifest]
  OBVIOUS
<1>7. dir \in DirType /\ dir.exists /\ dir.manifest = proc.manifest /\ dir.files = dirs[to].files
  BY <1>4, <1>6 DEF DirType, BackupInv, BackupTypes, BackupProc
<1>8. dirs' = [dirs EXCEPT ![to] = dir]
  BY <1>5, <1>6
<1>9. \A d \in Destinations : dirs'[d] = IF d = to THEN dir ELSE dirs[d]
  BY <1>8 DEF BackupInv, BackupTypes
<1>10. \A q \in BackupProcesses : backupProcs'[q] = IF q = p THEN IdleProc ELSE backupProcs[q]
  BY <1>5 DEF BackupInv, BackupTypes
<1>11. BackupTypes'
  BY <1>5, <1>7, <1>8, IdleFits DEF BackupInv, BackupTypes
<1>12. ASSUME NEW q \in BackupProcesses PROVE ProcFits(backupProcs[q])'
  <2>1. CASE q = p
    BY <2>1, <1>10, IdleFits DEF ProcFits, Filling, Reading
  <2>2. CASE q # p
    <3>1. ProcFits(backupProcs[q]) /\ backupProcs'[q] = backupProcs[q]
      BY <2>2, <1>10 DEF BackupInv
    <3>2. backupProcs[q].to \in Destinations
      BY DEF BackupInv, BackupTypes, BackupProc
    <3>3. Filling(backupProcs[q]) => backupProcs[q].to # to
      BY <1>1, <1>2, <1>3, <2>2 DEF BackupInv
    <3>4. Filling(backupProcs[q]) => dirs'[backupProcs[q].to] = dirs[backupProcs[q].to]
      BY <1>9, <3>2, <3>3
    <3>5. CASE to = "restored"
      <4>1. dirs'["backup"] = dirs["backup"]
        BY <3>5, <1>9 DEF Destinations
      <4>2. QED
        BY <3>1, <3>4, <4>1 DEF ProcFits, Filling, Reading, FilledUpTo
    <3>6. CASE to = "backup"
      <4>1. ~Reading(backupProcs[q]) /\ ~Filling(backupProcs[q])
        BY <3>1, <3>2, <3>3, <3>6, <1>4 DEF ProcFits, FilledUpTo, Destinations
      <4>2. QED
        BY <3>1, <4>1 DEF ProcFits, Filling, Reading
    <3>7. QED
      BY <3>5, <3>6, <1>2 DEF Destinations
  <2>3. QED
    BY <2>1, <2>2
<1>13. \A q, r \in BackupProcesses :
        (Filling(backupProcs[q]) /\ Filling(backupProcs[r])
            /\ backupProcs[q].to = backupProcs[r].to => q = r)'
  BY <1>10, IdleFits DEF BackupInv, Filling
<1>14. ManifestWhole'
  <2>1. WholeDir(to, dir)
    BY <1>4, <1>7 DEF WholeDir
  <2>2. \A d \in Destinations : WholeDir(d, dirs'[d])
    BY <1>9, <2>1, WholeDirs DEF BackupInv
  <2>3. dirs'["restored"].manifest \in {NoManifest, dirs'["backup"].manifest}
    <3>1. CASE to = "restored"
      BY <3>1, <1>4, <1>7, <1>9 DEF Destinations
    <3>2. CASE to = "backup"
      <4>1. dirs["restored"].manifest = NoManifest
        BY <3>2, <1>4, WholeDirs DEF BackupInv
      <4>2. QED
        BY <3>2, <4>1, <1>9 DEF Destinations
    <3>3. QED
      BY <3>1, <3>2, <1>2 DEF Destinations
  <2>4. QED
    BY <2>2, <2>3, WholeDirsNext
<1>15. \A d \in Destinations : ~dirs'[d].exists => dirs'[d].manifest = NoManifest
  BY <1>7, <1>9 DEF BackupInv
<1>16. QED
  BY <1>11, <1>12, <1>13, <1>14, <1>15 DEF BackupInv, NoManifest

\* A file of a finished backup is lost: nobody fills that directory any more.
LEMMA FileLost ==
  ASSUME BackupInv, NEW c \in BackupItems, Damage(c)
  PROVE  BackupInv'
<1>1. PICK content \in {Damaged, NoContent} : dirs' = WithFile("backup", c, content)
  BY DEF Damage, WithFile
<1>2. "backup" \in Destinations /\ content \in BackupContent
  BY NoFilesShape DEF Destinations
<1>3. PICK dir \in DirType :
        /\ dirs["backup"].exists => dir.exists
        /\ dir.manifest = dirs["backup"].manifest
        /\ \A i \in BackupItems : dir.files[i] = IF i = c THEN content ELSE dirs["backup"].files[i]
        /\ WithFile("backup", c, content) = [dirs EXCEPT !["backup"] = dir]
  BY <1>2, PutFile
<1>4. dirs' = [dirs EXCEPT !["backup"] = dir]
  BY <1>1, <1>3, Zenon
<1>5. dir.manifest = dirs["backup"].manifest /\ (dirs["backup"].exists => dir.exists)
  BY <1>3, Zenon
<1>6. \A d \in Destinations : dirs'[d] = IF d = "backup" THEN dir ELSE dirs[d]
  BY <1>4 DEF BackupInv, BackupTypes
<1>7. live' = live /\ backupProcs' = backupProcs /\ dirs["backup"].manifest # NoManifest
  BY DEF Damage
<1>8. BackupTypes'
  BY <1>4, <1>7 DEF BackupInv, BackupTypes
<1>9. ASSUME NEW q \in BackupProcesses PROVE ProcFits(backupProcs[q])'
  <2>1. ProcFits(backupProcs[q]) /\ backupProcs'[q] = backupProcs[q]
    BY <1>7 DEF BackupInv
  <2>2. backupProcs[q].to \in Destinations
    BY DEF BackupInv, BackupTypes, BackupProc
  <2>3. Filling(backupProcs[q]) => dirs'[backupProcs[q].to] = dirs[backupProcs[q].to]
    BY <1>6, <1>7, <2>1, <2>2 DEF ProcFits, FilledUpTo
  <2>4. dirs'["backup"].manifest = dirs["backup"].manifest
    BY <1>2, <1>5, <1>6
  <2>5. QED
    BY <2>1, <2>3, <2>4 DEF ProcFits, Filling, Reading, FilledUpTo
<1>10. ManifestWhole'
  <2>1. WholeDir("backup", dir)
    <3>1. \A i \in BackupItems : dir.files[i] = content \/ dir.files[i] = dirs["backup"].files[i]
      BY <1>3, Zenon
    <3>2. WholeDir("backup", dirs["backup"])
      BY <1>2, WholeDirs DEF BackupInv
    <3>3. QED
      BY <1>1, <1>5, <3>1, <3>2 DEF WholeDir
  <2>2. \A d \in Destinations : WholeDir(d, dirs'[d])
    BY <1>6, <2>1, WholeDirs DEF BackupInv
  <2>3. dirs'["restored"].manifest \in {NoManifest, dirs'["backup"].manifest}
    <3>1. dirs'["restored"] = dirs["restored"] /\ dirs'["backup"] = dir
      BY <1>6 DEF Destinations
    <3>2. QED
      BY <1>5, <3>1, WholeDirs DEF BackupInv
  <2>4. QED
    BY <2>2, <2>3, WholeDirsNext
<1>11. \A d \in Destinations : ~dirs'[d].exists => dirs'[d].manifest = NoManifest
  BY <1>5, <1>6 DEF BackupInv
<1>12. QED
  BY <1>7, <1>8, <1>9, <1>10, <1>11 DEF BackupInv, NoManifest, Filling

\* The operational files belong to others.
LEMMA LiveMoves ==
  ASSUME BackupInv, live' \in [BackupItems -> FileKinds], UNCHANGED <<dirs, backupProcs>>
  PROVE  BackupInv'
BY DEF BackupInv, BackupTypes, ProcFits, Filling, Reading, FilledUpTo, ManifestWhole

\* A file is copied into the backup.
LEMMA FileCopied ==
  ASSUME BackupInv, NEW p \in BackupProcesses, NEW proc, proc = backupProcs[p],
         proc.pc \in {"copying", "copying_rest"}, proc.at \in BackupItems,
         NEW content \in BackupContent, WholeCopy(content),
         dirs' = WithFile("backup", proc.at, content), live' = live,
         Step(p, Recorded(proc, content))
  PROVE  BackupInv'
<1>1. "backup" \in Destinations
  BY DEF Destinations
<1>2. PICK at \in BackupItems : at = proc.at
  OBVIOUS
<1>3. PICK dir \in DirType :
        /\ dirs["backup"].exists => dir.exists
        /\ dir.manifest = dirs["backup"].manifest
        /\ \A c \in BackupItems : dir.files[c] = IF c = at THEN content
                                               ELSE dirs["backup"].files[c]
        /\ WithFile("backup", at, content) = [dirs EXCEPT !["backup"] = dir]
  BY <1>1, PutFile
<1>4. dirs' = [dirs EXCEPT !["backup"] = dir]
  BY <1>2, <1>3
<1>5. \A c \in BackupItems : dir.files[c] = IF c = backupProcs[p].at THEN content
                                            ELSE dirs["backup"].files[c]
  BY <1>2, <1>3
<1>6. QED
  BY <1>3, <1>4, <1>5, CopyRecorded

LEMMA BackupStep == BackupInv /\ [BackupNext]_backupVars => BackupInv'
<1> SUFFICES ASSUME BackupInv, [BackupNext]_backupVars PROVE BackupInv'
  OBVIOUS
<1>0. /\ \A p \in BackupProcesses : backupProcs[p] \in BackupProc /\ ProcFits(backupProcs[p])
      /\ live \in [BackupItems -> FileKinds] /\ dirs \in [Destinations -> DirType]
  BY DEF BackupInv, BackupTypes
<1>1. ASSUME NEW p \in BackupProcesses, NEW request \in CreateRequests, CheckCreate(p, request)
      PROVE BackupInv'
  <2>1. PICK next : next = [IdleProc EXCEPT !.pc = "mkdir", !.snapshot = request.snapshot]
    OBVIOUS
  <2>2. next \in BackupProc /\ next.pc = "mkdir" /\ next.to = "backup" /\ next.at = 1
    BY <2>1, IdleFits DEF BackupProc, CreateRequests
  <2>3. backupProcs' = [backupProcs EXCEPT ![p] = next] /\ UNCHANGED <<live, dirs>>
    BY <1>1, <2>1 DEF CheckCreate, Step
  <2>4. ProcFits(next) /\ ~Filling(next)
    BY <2>2 DEF ProcFits, Filling, Reading, BackupItems
  <2>5. QED
    BY <2>2, <2>3, <2>4, ProcMoves
<1>2. ASSUME NEW p \in BackupProcesses, MakeDirectory(p) PROVE BackupInv'
  <2>1. CASE dirs[backupProcs[p].to].exists
    BY <1>2, <2>1, Abandons DEF MakeDirectory
  <2>2. CASE ~dirs[backupProcs[p].to].exists
    BY <1>2, <2>2, DirectoryMade
  <2>3. QED
    BY <2>1, <2>2
<1>3. ASSUME NEW p \in BackupProcesses, CopyHeader(p) PROVE BackupInv'
  <2>1. PICK proc \in BackupProc : proc = backupProcs[p]
    BY <1>0
  <2>2. /\ proc.pc = "copying" /\ ProcFits(proc) /\ proc.at \in BackupItems /\ Filling(proc)
        /\ FilledUpTo(proc)
    BY <1>0, <1>3, <2>1 DEF CopyHeader, ProcFits, Filling
  <2>3. CASE live[proc.at].kind = "sqlite"
    BY <1>3, <2>1, <2>3, Abandons DEF CopyHeader
  <2>4. CASE live[proc.at].kind # "sqlite"
    <3>1. PICK header \in FileKinds : header = live[proc.at] /\ header.kind = "plain"
      BY <1>0, <2>2, <2>4 DEF FileKinds
    <3>2. PICK next : next = [proc EXCEPT !.pc = "copying_rest", !.header = header]
      OBVIOUS
    <3>3. /\ next \in BackupProc /\ next.pc = "copying_rest" /\ next.header = header
          /\ next.to = proc.to /\ next.at = proc.at /\ next.manifest = proc.manifest
      BY <3>2 DEF BackupProc
    <3>4. backupProcs' = [backupProcs EXCEPT ![p] = next] /\ UNCHANGED <<live, dirs>>
      BY <1>3, <2>1, <2>4, <3>1, <3>2 DEF CopyHeader, Step
    <3>5. ProcFits(next) /\ Filling(next)
      BY <2>2, <3>1, <3>3 DEF ProcFits, Filling, Reading, FilledUpTo
    <3>6. Filling(backupProcs[p]) /\ next.to = backupProcs[p].to
      BY <2>1, <2>2, <3>3
    <3>7. QED
      BY <3>3, <3>4, <3>5, <3>6, ProcMoves
  <2>5. QED
    BY <2>3, <2>4
<1>4. ASSUME NEW p \in BackupProcesses, CopyRest(p) PROVE BackupInv'
  <2>1. PICK proc \in BackupProc : proc = backupProcs[p]
    BY <1>0
  <2>2. /\ proc.pc = "copying_rest" /\ ProcFits(proc) /\ proc.at \in BackupItems
        /\ proc.to = "backup" /\ proc.header \in FileKinds /\ proc.header.kind = "plain"
    BY <1>0, <1>4, <2>1, ZenonT(60) DEF CopyRest, ProcFits, Filling, FilledUpTo, BackupProc
  <2>3. PICK rest \in FileVersions : rest = IF live[proc.at].kind = proc.header.kind
                                  THEN live[proc.at].version ELSE proc.header.version
    BY <1>0, <2>2 DEF FileKinds
  <2>4. PICK content : content = Content("plain", proc.header.version, rest)
    OBVIOUS
  <2>5. content \in BackupContent /\ WholeCopy(content)
    BY <2>2, <2>4 DEF Content, BackupContent, WholeCopy, FileKinds
  <2>6. /\ dirs' = WithFile("backup", proc.at, content) /\ live' = live
        /\ Step(p, Recorded(proc, content))
    BY <1>4, <2>1, <2>2, <2>3, <2>4, Zenon DEF CopyRest, WithFile
  <2>7. QED
    BY <2>1, <2>2, <2>5, <2>6, FileCopied
<1>5. ASSUME NEW p \in BackupProcesses, SnapshotDatabase(p) PROVE BackupInv'
  <2>1. PICK proc \in BackupProc : proc = backupProcs[p]
    BY <1>0
  <2>2. /\ proc.pc = "copying" /\ ProcFits(proc) /\ proc.at \in BackupItems
        /\ proc.to = "backup"
    BY <1>0, <1>5, <2>1 DEF SnapshotDatabase, ProcFits, Filling, FilledUpTo
  <2>3. CASE live[proc.at].kind # "sqlite"
    BY <1>5, <2>1, <2>3, Abandons DEF SnapshotDatabase
  <2>4. CASE live[proc.at].kind = "sqlite"
    <3>1. PICK version \in FileVersions : version = live[proc.at].version
      BY <1>0, <2>2 DEF FileKinds
    <3>2. PICK content : content = Content("sqlite", version, version)
      OBVIOUS
    <3>3. content \in BackupContent /\ WholeCopy(content)
      BY <3>2 DEF Content, BackupContent, WholeCopy
    <3>4. /\ dirs' = WithFile("backup", proc.at, content) /\ live' = live
          /\ Step(p, Recorded(proc, content))
      BY <1>5, <2>1, <2>2, <2>4, <3>1, <3>2, Zenon DEF SnapshotDatabase, WithFile
    <3>5. QED
      BY <2>1, <2>2, <3>3, <3>4, FileCopied
  <2>5. QED
    BY <2>3, <2>4
<1>6. ASSUME NEW p \in BackupProcesses, PublishManifest(p) PROVE BackupInv'
  BY <1>6, Published
<1>7. ASSUME NEW p \in BackupProcesses, BeginRestore(p) PROVE BackupInv'
  <2>1. PICK manifest \in FileContents : manifest = dirs["backup"].manifest /\ manifest # NoManifest
    BY <1>0, <1>7 DEF BeginRestore, DirType, Destinations
  <2>2. PICK next : next = [IdleProc EXCEPT !.pc = "verifying", !.to = "restored",
                                            !.manifest = manifest]
    OBVIOUS
  <2>3. PICK first : first = [IdleProc EXCEPT !.pc = "verifying"]
    OBVIOUS
  <2>4. first \in BackupProc /\ first.pc = "verifying" /\ first.at = 1
    BY <2>3, IdleFits DEF BackupProc
  <2>5. PICK second : second = [first EXCEPT !.to = "restored"]
    OBVIOUS
  <2>6. /\ second \in BackupProc /\ second.pc = "verifying" /\ second.at = 1
        /\ second.to = "restored"
    BY <2>4, <2>5 DEF BackupProc, Destinations
  <2>7. next = [second EXCEPT !.manifest = manifest]
    BY <2>2, <2>3, <2>5
  <2>8. /\ next \in BackupProc /\ next.pc = "verifying" /\ next.at = 1
        /\ next.to = "restored" /\ next.manifest = manifest
    BY <2>6, <2>7 DEF BackupProc
  <2>9. ProcFits(next) /\ ~Filling(next)
    BY <2>1, <2>8 DEF ProcFits, Filling, Reading, BackupItems
  <2>10. backupProcs' = [backupProcs EXCEPT ![p] = next] /\ UNCHANGED <<live, dirs>>
    BY <1>7, <2>1, <2>2 DEF BeginRestore, Step
  <2>11. QED
    BY <2>8, <2>9, <2>10, ProcMoves
<1>8. ASSUME NEW p \in BackupProcesses, VerifyFile(p) PROVE BackupInv'
  <2>1. PICK proc \in BackupProc : proc = backupProcs[p]
    BY <1>0
  <2>2. proc.pc = "verifying" /\ ProcFits(proc) /\ UNCHANGED <<live, dirs>>
    BY <1>0, <1>8, <2>1 DEF VerifyFile
  <2>3. proc.at \in BackupItems
    BY <2>2 DEF ProcFits
  <2>4. CASE Abandon(p)
    BY <2>2, <2>4, Abandons
  <2>5. CASE proc.at < 2 /\ Step(p, [proc EXCEPT !.at = @ + 1])
    <3>1. PICK next : next = [proc EXCEPT !.at = 2]
      OBVIOUS
    <3>2. /\ next \in BackupProc /\ next.pc = "verifying" /\ next.at = 2
          /\ next.to = proc.to /\ next.manifest = proc.manifest
      BY <2>2, <3>1 DEF BackupProc
    <3>3. proc.at + 1 = 2
      BY <2>3, <2>5 DEF BackupItems
    <3>4. backupProcs' = [backupProcs EXCEPT ![p] = next]
      BY <2>5, <3>1, <3>3 DEF Step
    <3>5. ProcFits(next) /\ ~Filling(next)
      BY <2>2, <3>2 DEF ProcFits, Filling, Reading, BackupItems
    <3>6. QED
      BY <2>2, <3>2, <3>4, <3>5, ProcMoves
  <2>6. CASE Step(p, [proc EXCEPT !.pc = "remkdir"])
    <3>1. PICK next : next = [proc EXCEPT !.pc = "remkdir"]
      OBVIOUS
    <3>2. /\ next \in BackupProc /\ next.pc = "remkdir" /\ next.at = proc.at
          /\ next.to = proc.to /\ next.manifest = proc.manifest
      BY <2>2, <3>1 DEF BackupProc
    <3>3. backupProcs' = [backupProcs EXCEPT ![p] = next]
      BY <2>6, <3>1 DEF Step
    <3>4. ProcFits(next) /\ ~Filling(next)
      BY <2>2, <2>3, <3>2 DEF ProcFits, Filling, Reading
    <3>5. QED
      BY <2>2, <3>2, <3>3, <3>4, ProcMoves
  <2>7. QED
    BY <1>8, <2>1, <2>4, <2>5, <2>6, ItemsCount, Zenon DEF VerifyFile
<1>9. ASSUME NEW p \in BackupProcesses, RestoreFile(p) PROVE BackupInv'
  <2>1. PICK proc \in BackupProc : proc = backupProcs[p]
    BY <1>0
  <2>2. /\ proc.pc = "restoring" /\ Filling(proc) /\ FilledUpTo(proc)
        /\ proc.at \in BackupItems /\ proc.to = "restored"
    BY <1>0, <1>9, <2>1 DEF RestoreFile, ProcFits, Filling, FilledUpTo
  <2>3. PICK content \in BackupContent : content = dirs["backup"].files[proc.at]
    BY <1>0, <2>2 DEF DirType, FileContents, Destinations
  <2>4. CASE content = NoContent
    BY <1>9, <2>1, <2>3, <2>4, Abandons DEF RestoreFile
  <2>5. CASE content # NoContent
    <3>1. /\ dirs' = WithFile("restored", proc.at, content) /\ live' = live
          /\ Step(p, [proc EXCEPT !.pc = "checking"])
      BY <1>9, <2>1, <2>2, <2>3, <2>5, Zenon DEF RestoreFile, WithFile
    <3>2. PICK next : next = [proc EXCEPT !.pc = "checking"]
      OBVIOUS
    <3>3. /\ next \in BackupProc /\ next.pc = "checking" /\ next.at = proc.at
          /\ next.to = "restored" /\ next.manifest = proc.manifest
      BY <2>2, <3>2 DEF BackupProc
    <3>4. "restored" \in Destinations /\ "backup" \in Destinations
      BY DEF Destinations
    <3>13. PICK at \in BackupItems : at = proc.at
      BY <2>2
    <3>5. PICK dir \in DirType :
            /\ dirs["restored"].exists => dir.exists
            /\ dir.manifest = dirs["restored"].manifest
            /\ \A c \in BackupItems : dir.files[c] = IF c = at THEN content
                                                   ELSE dirs["restored"].files[c]
            /\ WithFile("restored", at, content) = [dirs EXCEPT !["restored"] = dir]
      BY <3>4, PutFile
    <3>6. dirs' = [dirs EXCEPT !["restored"] = dir] /\ dir.exists
      BY <2>2, <3>1, <3>5, <3>13 DEF FilledUpTo
    <3>7. dirs'["restored"] = dir /\ dirs'["backup"] = dirs["backup"]
      BY <1>0, <3>4, <3>6
    <3>8. FilledUpTo(next)'
      <4>1. dirs'[next.to].exists /\ dirs'[next.to].manifest = NoManifest
        BY <2>2, <3>3, <3>5, <3>6, <3>7 DEF FilledUpTo
      <4>2. next.at # 3
        BY <2>2, <3>3 DEF BackupItems
      <4>3. ASSUME NEW c \in BackupItems, c < next.at
            PROVE dirs'[next.to].files[c] = next.manifest[c] /\ WholeCopy(next.manifest[c])
        <5>1. c # proc.at /\ c < proc.at
          BY <4>3, <3>3, <2>2 DEF BackupItems
        <5>2. dirs["restored"].files[c] = proc.manifest[c] /\ WholeCopy(proc.manifest[c])
          BY <5>1, <2>2 DEF FilledUpTo
        <5>3. QED
          BY <5>1, <5>2, <3>3, <3>5, <3>7, <3>13
      <4>4. next.manifest = dirs'["backup"].manifest /\ next.manifest # NoManifest
        BY <2>2, <3>3, <3>7 DEF FilledUpTo
      <4>5. QED
        BY <3>3, <4>1, <4>2, <4>3, <4>4 DEF FilledUpTo, NoManifest
    <3>9. ProcFits(next)' /\ Filling(next)
      BY <2>2, <3>3, <3>8 DEF ProcFits, Filling, Reading
    <3>10. /\ "restored" = backupProcs[p].to /\ Filling(backupProcs[p])
           /\ backupProcs' = [backupProcs EXCEPT ![p] = next]
      BY <2>1, <2>2, <3>1, <3>2 DEF Step
    <3>11. dir.manifest = dirs["restored"].manifest
      BY <3>5
    <3>12. QED
      BY <3>1, <3>3, <3>6, <3>9, <3>10, <3>11, FileWritten
  <2>6. QED
    BY <2>4, <2>5
<1>10. ASSUME NEW p \in BackupProcesses, CheckCopy(p) PROVE BackupInv'
  <2>1. PICK proc \in BackupProc : proc = backupProcs[p]
    BY <1>0
  <2>2. /\ proc.pc = "checking" /\ Filling(proc) /\ FilledUpTo(proc)
        /\ proc.at \in BackupItems /\ proc.to = "restored"
    BY <1>0, <1>10, <2>1 DEF CheckCopy, ProcFits, Filling, FilledUpTo
  <2>3. CASE ~Intact(proc, proc.to)
    BY <1>10, <2>1, <2>3, Abandons DEF CheckCopy
  <2>4. CASE Intact(proc, proc.to)
    <3>1. PICK pc \in {"publishing", "restoring"} :
            pc = IF proc.at = 2 THEN "publishing" ELSE "restoring"
      OBVIOUS
    <3>2. PICK at \in 1 .. 3 : at = proc.at + 1
      BY <2>2 DEF BackupItems
    <3>3. PICK first : first = [proc EXCEPT !.at = at]
      OBVIOUS
    <3>4. /\ first \in BackupProc /\ first.at = at /\ first.to = proc.to
          /\ first.manifest = proc.manifest
      BY <3>3 DEF BackupProc
    <3>5. PICK next : next = [first EXCEPT !.pc = pc]
      OBVIOUS
    <3>6. /\ next \in BackupProc /\ next.at = at /\ next.to = "restored" /\ next.pc = pc
          /\ next.manifest = proc.manifest
      BY <2>2, <3>1, <3>4, <3>5 DEF BackupProc
    <3>7. backupProcs' = [backupProcs EXCEPT ![p] = next] /\ UNCHANGED <<live, dirs>>
      BY <1>10, <2>1, <2>4, <3>1, <3>2, <3>3, <3>5, ItemsCount DEF CheckCopy, Step
    <3>8. WholeCopy(proc.manifest[proc.at])
      <4>1. dirs["backup"].manifest = proc.manifest /\ proc.manifest # NoManifest
        BY <2>2 DEF FilledUpTo
      <4>2. WholeDir("backup", dirs["backup"])
        BY WholeDirs DEF BackupInv, Destinations
      <4>3. QED
        BY <2>2, <4>1, <4>2 DEF WholeDir
    <3>9. FilledUpTo(next)
      <4>1. ASSUME NEW c \in BackupItems, c < next.at
            PROVE dirs[next.to].files[c] = next.manifest[c] /\ WholeCopy(next.manifest[c])
        <5>1. c = proc.at \/ c < proc.at
          BY <4>1, <3>2, <3>6, <2>2 DEF BackupItems
        <5>2. dirs["restored"].files[c] = proc.manifest[c] /\ WholeCopy(proc.manifest[c])
          BY <5>1, <2>2, <2>4, <3>8 DEF FilledUpTo, Intact
        <5>3. QED
          BY <5>2, <3>6
      <4>2. next.pc = "publishing" <=> next.at = 3
        BY <2>2, <3>1, <3>2, <3>6 DEF BackupItems
      <4>3. dirs[next.to].exists /\ dirs[next.to].manifest = NoManifest
        BY <2>2, <3>6 DEF FilledUpTo
      <4>4. next.manifest = dirs["backup"].manifest /\ next.manifest # NoManifest
        BY <2>2, <3>6 DEF FilledUpTo
      <4>5. QED
        BY <3>1, <3>6, <4>1, <4>2, <4>3, <4>4 DEF FilledUpTo
    <3>10. next.pc # "publishing" => next.at \in BackupItems
      BY <2>2, <3>1, <3>2, <3>6 DEF BackupItems
    <3>11. ProcFits(next)
      BY <3>1, <3>6, <3>9, <3>10 DEF ProcFits, Reading
    <3>12. Filling(backupProcs[p]) /\ next.to = backupProcs[p].to
      BY <2>1, <2>2, <3>6
    <3>13. QED
      BY <3>6, <3>7, <3>11, <3>12, ProcMoves
  <2>5. QED
    BY <2>3, <2>4
<1>11. ASSUME NEW p \in BackupProcesses, FailBackup(p) PROVE BackupInv'
  BY <1>11, Abandons DEF FailBackup
<1>v. ASSUME NEW c \in BackupItems, Writes < MaxWrites PROVE live[c].version + 1 \in FileVersions
  <2>1. PICK a, b : a = live[1].version /\ b = live[2].version /\ a \in FileVersions /\ b \in FileVersions
    BY <1>0 DEF FileKinds, BackupItems
  <2>2. a \in Nat /\ b \in Nat /\ a + b < MaxWrites /\ MaxWrites \in Nat
    BY <1>v, <2>1, BackupAssumption DEF Writes, FileVersions
  <2>3. a + 1 \in 0 .. MaxWrites /\ b + 1 \in 0 .. MaxWrites
    BY <2>2
  <2>4. c = 1 \/ c = 2
    BY DEF BackupItems
  <2>5. QED
    BY <2>1, <2>3, <2>4 DEF FileVersions
<1>12. ASSUME NEW c \in BackupItems, WriteLive(c) PROVE BackupInv'
  <2>1. PICK file : file = [live[c] EXCEPT !.version = @ + 1]
    OBVIOUS
  <2>2. file \in FileKinds /\ live' = [live EXCEPT ![c] = file]
    <3>1. PICK version \in FileVersions : version = live[c].version + 1
      BY <1>v, <1>12 DEF WriteLive
    <3>2. QED
      BY <1>0, <1>12, <2>1, <3>1 DEF WriteLive, FileKinds
  <2>3. live' \in [BackupItems -> FileKinds] /\ UNCHANGED <<dirs, backupProcs>>
    BY <1>0, <1>12, <2>2 DEF WriteLive
  <2>4. QED
    BY <2>3, LiveMoves
<1>13. ASSUME NEW c \in BackupItems, ReplaceLive(c) PROVE BackupInv'
  <2>1. PICK file : file = [kind |-> IF live[c].kind = "plain" THEN "sqlite" ELSE "plain",
                            version |-> live[c].version + 1]
    OBVIOUS
  <2>2. file \in FileKinds
    <3>1. PICK version \in FileVersions : version = live[c].version + 1
      BY <1>v, <1>13 DEF ReplaceLive
    <3>2. QED
      BY <2>1, <3>1 DEF FileKinds
  <2>3. live' = [live EXCEPT ![c] = file] /\ UNCHANGED <<dirs, backupProcs>>
    BY <1>13, <2>1 DEF ReplaceLive
  <2>4. live' \in [BackupItems -> FileKinds]
    BY <1>0, <2>2, <2>3
  <2>5. QED
    BY <2>3, <2>4, LiveMoves
<1>14. ASSUME NEW c \in BackupItems, Damage(c) PROVE BackupInv'
  BY <1>14, FileLost
<1>15. CASE UNCHANGED backupVars
  BY <1>0, <1>15, LiveMoves DEF backupVars
<1>16. QED
  BY <1>1, <1>2, <1>3, <1>4, <1>5, <1>6, <1>7, <1>8, <1>9, <1>10, <1>11, <1>12, <1>13, <1>14,
     <1>15 DEF BackupNext

(***************************************************************************)
(* Local ingestion.  What a call of ingest holds is in the approved scope, *)
(* and a row is marked only with a hash that the store has.                *)
(***************************************************************************)
SourceType == [version : Nat, readable : BOOLEAN]

OrderType ==
    [scope : SUBSET Ids, checkpoint : Nat,
     status : {"none", "ready", "running", "completed", "failed"}, attempts : Nat]

ReaderType ==
    [pc : {"idle", "next", "hashing", "extracting", "storing", "writing", "marking"}, at : Nat,
     batch : SUBSET Ids, prints : [Ids -> Nat], hash : Nat, text : Nat, last : BOOLEAN]

IngestionTypes ==
    /\ source \in [Ids -> SourceType]
    /\ rows \in [Ids -> Row]
    /\ order \in OrderType
    /\ reader \in ReaderType

\* What a call of ingest holds.
ReaderFits(call) ==
    /\ call.pc # "idle" => order.status = "running"
    /\ call.batch \subseteq order.scope
    /\ call.pc = "idle" => call.batch = {}
    /\ call.pc \in {"hashing", "extracting", "storing", "writing", "marking"} =>
        call.at \in order.scope /\ Supported(call.at)
    /\ call.pc = "marking" => <<call.at, call.hash>> \in DOMAIN contents

IngestionInv ==
    /\ IngestionTypes
    /\ ReaderFits(reader)
    /\ order.status = "none" => \A i \in Ids : rows[i].record = None
    /\ IngestionBacked

LEMMA NoReaderShape ==
  /\ None \in Nat
  /\ NoReader \in ReaderType /\ NoReader.pc = "idle" /\ NoReader.batch = {}
<1>1. None \in Nat
  BY IngestionAssumption DEF None
<1>2. QED
  BY <1>1 DEF NoReader, ReaderType

LEMMA NoReaderFits == ReaderFits(NoReader)
BY NoReaderShape DEF ReaderFits

\* The earliest id of a batch is one of it.
LEMMA FirstIsMember ==
  ASSUME NEW ids \in SUBSET Ids, ids # {} PROVE First(ids) \in ids
<1>1. \E i \in ids : \A k \in ids : i <= k
  <2>1. CASE 1 \in ids
    BY <2>1 DEF Ids
  <2>2. CASE 1 \notin ids /\ 2 \in ids
    BY <2>2 DEF Ids
  <2>3. CASE 1 \notin ids /\ 2 \notin ids
    <3>1. ASSUME NEW k \in ids PROVE k = 3
      <4>1. k \in 1 .. 3 /\ k # 1 /\ k # 2
        BY <2>3 DEF Ids
      <4>2. QED
        BY <4>1
    <3>2. QED
      BY <3>1
  <2>4. QED
    BY <2>1, <2>2, <2>3
<1>2. QED
  BY <1>1 DEF First

LEMMA IngestionInitInv == IngestionInit => IngestionInv
<1> SUFFICES ASSUME IngestionInit PROVE IngestionInv
  OBVIOUS
<1>1. PICK readable \in BOOLEAN :
        source = [i \in Ids |-> [version |-> 0, readable |-> i = 2 => readable]]
  BY DEF IngestionInit
<1>2. source \in [Ids -> SourceType]
  BY <1>1 DEF SourceType
<1>3. \A i \in Ids : rows[i].record = None
  BY DEF IngestionInit
<1>4. rows \in [Ids -> Row]
  BY NoReaderShape DEF IngestionInit, Row
<1>5. order \in OrderType /\ order.status = "none" /\ order.scope = {}
  BY DEF IngestionInit, OrderType
<1>6. reader = NoReader
  BY DEF IngestionInit
<1>7. IngestionBacked
  BY <1>3, <1>5 DEF IngestionBacked
<1>8. QED
  BY <1>2, <1>3, <1>4, <1>5, <1>6, <1>7, NoReaderShape, NoReaderFits
     DEF IngestionInv, IngestionTypes

\* A step of the call that leaves catalogue, store and job alone.
LEMMA ReaderMoves ==
  ASSUME IngestionInv, NEW call \in ReaderType, ReaderFits(call), reader' = call,
         UNCHANGED <<source, rows, contents, order>>
  PROVE  IngestionInv'
BY DEF IngestionInv, IngestionTypes, ReaderFits, IngestionBacked, Reconciled

\* A step of the call that ends it and leaves the job running or failed.
LEMMA ReaderEnds ==
  ASSUME IngestionInv, reader' = NoReader, UNCHANGED <<source, contents>>,
         order' \in OrderType, order'.scope = order.scope, order'.status # "none",
         order'.status = "completed" => Reconciled /\ rows' = rows,
         rows' \in [Ids -> Row], \A i \in Ids : rows'[i].record = rows[i].record
  PROVE  IngestionInv'
<1>1. IngestionTypes'
  BY NoReaderShape DEF IngestionInv, IngestionTypes
<1>2. ReaderFits(reader)'
  BY NoReaderShape DEF ReaderFits
<1>3. \A i \in Ids : rows'[i].record # None =>
        /\ <<i, rows'[i].record>> \in DOMAIN contents' /\ i \in order'.scope /\ Supported(i)
  BY DEF IngestionInv, IngestionBacked
<1>4. order'.status = "completed" => Reconciled'
  BY DEF Reconciled
<1>5. IngestionBacked'
  BY <1>3, <1>4 DEF IngestionBacked, None
<1>6. QED
  BY <1>1, <1>2, <1>5 DEF IngestionInv

\* A connector error fails the job; the row of the file may say why.
LEMMA IngestFails ==
  ASSUME IngestionInv, FailIngest, UNCHANGED <<source, contents>>,
         rows' \in [Ids -> Row], \A i \in Ids : rows'[i].record = rows[i].record
  PROVE  IngestionInv'
<1>1. PICK next : next = [order EXCEPT !.status = "failed"]
  OBVIOUS
<1>2. next \in OrderType /\ next.status = "failed" /\ next.scope = order.scope
  BY <1>1 DEF IngestionInv, IngestionTypes, OrderType
<1>3. order' = next /\ reader' = NoReader
  BY <1>1 DEF FailIngest
<1>4. QED
  BY <1>2, <1>3, ReaderEnds

LEMMA IngestionStep == IngestionInv /\ [IngestionNext]_ingestionVars => IngestionInv'
<1> SUFFICES ASSUME IngestionInv, [IngestionNext]_ingestionVars PROVE IngestionInv'
  OBVIOUS
<1>0. /\ source \in [Ids -> SourceType] /\ rows \in [Ids -> Row] /\ order \in OrderType
      /\ reader \in ReaderType /\ ReaderFits(reader) /\ order.scope \subseteq Ids
      /\ reader.batch \subseteq Ids
  BY DEF IngestionInv, IngestionTypes, OrderType, ReaderType
<1>1. ASSUME NEW scope \in SUBSET Ids, Plan(scope) PROVE IngestionInv'
  <2>1. PICK next : next = [order EXCEPT !.scope = scope, !.status = "ready"]
    OBVIOUS
  <2>2. next \in OrderType /\ next.scope = scope /\ next.status = "ready"
    BY <1>0, <2>1 DEF OrderType
  <2>3. order' = next /\ UNCHANGED <<source, contents, reader>> /\ order.status = "none"
    BY <1>1, <2>1 DEF Plan
  <2>4. \A i \in Ids : rows'[i] = [rows[i] EXCEPT !.selected = i \in scope]
    BY <1>1 DEF Plan, SelectedRows
  <2>5. ASSUME NEW i \in Ids PROVE rows'[i] \in Row /\ rows'[i].record = rows[i].record
    <3>1. PICK chosen : chosen = (i \in scope)
      OBVIOUS
    <3>2. chosen \in BOOLEAN
      BY <3>1
    <3>3. rows'[i] = [rows[i] EXCEPT !.selected = chosen]
      BY <2>4, <3>1, Zenon
    <3>4. QED
      BY <1>0, <3>2, <3>3 DEF Row
  <2>6. rows' \in [Ids -> Row]
    BY <1>1, <2>5 DEF Plan, SelectedRows
  <2>7. \A i \in Ids : rows'[i].record = None
    BY <2>3, <2>5 DEF IngestionInv
  <2>8. reader.pc = "idle"
    BY <1>0, <2>3 DEF ReaderFits
  <2>9. reader.batch = {}
    BY <1>0, <2>8 DEF ReaderFits
  <2>10. ReaderFits(reader)'
    BY <2>3, <2>8, <2>9 DEF ReaderFits
  <2>11. IngestionBacked'
    BY <2>2, <2>3, <2>7 DEF IngestionBacked, None
  <2>12. IngestionTypes'
    BY <1>0, <2>2, <2>3, <2>6 DEF IngestionTypes
  <2>13. QED
    BY <2>2, <2>3, <2>10, <2>11, <2>12 DEF IngestionInv
<1>2. CASE BeginIngest
  <2>1. PICK last \in BOOLEAN : last = (FirstBatch = Remaining)
    BY Zenon
  <2>2. PICK batch \in SUBSET order.scope : batch = FirstBatch
    BY DEF FirstBatch, Remaining
  <2>3. PICK prints \in [Ids -> Nat] : prints = [i \in Ids |-> rows[i].print]
    BY <1>0 DEF Row
  <2>4. PICK call : call = [NoReader EXCEPT !.pc = "next", !.batch = batch, !.prints = prints,
                                            !.last = last]
    OBVIOUS
  <2>5. call = [pc |-> "next", at |-> None, batch |-> batch, prints |-> prints,
                hash |-> None, text |-> None, last |-> last]
    BY <2>4 DEF NoReader
  <2>6. call \in ReaderType /\ call.pc = "next" /\ call.batch = batch
    BY <1>0, <2>5, NoReaderShape DEF ReaderType
  <2>7. reader' = call
    BY <1>2, <2>1, <2>2, <2>3, <2>4, Zenon DEF BeginIngest
  <2>15. PICK attempts \in Nat : attempts = order.attempts + 1
    BY <1>0 DEF OrderType
  <2>8. PICK next : next = [order EXCEPT !.status = "running", !.attempts = attempts]
    OBVIOUS
  <2>9. next \in OrderType /\ next.status = "running" /\ next.scope = order.scope
    BY <1>0, <2>8 DEF OrderType
  <2>10. order' = next /\ UNCHANGED <<source, rows, contents>>
    BY <1>2, <2>8, <2>15 DEF BeginIngest
  <2>11. ReaderFits(reader)'
    BY <2>2, <2>6, <2>7, <2>9, <2>10 DEF ReaderFits
  <2>12. IngestionTypes'
    BY <1>0, <2>6, <2>7, <2>9, <2>10 DEF IngestionTypes
  <2>13. IngestionBacked'
    BY <2>9, <2>10 DEF IngestionInv, IngestionBacked
  <2>14. QED
    BY <2>9, <2>10, <2>11, <2>12, <2>13 DEF IngestionInv
<1>3. CASE CheckMetadata
  <2>1. PICK i \in reader.batch : i = First(reader.batch)
    BY <1>0, <1>3, FirstIsMember DEF CheckMetadata
  <2>2. /\ reader.pc = "next" /\ i \in Ids /\ i \in order.scope /\ i \in Nat
        /\ order.status = "running" /\ UNCHANGED <<source, contents>>
    BY <1>0, <1>3 DEF CheckMetadata, ReaderFits, Ids
  <2>3. CASE /\ ~Supported(i)
             /\ reader' = [reader EXCEPT !.batch = @ \ {i}, !.at = i]
             /\ UNCHANGED <<rows, order>>
    <3>1. PICK call : call = [reader EXCEPT !.batch = @ \ {i}, !.at = i]
      OBVIOUS
    <3>2. call \in ReaderType /\ call.pc = "next" /\ call.batch = reader.batch \ {i}
      BY <1>0, <2>2, <3>1 DEF ReaderType
    <3>3. ReaderFits(call)
      BY <1>0, <2>2, <3>2 DEF ReaderFits
    <3>4. QED
      BY <2>2, <2>3, <3>1, <3>2, <3>3, ReaderMoves
  <2>4. CASE /\ Supported(i)
             /\ reader' = [reader EXCEPT !.pc = "hashing", !.at = i]
             /\ UNCHANGED <<rows, order>>
    <3>1. PICK call : call = [reader EXCEPT !.pc = "hashing", !.at = i]
      OBVIOUS
    <3>2. /\ call \in ReaderType /\ call.pc = "hashing" /\ call.batch = reader.batch
          /\ call.at = i
      BY <1>0, <2>2, <3>1 DEF ReaderType
    <3>3. ReaderFits(call)
      BY <1>0, <2>2, <2>4, <3>2 DEF ReaderFits
    <3>4. QED
      BY <2>2, <2>4, <3>1, <3>2, <3>3, ReaderMoves
  <2>5. CASE rows' = [rows EXCEPT ![i].state = "source_changed"] /\ FailIngest
    <3>1. PICK row : row = [rows[i] EXCEPT !.state = "source_changed"]
      OBVIOUS
    <3>2. row \in Row /\ row.record = rows[i].record
      BY <1>0, <2>2, <3>1 DEF Row
    <3>3. rows' = [rows EXCEPT ![i] = row]
      BY <2>5, <3>1
    <3>4. rows' \in [Ids -> Row] /\ \A k \in Ids : rows'[k].record = rows[k].record
      BY <1>0, <3>2, <3>3
    <3>5. QED
      BY <2>2, <2>5, <3>4, IngestFails
  <2>6. QED
    BY <1>3, <2>1, <2>3, <2>4, <2>5 DEF CheckMetadata
<1>4. CASE HashContent
  <2>1. PICK version \in Nat : version = source[reader.at].version
    BY <1>0, <1>4 DEF HashContent, ReaderFits, SourceType
  <2>2. PICK call : call = [reader EXCEPT !.pc = "extracting", !.hash = version]
    OBVIOUS
  <2>3. /\ call \in ReaderType /\ call.pc = "extracting" /\ call.at = reader.at
        /\ call.batch = reader.batch
    BY <1>0, <2>2 DEF ReaderType
  <2>4. reader' = call /\ UNCHANGED <<source, rows, contents, order>> /\ reader.pc = "hashing"
    BY <1>4, <2>1, <2>2 DEF HashContent
  <2>5. ReaderFits(call)
    BY <1>0, <2>3, <2>4 DEF ReaderFits
  <2>6. QED
    BY <2>3, <2>4, <2>5, ReaderMoves
<1>5. CASE Extract
  <2>1. CASE source[reader.at].readable
    <3>1. PICK version \in Nat : version = source[reader.at].version
      BY <1>0, <1>5 DEF Extract, ReaderFits, SourceType
    <3>2. PICK call : call = [reader EXCEPT !.pc = "storing", !.text = version]
      OBVIOUS
    <3>3. /\ call \in ReaderType /\ call.pc = "storing" /\ call.at = reader.at
          /\ call.batch = reader.batch
      BY <1>0, <3>2 DEF ReaderType
    <3>4. reader' = call /\ UNCHANGED <<source, rows, contents, order>> /\ reader.pc = "extracting"
      BY <1>5, <2>1, <3>1, <3>2 DEF Extract
    <3>5. ReaderFits(call)
      BY <1>0, <3>3, <3>4 DEF ReaderFits
    <3>6. QED
      BY <3>3, <3>4, <3>5, ReaderMoves
  <2>2. CASE ~source[reader.at].readable
    <3>1. FailIngest /\ UNCHANGED <<source, rows, contents>>
      BY <1>5, <2>2 DEF Extract
    <3>2. QED
      BY <1>0, <3>1, IngestFails
  <2>3. QED
    BY <2>1, <2>2
<1>6. CASE StoreContent
  <2>1. PICK call : call = [reader EXCEPT !.pc = "marking"]
    OBVIOUS
  <2>2. /\ call \in ReaderType /\ call.pc = "marking" /\ call.at = reader.at
        /\ call.batch = reader.batch /\ call.hash = reader.hash
    BY <1>0, <2>1 DEF ReaderType
  <2>3. reader' = call /\ UNCHANGED <<source, rows, order>> /\ reader.pc = "writing"
    BY <1>6, <2>1 DEF StoreContent
  <2>4. DOMAIN contents' = DOMAIN contents \cup {<<reader.at, reader.hash>>}
    BY <1>6, Zenon DEF StoreContent, ContentKey
  <2>5. ReaderFits(reader)'
    BY <1>0, <2>2, <2>3, <2>4 DEF ReaderFits
  <2>6. IngestionBacked'
    BY <2>3, <2>4 DEF IngestionInv, IngestionBacked, Reconciled
  <2>7. QED
    BY <2>2, <2>3, <2>5, <2>6 DEF IngestionInv, IngestionTypes
<1>7. CASE MarkIngested
  <2>1. PICK at \in Ids : at = reader.at
    BY <1>0, <1>7 DEF MarkIngested, ReaderFits
  <2>2. reader.pc = "marking" /\ at \in order.scope /\ Supported(at)
        /\ <<at, reader.hash>> \in DOMAIN contents /\ order.status = "running"
    BY <1>0, <1>7, <2>1 DEF MarkIngested, ReaderFits
  <2>3. PICK row : row = [rows[at] EXCEPT !.state = "ingested", !.record = reader.hash]
    OBVIOUS
  <2>4. row \in Row /\ row.record = reader.hash
    BY <1>0, <2>3 DEF Row, ReaderType
  <2>5. rows' = [rows EXCEPT ![at] = row] /\ UNCHANGED <<source, contents, order>>
    BY <1>7, <2>1, <2>3 DEF MarkIngested, Ingested
  <2>6. PICK call : call = [reader EXCEPT !.pc = "next", !.batch = @ \ {at}]
    OBVIOUS
  <2>7. call \in ReaderType /\ call.pc = "next" /\ call.batch = reader.batch \ {at}
    BY <1>0, <2>6 DEF ReaderType
  <2>8. reader' = call
    BY <1>7, <2>1, <2>6 DEF MarkIngested
  <2>9. ReaderFits(reader)'
    BY <1>0, <2>2, <2>5, <2>7, <2>8 DEF ReaderFits
  <2>10. \A i \in Ids : rows'[i] = IF i = at THEN row ELSE rows[i]
    BY <1>0, <2>5
  <2>11. IngestionTypes'
    BY <1>0, <2>4, <2>5, <2>7, <2>8 DEF IngestionTypes
  <2>12. IngestionBacked'
    BY <2>2, <2>4, <2>5, <2>10 DEF IngestionInv, IngestionBacked
  <2>13. QED
    BY <2>2, <2>5, <2>9, <2>11, <2>12 DEF IngestionInv
<1>8. CASE FinishBatch
  <2>1. order.status = "running" /\ reader' = NoReader /\ UNCHANGED <<source, rows, contents>>
    BY <1>0, <1>8 DEF FinishBatch, ReaderFits
  <2>2. CASE reader.last
    <3>1. PICK status \in {"completed", "failed"} :
            status = IF Reconciled THEN "completed" ELSE "failed"
      OBVIOUS
    <3>2. PICK next : next = [order EXCEPT !.status = status]
      OBVIOUS
    <3>3. next \in OrderType /\ next.status = status /\ next.scope = order.scope
      BY <1>0, <3>1, <3>2 DEF OrderType
    <3>4. order' = next
      BY <1>8, <2>2, <3>1, <3>2 DEF FinishBatch
    <3>5. order'.status = "completed" => Reconciled
      BY <3>1, <3>3, <3>4
    <3>6. QED
      BY <1>0, <2>1, <3>1, <3>3, <3>4, <3>5, ReaderEnds
  <2>3. CASE ~reader.last
    <3>1. PICK next : next = [order EXCEPT !.checkpoint = reader.at]
      OBVIOUS
    <3>2. next \in OrderType /\ next.status = "running" /\ next.scope = order.scope
      BY <1>0, <2>1, <3>1 DEF OrderType, ReaderType
    <3>3. order' = next
      BY <1>8, <2>3, <3>1 DEF FinishBatch
    <3>4. QED
      BY <1>0, <2>1, <3>2, <3>3, ReaderEnds
  <2>4. QED
    BY <2>2, <2>3
<1>9. CASE DieReading
  BY <1>9, NoReaderShape, NoReaderFits, ReaderMoves DEF DieReading
<1>10. ASSUME NEW i \in Ids, Edit(i) PROVE IngestionInv'
  <2>1. PICK file : file = [source[i] EXCEPT !.version = @ + 1]
    OBVIOUS
  <2>2. file \in SourceType /\ source' = [source EXCEPT ![i] = file]
    BY <1>0, <1>10, <2>1 DEF Edit, SourceType
  <2>3. source' \in [Ids -> SourceType] /\ UNCHANGED <<rows, contents, order, reader>>
    BY <1>0, <1>10, <2>2 DEF Edit
  <2>4. QED
    BY <2>3 DEF IngestionInv, IngestionTypes, ReaderFits, IngestionBacked, Reconciled
<1>11. ASSUME NEW i \in Ids, Rediscover(i) PROVE IngestionInv'
  <2>1. PICK row : row = Refreshed(rows[i], i, source[i].version)
    OBVIOUS
  <2>2. row \in Row /\ row.record = rows[i].record
    <3>1. PICK state \in {"discovered", "unsupported", "ingested", "source_changed"} :
            state = IF rows[i].state = "ingested" THEN rows[i].state
                    ELSE IF Supported(i) THEN "discovered" ELSE "unsupported"
      BY <1>0 DEF Row
    <3>2. PICK version \in Nat : version = source[i].version
      BY <1>0 DEF SourceType
    <3>3. row = [rows[i] EXCEPT !.print = version, !.state = state]
      BY <1>0, <2>1, <3>1, <3>2 DEF Refreshed, Row
    <3>4. QED
      BY <1>0, <3>3 DEF Row
  <2>3. rows' = [rows EXCEPT ![i] = row] /\ UNCHANGED <<source, contents, order, reader>>
    BY <1>11, <2>1 DEF Rediscover
  <2>4. rows' \in [Ids -> Row] /\ \A k \in Ids : rows'[k].record = rows[k].record
    BY <1>0, <2>2, <2>3
  <2>5. IngestionBacked'
    BY <1>0, <2>3, <2>4 DEF IngestionInv, IngestionBacked, Reconciled, None
  <2>6. QED
    BY <2>3, <2>4, <2>5 DEF IngestionInv, IngestionTypes, ReaderFits
<1>12. CASE UNCHANGED ingestionVars
  BY <1>0, <1>12, ReaderMoves DEF ingestionVars
<1>13. CASE OpenTemporary
  <2>1. reader.pc = "storing" /\ UNCHANGED <<source, rows, contents, order>>
    BY <1>13 DEF OpenTemporary
  <2>2. CASE ContentKey \in DOMAIN contents /\ reader' = [reader EXCEPT !.pc = "marking"]
    <3>1. PICK call : call = [reader EXCEPT !.pc = "marking"]
      OBVIOUS
    <3>2. /\ call \in ReaderType /\ call.pc = "marking" /\ call.at = reader.at
          /\ call.batch = reader.batch /\ call.hash = reader.hash
      BY <1>0, <3>1 DEF ReaderType
    <3>3. ReaderFits(call)
      BY <1>0, <2>1, <2>2, <3>2 DEF ReaderFits, ContentKey
    <3>4. QED
      BY <2>1, <2>2, <3>1, <3>2, <3>3, ReaderMoves
  <2>3. CASE reader' = [reader EXCEPT !.pc = "writing"]
    <3>1. PICK call : call = [reader EXCEPT !.pc = "writing"]
      OBVIOUS
    <3>2. /\ call \in ReaderType /\ call.pc = "writing" /\ call.at = reader.at
          /\ call.batch = reader.batch
      BY <1>0, <3>1 DEF ReaderType
    <3>3. ReaderFits(call)
      BY <1>0, <2>1, <3>2 DEF ReaderFits
    <3>4. QED
      BY <2>1, <2>3, <3>1, <3>2, <3>3, ReaderMoves
  <2>4. CASE reader' = NoReader
    BY <2>1, <2>4, NoReaderShape, NoReaderFits, ReaderMoves
  <2>5. QED
    BY <1>13, <2>2, <2>3, <2>4 DEF OpenTemporary
<1>14. CASE StoreFails
  BY <1>14, NoReaderShape, NoReaderFits, ReaderMoves DEF StoreFails
<1>15. QED
  BY <1>1, <1>2, <1>3, <1>4, <1>5, <1>6, <1>7, <1>8, <1>9, <1>10, <1>11, <1>12, <1>13, <1>14
     DEF IngestionNext

(***************************************************************************)
(* The composition.  A step of the system is one of the component in focus *)
(* and a stutter of each store that is not.                                *)
(***************************************************************************)
LEMMA StoresStep ==
  ASSUME [Next]_vars
  PROVE  /\ [GraphNext]_graphVars
         /\ [InspectionNext]_inspectionVars
         /\ [BackupNext]_backupVars
         /\ [IngestionNext]_ingestionVars
<1>1. CASE UNCHANGED vars
  BY <1>1 DEF vars
<1>2. CASE Next
  BY <1>2, Zenon DEF Next, Only
<1>3. QED
  BY <1>1, <1>2

LEMMA StoresInit ==
  ASSUME Init PROVE GraphInit /\ InspectionInit /\ BackupInit /\ IngestionInit
BY DEF Init

\* No email up to the checkpoint of the knowledge graph is missing from it and all facts
\* come from one version of the rules, for any number of overlapping extraction runs, any
\* batch size and any arrival of emails (apply_batch writes its checkpoint blindly).
THEOREM GraphComplete == Spec => []GraphCovers
<1>1. Init => GraphInv
  BY StoresInit, GraphInitInv
<1>2. GraphInv /\ [Next]_vars => GraphInv'
  BY StoresStep, GraphStep
<1>3. GraphInv => GraphCovers
  BY DEF GraphInv
<1>4. QED
  BY <1>1, <1>2, <1>3, PTL DEF Spec

\* One attempt per run directory, whatever dies and however many executors are started on
\* it: the GETs that left are a prefix of the plan, each after the reply before it was
\* verified, and the artifact names every one of them (SchemaExecutor.run, _get).
THEOREM OneAttempt == Spec => []InspectionAccounted
<1>1. Init => InspectionInv
  BY StoresInit, InspectionInitInv
<1>2. InspectionInv /\ [Next]_vars => InspectionInv'
  BY StoresStep, InspectionStep
<1>3. InspectionInv => InspectionAccounted
  BY DEF InspectionInv
<1>4. QED
  BY <1>1, <1>2, <1>3, PTL DEF Spec

\* A published manifest stands on whole work, for any number of overlapping backups and
\* restores, of files written, replaced or damaged meanwhile (create, verify, restore).
THEOREM ManifestsStand == Spec => []ManifestWhole
<1>1. Init => BackupInv
  BY StoresInit, BackupInitInv
<1>2. BackupInv /\ [Next]_vars => BackupInv'
  BY StoresStep, BackupStep
<1>3. BackupInv => ManifestWhole
  BY DEF BackupInv
<1>4. QED
  BY <1>1, <1>2, <1>3, PTL DEF Spec

\* A marked row has its content, inside the approved scope, and a completed job has read
\* all of it, for any batch size and any number of edits, crashes and claims (ingest).
THEOREM IngestionStands == Spec => []IngestionBacked
<1>1. Init => IngestionInv
  BY StoresInit, IngestionInitInv
<1>2. IngestionInv /\ [Next]_vars => IngestionInv'
  BY StoresStep, IngestionStep
<1>3. IngestionInv => IngestionBacked
  BY DEF IngestionInv
<1>4. QED
  BY <1>1, <1>2, <1>3, PTL DEF Spec
=============================================================================
