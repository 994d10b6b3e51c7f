--------------------------- MODULE CompositionProofs ---------------------------
(***************************************************************************)
(* The components that decide and admit, among the others: in a behaviour  *)
(* of all the components each of them takes its own steps or rests, so     *)
(* that what is proved of a component on its own holds of the whole.       *)
(***************************************************************************)
EXTENDS Components, AuthorityProofs, DecisionProofs, StoresProofs, ImportProofs

LEMMA AuthorityInit ==
  Init => DelegationInit /\ OrchestratorInit /\ PolicyInit /\ ActionInit /\ AdmissionInit
BY DEF Init

LEMMA AuthorityStep ==
  [Next]_vars => /\ [DelegationNext]_delegationVars
                 /\ [OrchestratorNext]_orchestratorVars
                 /\ [PolicyNext]_policyVars
                 /\ [ActionNext]_actionVars
                 /\ [AdmissionNext]_admissionVars
<1> SUFFICES ASSUME [Next]_vars
             PROVE  /\ [DelegationNext]_delegationVars
                    /\ [OrchestratorNext]_orchestratorVars
                    /\ [PolicyNext]_policyVars
                    /\ [ActionNext]_actionVars
                    /\ [AdmissionNext]_admissionVars
  OBVIOUS
<1>1. CASE UNCHANGED vars
  BY <1>1 DEF vars
<1>2. CASE Next
  BY <1>2, Zenon DEF Next, Only
<1>3. QED
  BY <1>1, <1>2

\* Every behaviour of the components is, for each of these five, one of its own.
LEMMA AuthoritySpecs ==
  Spec => DelegationSpec /\ OrchestratorSpec /\ PolicySpec /\ ActionSpec /\ AdmissionSpec
<1>1. QED
  BY AuthorityInit, AuthorityStep, PTL
  DEF Spec, DelegationSpec, OrchestratorSpec, PolicySpec, ActionSpec, AdmissionSpec

\* The audit chain of every grant tells the story of the grants and claims tables,
\* whatever commands, programs and owner interleave (claim, complete, activate, _terminal).
THEOREM AuditChain == Spec => []DelegationAuditAgrees
<1>1. DelegationInv => DelegationAuditAgrees
  BY AuditTold DEF DelegationInv
<1>2. QED
  BY <1>1, AuthoritySpecs, DelegationStands, PTL

\* Once a grant is revoked or killed no claim of it is made, completed or reported
\* (validate_claim, complete).
THEOREM GrantFrozen == Spec => TerminalGrantFrozen
<1>1. QED
  BY AuthoritySpecs, DelegationFrozen, PTL

\* Every claim is of a request the owner's documents allow (_denial_reason).
THEOREM ClaimsAdmissible == Spec => []AdmittedWithinGrant
<1>1. DelegationInv => AdmittedWithinGrant
  BY DEF DelegationInv
<1>2. QED
  BY <1>1, AuthoritySpecs, DelegationStands, PTL

\* A task that was refused is in the report of the run (run, _select, _execute_task).
THEOREM Escalates == Spec => []EscalationVisible
<1>1. OrchestratorInv => EscalationVisible
  BY DEF OrchestratorInv
<1>2. QED
  BY <1>1, AuthoritySpecs, OrchestratorStands, PTL

\* What is pushed went to the upstream of its feature branch (evaluate_git_checkpoint).
THEOREM CheckpointsConform == Spec => []CheckpointConfined
<1>1. OrchestratorInv => CheckpointConfined
  BY DEF OrchestratorInv
<1>2. QED
  BY <1>1, AuthoritySpecs, OrchestratorStands, PTL

\* A run of the orchestrator ends within its limits (run, _execute_task).
THEOREM RunsEnd == Spec => RunDescends
<1>1. QED
  BY AuthoritySpecs, OrchestratorDescends, PTL

\* What is found ready is ready by every authority (evaluate_capability_use).
THEOREM UseJustified == Spec => []ReadyJustified
<1>1. QED
  BY AuthoritySpecs, PolicyJustified, PTL

\* Authority is only ever given (PermissionEvaluator.evaluate).
THEOREM AuthorityGiven == Spec => OnlyGrantsGrant
<1>1. QED
  BY AuthoritySpecs, PolicyGrants, PTL

\* A review approves only what can be approved then and executes nothing, also of what a
\* revision has stored, and it stays with the proposal it decided (_review, revise).
THEOREM ApprovalsConform == Spec => []ActionsConfined
<1>1. QED
  BY AuthoritySpecs, ActionsStand, ActionsFollow, PTL

\* Mail is admitted by fresh, approved, unambiguous evidence only, and what could not be
\* decided is reported (_admit_batch, decide).
THEOREM AdmissionsConform == Spec => []AdmissionConfined
<1>1. AdmissionInv => AdmissionConfined
  BY DEF AdmissionInv
<1>2. QED
  BY <1>1, AuthoritySpecs, AdmissionStands, PTL

(***************************************************************************)
(* The components that import and assemble, among the others.              *)
(***************************************************************************)
LEMMA ImportsInit == ASSUME Init PROVE DiscoveryInit /\ ImportInit /\ MailInit /\ ContextInit
BY DEF Init

LEMMA ImportsStep ==
  ASSUME [Next]_vars
  PROVE  /\ [DiscoveryNext]_discoveryVars
         /\ [ImportNext]_importVars
         /\ [MailNext]_mailVars
         /\ [ContextNext]_contextVars
<1>1. CASE UNCHANGED vars
  BY <1>1 DEF vars
<1>2. CASE Next
  BY <1>2, Zenon DEF Next, Only
<1>3. QED
  BY <1>1, <1>2

\* Every behaviour of the components is, for each of these four, one of its own.
LEMMA ImportsSpecs == Spec => DiscoverySpec /\ ImportSpec /\ MailSpec /\ ContextSpec
<1>1. Init => DiscoveryInit /\ ImportInit /\ MailInit /\ ContextInit
  BY ImportsInit
<1>2. [Next]_vars => /\ [DiscoveryNext]_discoveryVars
                     /\ [ImportNext]_importVars
                     /\ [MailNext]_mailVars
                     /\ [ContextNext]_contextVars
  BY ImportsStep
<1>3. QED
  BY <1>1, <1>2, PTL DEF Spec, DiscoverySpec, ImportSpec, MailSpec, ContextSpec

\* Every file a discovery leaves out is counted under its reason (discover, _exclude).
THEOREM ExclusionsStand == Spec => []ExclusionsCounted
<1>1. QED
  BY ImportsSpecs, DiscoveryStands, PTL

\* What a store says is complete is complete, whatever failed, died, overlapped or was
\* repeated on the way (discover, ingest_outlook, import_mbox).
THEOREM CompletionStands == Spec => []CompletionHonest
<1>1. ImportInv => ImportComplete
  BY DEF ImportInv
<1>2. DiscoveryComplete /\ ImportComplete /\ MailCompleted => CompletionHonest
  BY DEF CompletionHonest
<1>3. QED
  BY <1>1, <1>2, ImportsSpecs, DiscoveryStands, ImportStands, MailStands, PTL

\* The counts an import reports are those of the rows it stored, and the coverage of a
\* context hides nothing a source returned (InsertRecord's transaction, assemble).
THEOREM CountsStand == Spec => []CountsAgree
<1>1. ImportInv => ImportCountsAgree
  BY DEF ImportInv
<1>2. ImportCountsAgree /\ MailCountsAgree /\ ContextAccountable => CountsAgree
  BY DEF CountsAgree
<1>3. QED
  BY <1>1, <1>2, ImportsSpecs, ImportStands, MailStands, ContextStands, PTL

\* The decisions that admit an effect admit nothing their documents do not: a delegated
\* claim, a checkpoint, a use of a capability, the review of a proposal, an admission of mail
\* and a disclosure (_denial_reason, evaluate_git_checkpoint, evaluate_capability_use, _review,
\* _admit_batch, decide and project).
THEOREM DecisionsStand == Spec => []DecisionsConfined
<1>1. (/\ AdmittedWithinGrant /\ CheckpointConfined /\ ReadyJustified
       /\ ActionsConfined /\ AdmissionConfined /\ DisclosureConfined) => DecisionsConfined
  BY DEF DecisionsConfined
<1>2. QED
  BY <1>1, ImportsSpecs, ClaimsAdmissible, CheckpointsConform, UseJustified, ApprovalsConform,
     AdmissionsConform, ContextStands, PTL

Focused == focus \in ComponentNames

\* The component in focus stays within its types and bounds, and the focus where it is.
THEOREM ComponentsTyped == Spec => []TypeOK
<1>1. Init => Focused
  BY DEF Init, Focused
<1>2. Focused /\ [Next]_vars => Focused'
  <2>1. Next => UNCHANGED focus
    BY Zenon DEF Next, Only
  <2>2. QED
    BY <2>1 DEF vars, Focused
<1>3. DelegationInv => DelegationTypeOK
  BY DEF DelegationInv, DelegationTypes, DelegationTypeOK
<1>4. OrchestratorInv => OrchestratorTypeOK
  BY DEF OrchestratorInv
<1>5. PolicyInv => PolicyTypeOK
  BY DEF PolicyInv, PolicyTypeOK
<1>6. ImportInv => ImportTypeOK
  BY DEF ImportInv
<1>7. GraphInv => GraphTypeOK
  BY DEF GraphInv
<1>8. InspectionInv => InspectionTypeOK
  <2> SUFFICES ASSUME InspectionInv PROVE InspectionTypeOK
    OBVIOUS
  <2>1. storage.artifact \in ArtifactType /\ mode \in {"full", "projects"}
    BY DEF InspectionInv, InspectionTypes, Storage
  <2>2. \A e \in Executors : runners[e].request \in 0 .. Budget + 1
    BY DEF InspectionInv, InspectionTypes, RunnerType
  <2>3. QED
    BY <2>1, <2>2 DEF InspectionTypeOK, ArtifactType
<1>9. BackupInv => BackupTypeOK
  BY DEF BackupInv, BackupTypes, BackupTypeOK, DirType, BackupProc, FileKinds, FileContents,
         BackupContent, FileVersions
<1>10. IngestionInv => IngestionTypeOK
  BY DEF IngestionInv, IngestionTypes, IngestionTypeOK, OrderType, ReaderType
<1>11. Spec => [](GraphInv /\ InspectionInv /\ BackupInv /\ IngestionInv)
  <2>1. Init => GraphInv /\ InspectionInv /\ BackupInv /\ IngestionInv
    BY StoresInit, GraphInitInv, InspectionInitInv, BackupInitInv, IngestionInitInv
  <2>2. GraphInv /\ InspectionInv /\ BackupInv /\ IngestionInv /\ [Next]_vars
          => (GraphInv /\ InspectionInv /\ BackupInv /\ IngestionInv)'
    BY StoresStep, GraphStep, InspectionStep, BackupStep, IngestionStep
  <2>3. QED
    BY <2>1, <2>2, PTL DEF Spec
<1>12. (/\ Focused /\ DelegationTypeOK /\ OrchestratorTypeOK /\ PolicyTypeOK
        /\ ActionTypeOK /\ DiscoveryTypeOK /\ IngestionTypeOK /\ ImportTypeOK /\ MailTypeOK
        /\ GraphTypeOK /\ InspectionTypeOK /\ BackupTypeOK /\ AdmissionTypeOK /\ ContextTypeOK)
          => TypeOK
  BY DEF TypeOK, Focused
<1>13. Spec => []Focused
  BY <1>1, <1>2, PTL DEF Spec
<1>14. QED
  BY <1>3, <1>4, <1>5, <1>6, <1>7, <1>8, <1>9, <1>10, <1>11, <1>12, <1>13, AuthoritySpecs,
     ImportsSpecs, DelegationStands, OrchestratorStands, PolicyStands, ActionsTyped, DiscoveryStands,
     ImportStands, MailStands, AdmissionTyped, ContextStands, PTL
=============================================================================
