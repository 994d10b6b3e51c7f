----------------------------- MODULE Components -----------------------------
(***************************************************************************)
(* The components beside jobs, scheduler and dispatch, in one              *)
(* specification: delegated authority, the development orchestrator, the   *)
(* capability policy, action proposals, discovery and ingestion of local   *)
(* files, the Outlook import, the email store, the knowledge graph, the    *)
(* SharePoint schema inspection, backups, the admission of mail and the    *)
(* disclosure of a context.  Each keeps its state in files, tables or      *)
(* memory of its own and none waits for another: a behaviour here is one   *)
(* of the component in focus, while the others rest in an initial state.   *)
(***************************************************************************)
EXTENDS Delegation, Orchestrator, CorePolicy, ActionReview, LocalDiscovery, LocalIngestion,
        OutlookImport, MailMemory, KnowledgeGraph, SchemaInspection, OperationalBackup,
        MailAdmission, ContextDisclosure

VARIABLE focus

vars == <<delegationVars, orchestratorVars, policyVars, actionVars, discoveryVars,
          ingestionVars, importVars, mailVars, graphVars, inspectionVars, backupVars,
          admissionVars, contextVars, focus>>

ComponentNames == {"delegation", "orchestrator", "policy", "actions", "discovery", "ingestion",
                   "import", "mail", "graph", "inspection", "backup", "admission", "context"}

Resting(name, state, at) == focus # name => state = at

SomeRoadmap == CHOOSE r \in Roadmaps : TRUE

PlainTree == [odd |-> [n \in Nodes |-> "plain"], present |-> Nodes,
              stamp |-> [d \in Directories |-> 0]]

Init ==
    /\ focus \in ComponentNames
    /\ DelegationInit /\ Resting("delegation", claims, [o \in OperationIds |-> NoClaim])
    /\ OrchestratorInit /\ Resting("orchestrator", roadmap, SomeRoadmap)
    /\ PolicyInit
    /\ ActionInit /\ Resting("actions", actionStore, "sqlite")
    /\ DiscoveryInit
    /\ Resting("discovery", <<settings, tree>>, <<CHOOSE c \in Configurations : c.allowed, PlainTree>>)
    /\ IngestionInit /\ Resting("ingestion", source[2].readable, TRUE)
    /\ ImportInit /\ Resting("import", <<mailbox, schema>>, <<CHOOSE m \in Mailboxes : TRUE, "none">>)
    /\ MailInit /\ Resting("mail", <<directory, statusTable>>, <<CHOOSE d \in MailDirectories : TRUE, TRUE>>)
    /\ GraphInit
    /\ InspectionInit /\ Resting("inspection", mode, "full")
    /\ BackupInit
    /\ AdmissionInit /\ Resting("admission", scopeMode, "admission-v2")
    /\ ContextInit

Only(name, step) == focus = name /\ step /\ UNCHANGED focus

Next ==
    \/ /\ Only("delegation", DelegationNext)
       /\ UNCHANGED <<orchestratorVars, policyVars, actionVars, discoveryVars, ingestionVars,
                      importVars, mailVars, graphVars, inspectionVars, backupVars,
                      admissionVars, contextVars>>
    \/ /\ Only("orchestrator", OrchestratorNext)
       /\ UNCHANGED <<delegationVars, policyVars, actionVars, discoveryVars, ingestionVars,
                      importVars, mailVars, graphVars, inspectionVars, backupVars,
                      admissionVars, contextVars>>
    \/ /\ Only("policy", PolicyNext)
       /\ UNCHANGED <<delegationVars, orchestratorVars, actionVars, discoveryVars, ingestionVars,
                      importVars, mailVars, graphVars, inspectionVars, backupVars,
                      admissionVars, contextVars>>
    \/ /\ Only("actions", ActionNext)
       /\ UNCHANGED <<delegationVars, orchestratorVars, policyVars, discoveryVars, ingestionVars,
                      importVars, mailVars, graphVars, inspectionVars, backupVars,
                      admissionVars, contextVars>>
    \/ /\ Only("discovery", DiscoveryNext)
       /\ UNCHANGED <<delegationVars, orchestratorVars, policyVars, actionVars, ingestionVars,
                      importVars, mailVars, graphVars, inspectionVars, backupVars,
                      admissionVars, contextVars>>
    \/ /\ Only("ingestion", IngestionNext)
       /\ UNCHANGED <<delegationVars, orchestratorVars, policyVars, actionVars, discoveryVars,
                      importVars, mailVars, graphVars, inspectionVars, backupVars,
                      admissionVars, contextVars>>
    \/ /\ Only("import", ImportNext)
       /\ UNCHANGED <<delegationVars, orchestratorVars, policyVars, actionVars, discoveryVars,
                      ingestionVars, mailVars, graphVars, inspectionVars, backupVars,
                      admissionVars, contextVars>>
    \/ /\ Only("mail", MailNext)
       /\ UNCHANGED <<delegationVars, orchestratorVars, policyVars, actionVars, discoveryVars,
                      ingestionVars, importVars, graphVars, inspectionVars, backupVars,
                      admissionVars, contextVars>>
    \/ /\ Only("graph", GraphNext)
       /\ UNCHANGED <<delegationVars, orchestratorVars, policyVars, actionVars, discoveryVars,
                      ingestionVars, importVars, mailVars, inspectionVars, backupVars,
                      admissionVars, contextVars>>
    \/ /\ Only("inspection", InspectionNext)
       /\ UNCHANGED <<delegationVars, orchestratorVars, policyVars, actionVars, discoveryVars,
                      ingestionVars, importVars, mailVars, graphVars, backupVars,
                      admissionVars, contextVars>>
    \/ /\ Only("backup", BackupNext)
       /\ UNCHANGED <<delegationVars, orchestratorVars, policyVars, actionVars, discoveryVars,
                      ingestionVars, importVars, mailVars, graphVars, inspectionVars,
                      admissionVars, contextVars>>
    \/ /\ Only("admission", AdmissionNext)
       /\ UNCHANGED <<delegationVars, orchestratorVars, policyVars, actionVars, discoveryVars,
                      ingestionVars, importVars, mailVars, graphVars, inspectionVars, backupVars,
                      contextVars>>
    \/ /\ Only("context", ContextNext)
       /\ UNCHANGED <<delegationVars, orchestratorVars, policyVars, actionVars, discoveryVars,
                      ingestionVars, importVars, mailVars, graphVars, inspectionVars, backupVars,
                      admissionVars>>

\* Nothing in these components has to happen: they act when they are called.
Spec == Init /\ [][Next]_vars

(***************************************************************************)
(* Properties of more than one component; the others are those of the      *)
(* component modules.                                                      *)
(***************************************************************************)
TypeOK ==
    /\ focus \in ComponentNames
    /\ focus = "delegation" => DelegationTypeOK
    /\ focus = "orchestrator" => OrchestratorTypeOK
    /\ focus = "policy" => PolicyTypeOK
    /\ focus = "actions" => ActionTypeOK
    /\ focus = "discovery" => DiscoveryTypeOK
    /\ focus = "ingestion" => IngestionTypeOK
    /\ focus = "import" => ImportTypeOK
    /\ focus = "mail" => MailTypeOK
    /\ focus = "graph" => GraphTypeOK
    /\ focus = "inspection" => InspectionTypeOK
    /\ focus = "backup" => BackupTypeOK
    /\ focus = "admission" => AdmissionTypeOK
    /\ focus = "context" => ContextTypeOK

\* The decisions that admit an effect admit nothing their documents do not: a delegated
\* claim (_denial_reason), a checkpoint that is pushed (evaluate_git_checkpoint), a use
\* of a capability (evaluate_capability_use), a review of a proposal (_review), the
\* admission of mail (_admit_batch) and a disclosure to a model (decide, project).
DecisionsConfined ==
    /\ focus = "delegation" => AdmittedWithinGrant
    /\ focus = "orchestrator" => CheckpointConfined
    /\ focus = "policy" => ReadyJustified
    /\ focus = "actions" => ActionsConfined
    /\ focus = "admission" => AdmissionConfined
    /\ focus = "context" => DisclosureConfined

\* What a store says is complete is complete, whatever failed, died, overlapped or was
\* repeated on the way: a discovery that ended (discover), an import run whose outcome
\* is "complete" (ingest_outlook), a mailbox whose status is "completed" (import_mbox).
CompletionHonest ==
    /\ focus = "discovery" => DiscoveryComplete
    /\ focus = "import" => ImportComplete
    /\ focus = "mail" => MailCompleted

\* The counts an import reports are those of the rows it stored: the outcome row of an
\* Outlook run (InsertRecord's transaction), the summary of a directory import; and the
\* coverage of a context hides nothing a source returned (assemble).
CountsAgree ==
    /\ focus = "import" => ImportCountsAgree
    /\ focus = "mail" => MailCountsAgree
    /\ focus = "context" => ContextAccountable
=============================================================================
