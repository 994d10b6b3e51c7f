# A TLA+ verification project for EDN OS

EDN OS (`src/src/edn`, Python 3) is a local-first owner assistant: it indexes files and
mail through connectors, runs approved jobs on them, prepares a daily brief and may send a
minimised projection of it to a model provider. All state is in SQLite databases and
owner-only files on one machine. There is no server; concurrency comes from several
processes (command lines, the UI, scheduled calls) on the same databases and files, and
from processes that die half way.

This directory models the parts that carry that risk, checks them with TLC and proves
with TLAPS the safety properties of the job engine (with the refinement of its abstract
leases), the scheduler, the provider dispatch and the other modelled components. Paths below are relative to `src/src/edn`.

## 1. Inventory

| component | state | operations | what is hard | what makes it correct |
|---|---|---|---|---|
| **jobs** (`jobs/`) | SQLite: jobs, job_attempts, checkpoints, audit_events | create, bind_approval, pause, resume, cancel, recover_interrupted; the worker's claim, execute, checkpoint, verify, retry | every operation reads in one transaction and writes a whole row in another, comparing only the status | one executor per job, durable checkpoints, approvals honoured, terminal statuses absorbing, jobs settle |
| **daily scheduler** (`intelligence/operations.py`) | SQLite: one schedule, one run per slot | tick, retry, mark_missed, recover_interrupted | the schedule is written back whole after the runner ran; several transactions per call | one brief per slot, final results, no slot skipped, the schedule moves on |
| **provider dispatch** (`intelligence/openai_provider.py`, `provider_*_store.py`) | files (active, claimed envelope; results), SQLite budget ledger, hash-chained journal | preflight, approve, claim, admit, transport, result, retry, cancel, reconcile | look-then-rename on files; crash around the transport; midnight; limits shared by requests | one claimant, nothing replayed, everything sent is charged, a claim is given up (but see finding 6) |
| **actions** (`intelligence/actions.py`) | SQLite or in-memory proposals | plan, review, revise | decisions on a proposal read earlier | a review approves only what is approvable now, executes nothing, stays with the proposal it decided |
| **backup** (`intelligence/backup.py`) | a directory and its manifest | create, verify, restore | files written or damaged between two steps, crashes | a manifest means a complete and consistent copy |
| **core** (`core/`) | capability registry, policy rules | register, unregister, evaluate | precedence of rules, expiry | default deny; only a grant grants |
| **local files** (`connectors/local_files`) | SQLite catalogue, traversal cursor, content store | discover, plan, ingest, verify | several transactions per batch, replay, a tree that changes | complete means complete, marked rows are backed by content |
| **schema inspection** (`connectors/microsoft_sharepoint/schema_*`) | a run directory with one artifact | launch, sign in, the planned GETs | death inside the artifact's rewriting, a second executor | one attempt, every GET accounted for |
| **delegation** (`development/delegation.py`) | SQLite grants, claims, audit chain | activate, claim, complete, revoke, kill switch | revocation between two commands | no operation outside its grant, a chain that agrees |
| **orchestrator** (`development/`) | roadmap, state file | select, execute, repair, review, complete | limits, refused tasks on the way, crashes | runs end, no refusal unseen, no push elsewhere |
| **Outlook import** (`operations/`) | SQLite events, identities, import outcomes | ingest pages, insert, finalise, migrate | crash between records, overlap, repetition | no event twice, outcome agrees with the events |
| **memory** (`memory/`) | SQLite emails, import status | import mboxes in batches | overlapping and interrupted imports | completed means stored, counts agree |
| **knowledge graph** (`knowledge_graph/`) | SQLite facts and one checkpoint | extract pages, apply | blind checkpoint, two program versions | nothing behind the checkpoint is missing |
| **Outlook search** (`connectors/microsoft_outlook`) | relationship snapshots under a grant | search folders, admit the batch | snapshots that grow old or are replaced after the approval, duplicates and conflicts over folders | nothing admitted without a current reason, no gap passed off as irrelevance |
| **context and model boundary** (`intelligence/context.py`, `model_boundary.py`) | none durable | ask the sources, select in turn, decide, cut and redact | four places that drop items and three that count them; cut before redaction | coverage accounts for every item, nothing beyond ceiling or budget, no excerpt with a marked value |
| sessions, briefs (`intelligence/`) | none durable | assembly of text | | |
| other Microsoft connectors, connector framework | none | paged reads | limits, repeated continuations | bounded requests |
| retrieval, work capture, UI, foundation | none of their own | search, compile, present | | |

Interactions. The jobs worker calls a connector through the capability registry and the
policy evaluator and passes it the checkpoint it resumes from. The daily scheduler calls a
runner that assembles the brief. The provider dispatch reads the model boundary's
projection and writes four stores. Discovery and ingestion are called by the jobs worker
and store their checkpoints through it; the knowledge graph reads the email store by row
id. Nothing notifies anything: processes meet only in the databases and the files.

`PROJECT.json` lists every component with its status, and under `hazards` the places where
this code is hard to test, at their lines.

## 2. Modules

| module | role |
|---|---|
| `Jobs` | the job engine: store, service and worker |
| `JobLease` | what it promises: exclusive leases, without tables or stale rows |
| `MCJobs` | symmetry sets for TLC |
| `JobsProofs` | theorems about `Jobs`: types, exclusive execution, checkpoints, approvals, attempts, audit and the refinement of `JobLease` |
| `DailyOperations`, `MCDailyOperations` | the daily scheduler |
| `DailyOperationsProofs` | theorems about it |
| `ProviderDispatch`, `MCProviderDispatch` | the protected path to the provider |
| `ProviderDispatchProofs` | theorems about it |
| `Delegation` | delegated authority: the store and its command line |
| `Orchestrator` | governed development runs |
| `CorePolicy` | capability registry, policy and their composition |
| `ActionReview` | action proposals and their review |
| `LocalDiscovery`, `LocalIngestion` | the local files connector, before and after the approval |
| `OutlookImport` | Operations Events and the bounded mailbox import |
| `MailMemory`, `KnowledgeGraph` | the email store's imports, and the extraction from it |
| `SchemaInspection` | the one-shot SharePoint schema inspection |
| `OperationalBackup` | backup and restore |
| `MailAdmission` | the Outlook connector's search and admission policy |
| `ContextDisclosure` | assembly of a context and its disclosure to a provider |
| `Components` | the thirteen modules above in one specification |
| `StoresProofs` | theorems about `KnowledgeGraph`, `SchemaInspection`, `OperationalBackup`, `LocalIngestion`, in `Components` |
| `AuthorityProofs` | `Delegation`, `Orchestrator`, `CorePolicy`, each on its own |
| `DecisionProofs` | `ActionReview`, `MailAdmission`, `ContextDisclosure`, each on its own, and the induction lemmas |
| `ImportProofs` | `OutlookImport`, `MailMemory`, `LocalDiscovery`, each on its own |
| `CompositionProofs` | that those nine keep their properties in `Components`, and its types |

Definitions called `...Late`, `...Always`, `...Upsert` and the like that are marked
`mutant` are deliberately wrong versions of the definition after them; no specification
uses them. They show that a property notices the mistake.

### Jobs

Each call of the store (`JobStore.create`, `claim`, `transition`, `append_event`,
`save_checkpoint`, ...) is a `BEGIN IMMEDIATE` transaction and one action. What a process
keeps between two calls is a variable: an operator's `op` holds the row it read and
changed, a worker's `candidates` the rows `claimable()` returned, `checkpoint` and
`claimed` what it holds while it executes. `Transition` compares the status only and
writes the whole row, as `storage.py:266` does.

- service: `ReadJob`/`ReadForApproval` (the read and the checks), `CompareCheckpoint`
  (recover_interrupted's second read), `WriteJob` (the transition), `CreateAny`,
  `AppendPlanBound` (create's second transaction);
- worker: `RunNext`, `Block`, `ReadCheckpoint`, `Claim`/`ClaimLost`/`ClaimConflict`, the
  connector's steps, `SaveCheckpoint`, the verification steps, `Finish`, `HandleError`;
- environment: `AuthorityChange` (policy, registry or configuration changes between
  checks), `Tick`, crashes of workers, operators and creators.

A row keeps what the control depends on: status, operation, plan, approval (its expiry),
attempt_count, checkpoint_id, next_retry_at. A checkpoint is its number of durable items.
Backoff is `RetryAt`, cut off at the model's last instant.

`SerialRecovery` states how operators work: recover_interrupted is documented for the
case that the process has terminated, and with TRUE two operators do not recover the same
job at once. `JobsOverlap` sets it FALSE: exclusive execution and durable checkpoints do
not depend on it. In both cases a recovery begins only when no worker executes the job;
what happens between its read and its write is unrestricted.

### DailyOperations

One row for the schedule and one for each slot (the s-th scheduled instant, due when the
clock has reached s). `Start` (the first reads of tick and mark_missed, with the
INSERT OR IGNORE of the schedule), `Lookup`, `ClaimRun`, `Retry`/`ClaimRetry`,
`Recover`/`Interrupt`, `ReadSchedule`, `SaveAttempted`, the runner's outcomes, `SaveRun`,
`SaveAdvanced` are the transactions of `operations.py` in their order. completed and
completed_with_gaps are one status. The content-free audit table is not read back and is
left out. As the docstring of recover_interrupted demands, a recovery begins when nobody
executes the slot.

### ProviderDispatch

`active` and `claimed` are the two files of a request id, `reservations` the ledger's
rows, `results` the result files, `journal` the terminal journal entries, `sent` what has
reached the provider. `Begin`, `Rename`, `ReadClaim` are `claim`'s look, rename and read;
`CheckApproval` the recomputed preflight; `Admit` the ledger's transaction; `MarkStarted`,
`Post`, `TransportFails`, `TransportReturns`, `PersistResult`, `RecordSuccess`,
`AuditCompleted`, `AuditFailed` the rest of `_generate`; `RestoreRetry`, `LookForActive`,
`OpenClaimed`, `CompareInode`, `RewriteClaimed`, `Publish` the file operations of
restore_retry, `AuditBlocked`, `DestroyClaim` what generate_protected does with the claim
otherwise. The owner's processes persist (look, then exclusive create, then write), approve,
cancel (two unlinks) and reconcile; they carry nothing but how far they are, so `pending`
holds the points at which at least one of them is. `unwritten` holds the envelopes whose
file exists and has not been written: such a file can be renamed and unlinked, and `_read`
refuses it (`Whole`), which ends `claim` with an error and leaves the file where it is.
`Crash` also stands for the exceptions generate_protected does not handle, which leave the
claim where it is.

The clock counts days. Spend is left out: estimates do not depend on anything that varies
here, so the spend limits only bound the number of requests again. The ledger's opening
balance is assumed to be there.

### The modules of Components

Each transaction, file operation or request of the code is an action, and what a process
holds between two of them is in its record of the process variable.

- `Delegation`: `Activate`, `StoreClaim`, `Revoke`, `EngageKillSwitch` are the store's
  transactions; `Resolve`, `CliClaim`, `ConfirmClaim`, `ReadRecord`, `ValidateClaim`,
  `Complete` the steps of the command line, each on what the step before returned. A grant
  and a request are what `_denial_reason` tells apart: `Departures` are the ways a request
  differs from a conforming one, one at a time; the categories and scopes of a request are
  compared as subsets, the fixed PA-009 boundary by equality. `reported` are the operations a command
  has announced as permitted.
- `Orchestrator`: `StartRun`, `SelectTask`, `BaselineReview`, `OwnerFinding`,
  `AttemptPassed`, `AttemptFailed`, `PassedUnrecommended` (the reviewer recommends no commit,
  and the loop passes over the task), `SaveState` and the ways a run stops. Builder,
  validator and reviewer answer anything. `RunDies` loses all but the state file.
- `CorePolicy`: registry and rules change, time passes; `Resolution`, `Permission` and
  `UseDecision` are the decision functions and are evaluated for every request in every
  state.
- `ActionReview`: `PlanAction`, `ReviewProposal`, `Revise` on the SQLite and on the
  in-memory store. A replacement may have any status and any expiry or none: revise looks at
  its review reference only. `RefuseReplacement` is the in-memory store, which leaves the
  proposal superseded when it refuses the replacement; SQLite rolls back.
- `LocalDiscovery`: `Begin` restores the cursor, `Walk` is one iteration of next_path,
  `UpsertMany`, `AddExcluded`, `SaveProgress` are discover's transactions and `Return` the
  worker's. A dead or slow call may be repeated while it goes on; only the holder of the
  job's lease may store its checkpoint. The tree has two roots, nested directories, links and
  entries of every kind the filters tell apart.
- `LocalIngestion`: `Plan`, then per file `CheckMetadata`, `HashContent`, `Extract`,
  `OpenTemporary`, `StoreContent` (the rename) or `StoreFails`, `MarkIngested`, and
  `FinishBatch`; `temporaries` are the temporary files of the content store, which a death
  leaves behind and the next exclusive creation of the same name refuses and removes; `Edit` and `Rediscover` may happen
  between any two of them. A batch is the set of the ids it holds, taken in ascending order.
- `OutlookImport`: `Initialise` (with the migration), `BeginImport`, `ReadPage`,
  `InsertRecord` (event, identity and outcome in one transaction), `RejectRecord`,
  `EndPage`, `FollowLink` (the continuation guard), and `StopImport`, whatever interrupts the
  records of a page and is finalised by fail. Mailboxes cover empty pages, repeated and
  foreign links, malformed and duplicate messages.
- `MailMemory`: `ParseMessage`, `CommitPending` (a batch with the file's status),
  `FinishMailbox`, failure, interruption and death; databases with and without the status table.
- `KnowledgeGraph`: `InsertState`, `ReadCheckpoint`, `ReadEmailPage`, `ApplyBatch` of
  pipelines of two rule versions, while emails arrive.
- `SchemaInspection`: `PrepareRun`, `Authenticate`, `RecheckStorage` (path, ACL, emptiness),
  `EnterRun` (run's own link and emptiness checks, all that a second executor meets),
  `OpenArtifact`, `RecordAttempt`, `Dispatch` or `SendFails`, `AcceptReply`/`RefuseReply`,
  `CompleteRun`; a death may tear the artifact that is being rewritten.
- `OperationalBackup`: a copy is two steps (`CopyHeader`, `CopyRest`) between which its
  owner may write; `SnapshotDatabase`, `PublishManifest`, `BeginRestore`, `VerifyFile`,
  `RestoreFile`, `CheckCopy`. `Damage` changes the stored backup.
- `MailAdmission`: `BeginSearch` (the scope check against the policy as it is), `ReadFolder`
  per folder, then `AdmitBatch`, or `FilterBatch` in the two V1 modes; `ApproveScope`,
  `ReplaceSnapshots` and the days come between searches. A message whose addresses are missing
  or malformed is unaddressed and goes on; only one with a body or without an id or a time
  is an error. The client is the protocol the
  connector names: the Graph client of this repository serves the Inbox only, and any
  other folder is `FolderUnavailable`.
- `ContextDisclosure`: `Retrieve` per adapter, `RejectCollisions`, `TakeTurns` per round,
  `CountSelected` are the loops of assemble; `Decide`, `ProjectItem` per item,
  `FinishProjection` and `Generate` those of the boundary. An excerpt is a number of plain
  units around a sensitive marker, and `Cut` and `SafeExcerpt` are applied in the code's order;
  a title holds a marker or none and is projected as it is. The provider answers anything: run
  looks at nothing of the response.

`Components` puts them side by side. They share no variable and none of their actions reads
another component's state (the email store appears in `KnowledgeGraph` as the arrival of
emails), so an invariant or action property of one component holds in their interleaving
exactly when it holds while the others rest. `focus` says which one moves: that keeps
the state space the sum of theirs instead of the product.

## 3. Runs

Every cfg names its bounds; the largest run takes three minutes.

| run | instance | checks |
|---|---|---|
| `JobsRecovery` | one job that needs an approval, acting or batched, two workers, an operator with every call, a crash, approvals that expire | `TypeOK`, `OneOpenAttempt`, `AuditAgrees`, `ApprovedExecution`, `RecoveredFromCheckpoint`, `ImplementsLeases`, `TerminalAbsorbing` |
| `JobsOverlap` | one batched job, two workers, two operators who pause, resume and recover with overlap, two crashes | `ExclusiveExecution`, `ExecutionInv`, `CheckpointDurable` |
| `JobsQueue` | two batched jobs in one queue, one worker, a crash | `JobSettles` |
| `JobsPoisoned` | pause and resume around a running worker | violates `JobSettles` (finding) |
| `JobsActTwice` | a transient error of verification | violates `ActPerformedOnce` (finding) |
| `Daily` | two callers with all calls, two due slots, a failing runner, a crash | `TypeOK`, `NothingEarly`, `ExclusiveRun`, `OwnershipInv`, `SlotsAccounted`, `FrontierInv`, `LastSuccessReal`, `ResultStable`, `ScheduleAdvances` |
| `DailyStalled` | one caller and a crash inside mark_missed | violates `MissedAdvances` (finding) |
| `Dispatch` | one request id persisted twice, two dispatchers, any number of owner processes, two days, a crash | `TypeOK`, `TransportExclusive`, `NeverReplayed`, `SentIsCharged`, `AnsweredFinal` |
| `DispatchUnread` | one dispatcher, an envelope that is still being written | violates `ClaimReleased` (finding) |
| `DispatchBriefs` | two requests on one day | violates `OneBriefPerDay` (finding) |
| `Components` | thirteen components, most with two processes or runs | the properties below |
| `IngestionStale` | two files, one edit of each, three attempts | violates `NeverReadsChanged` (finding) |

What `Components` checks, beside `TypeOK`:

- `DecisionsConfined`: what is admitted is admissible by the documents. A delegated claim
  is within a live grant in every respect (`AdmittedWithinGrant`), a checkpoint goes to
  the upstream of a feature branch (`CheckpointConfined`), a ready capability use is ready
  by each authority on its own (`ReadyJustified`), a review approves only a proposal that is
  awaiting it, has not expired and has its evidence, executes nothing and is never inherited
  (`ActionsConfined`; what revise stores as approved is told in section 4), an admitted message is unique in
  its batch and has the category or one relationship that fresh, approved sources agree on, and
  no message is called irrelevant while a source is unusable (`AdmissionConfined`); what
  reaches the provider is sound and within ceiling and budget, no excerpt in it shows a marked
  value, and what was cut or left out is not passed off as the whole (`DisclosureConfined`;
  titles are in section 4).
- `OnlyGrantsGrant`: the clock, an unregistration and a prohibition make nothing ready.
- `DelegationAuditAgrees`, `TerminalGrantFrozen`: the audit chain tells the story of the
  tables, and a revoked or killed grant yields nothing to a command under way.
- `EscalationVisible`, `RunDescends`: no refused task is passed over in silence however the
  run stops, and every step of a run leaves it less to do (a variant, so runs end without
  any assumption on builder and reviewer).
- `CompletionHonest`: a discovery that ended has every admissible file that stayed in
  place, an import recorded as complete has the whole mailbox, a completed mbox is stored.
- `CountsAgree`, `ExclusionsCounted`: outcome rows and summaries count the stored rows, and
  the coverage rows of a context account for every item a source returned; the
  excluded counter is never short and exact unless a call was repeated, in which case it
  counts a batch again.
- `IngestionBacked`: a marked row's text is in the content store, whatever temporary files
  deaths have left there, and a completed ingestion has read its plan and nothing else.
- `GraphCovers`: no email up to the checkpoint is missing, under one rule version. The
  checkpoint may move back, which only repeats idempotent work.
- `InspectionAccounted`: one attempt per directory, in the order of the plan, every GET
  named in the artifact before it left.
- `ManifestWhole`: a manifest stands on a complete, consistent copy.

### Why the bounds are enough to be interesting

- Jobs: two items in batches of one give a checkpoint between the batches; two attempts
  give a retry and its exhaustion; two workers and two operators give a read, an overtaking
  process and a late write; two crashes (`JobsOverlap`) give a crash during a recovered execution. The
  horizon distinguishes before and after a retry time and an expiry.
- Daily: two due slots and the one after them show a stale schedule against a moved one;
  one failure and one crash give a retry and a recovery of one slot.
- Dispatch: two envelopes under one id give a claim in flight and a new envelope; two days
  give expiry, a retry on another day and a charge that crosses midnight; a limit of one
  request per day makes every admission after the first a refusal. `sent` is unbounded in
  the type, and the runs are finite because it never exceeds one.
- Components: two processes of each kind give a read, an overtaking process and a late
  write. Two grants on one operation id give a claim under another grant, one denial
  a trail with an event after the end; one day before and after the expiry. Two tasks
  and two runs give a dependency, a refused task beside an eligible one and a run that
  continues from the file; two repair cycles and a failure limit of two reach both limits. Two
  rules give a conflict, an override and an expiry. A discovery batch of two over the tree
  stops inside a directory; two attempts give a repeated call; one change of the
  tree. Two pages and two imports give a repetition and an overlap. Four emails in pages of
  two let one pipeline be a page ahead. Three lists give a plan of seven GETs. A mail limit
  of three over two folders with pages of up to two is reached inside the second one, and
  days 0 to 2 with an age of one make a snapshot not yet, still and no longer valid. Three
  items per source exceed the limit of two, and two sources that of three in all; character
  budgets of 2, 4 and 9 cut before, inside and after a marker.

### Fairness

- `Jobs!Fairness`: a called worker or operator goes on (weak fairness); the command line
  calls run_next again while jobs wait; an operator attends to each stranded job;
  time passes. Nothing makes a creator, a pause, a resume or a change of authority happen.
- `DailyOperations!Fairness`: a begun call goes on and its runner returns; the owner keeps
  ticking, retries failed and recovers interrupted runs. These calls need strong fairness
  because callers are between calls again and again and never always. mark_missed is
  never forced, and neither is a failure.
- `Components!Spec` states none: nothing in these components has to happen. That a run
  of the orchestrator ends is the action property `RunDescends`.
- `ProviderDispatch!FairSpec`: a dispatcher that has begun is not suspended for ever; a
  transport call has a timeout, so it returns. Nothing is assumed of the owner.

Crashes are bounded and never fair.

Deadlock is checked in the runs of jobs, scheduler and dispatch, where operators, owners and
callers can always act. The processes of `Components` end, so it may stop.

## 4. Findings

1. **A stale pause poisons the queue** (`JobsPoisoned`, `jobs/storage.py:287`). A pause that
   read attempt_count 0 succeeds after a worker has made and yielded attempt 1, and writes
   0 back. After resume each claim inserts attempt 1 again, the IntegrityError leaves
   run_next, and as the job stays first in the queue no later job runs either. Because of
   this the `JobsQueue` run has operators that pause but do not resume.
2. **A performed action is retried** (`JobsActTwice`, `jobs/worker.py:275`): a transient
   error of `connector.verify` is handled like one of the action itself.
3. **The schedule can stall on a missed slot** (`DailyStalled`,
   `intelligence/operations.py:658`): a process that dies between mark_missed's two
   transactions leaves a slot no call passes. `ScheduleAdvances` excepts this case.
4. **Two successful briefs on one day** (`DispatchBriefs`,
   `intelligence/provider_budget_store.py:131`): successes are compared at admission, and
   nothing reserves the success of a request that is under way.
5. **A changed file is read under the old approval** (`IngestionStale`,
   `connectors/local_files/connector.py:330`): the file is compared with its catalogue row, and
   a discovery after the approval refreshes the row. IC-005 says it never is.
6. **A claim nobody could read stays** (`DispatchUnread`,
   `intelligence/provider_preflight_store.py:200`): persist makes the active file visible before
   it has written it. A dispatcher with the approval of an earlier, cancelled envelope renames the
   new file, `_read` refuses it, and the call ends without destroy_claim. Nobody has died, and the
   claim keeps every later dispatch of that request away until the owner cancels.

Two more divergences are in the model, without a run of their own. revise stores a replacement as
it is unless its human_review_ref is set (`intelligence/actions.py:281`), an approved or executed one
too, and ActionProposal accepts such a proposal without a review; IC-012 (line 18) says that approval
never carries forward. project redacts the excerpt and puts the title in as it is, under the outcome
"allowed" (`intelligence/model_boundary.py:277`); PA-009-SYNTHETIC-MODEL-DISCLOSURE.md (line 17) says
that markers are redacted. `ActionsConfined` and `DisclosureConfined` are stated accordingly.

Met on the way, without a statement that a run could contradict: a prohibited action makes
the orchestrator's `_select` escalate like one that needs the owner; eligible_tasks compares
completed_increments with a task's prerequisites and never with the task itself; the files of a backup are not synced before
its manifest is (verify notices); restore_retry on a claim cancelled in flight raises
FileNotFoundError over the provider's failure, or blocks the retry when the claim goes between its
look and its open; a temporary file left in the content store fails the next ingestion of the same
content once; a ledger used before its opening balance refuses
the balance later; an explicit resume skips a job's backoff; a relationship snapshot that goes
stale can lift an ambiguity, so that a message rejected while two sources disagreed is admitted
when only one of them is fresh; an event that ends exactly at the reference time is labelled
expired (`intelligence/temporal.py:24` compares with <=) and then judged inconsistent (line 61
compares with <).

## 5. Theorems

For every value of the constants, under the named assumptions of the modules that declare
them: numbers are naturals, batch sizes and attempts positive, the configured operations
among the ones the code has, no bound on the number of processes, jobs, slots, requests or
crashes. Three assumptions say that there is something to speak of (`RequestsAssumption`,
`GrantIds # {}` and `OperationIds # {}`, `Pipelines # {}`): in an empty instance the records
that stand for "none" have no type. `RunLimitsAssumption` makes the roadmap's tasks finitely
many, because a run's variant counts those it has not handled; the roadmap is a JSON file.
`MailAssumption` makes the importers of a mail directory finitely many, because their counts are
added up; they are processes of one machine. What a component reads from outside (the tree of
the discovery, the mailboxes, the mbox directories, what an adapter of a context answers and the
policy it is disclosed under) is chosen from sets that the modules write out: the theorems
about them are for those inputs and for every value of the constants.
`PROJECT.json` names each theorem and the property it states.

### The job engine

`JobsProofs`
- `TypeCorrect`: Spec => []TypeOK.
- `ExecutionInvariant`: Spec => []ExecutionInv. ExclusiveExecution alone is not
  inductive: neither claim nor transition names a worker, and a stale row can be written
  back at any time. What keeps workers apart is the primary key of job_attempts: numbers
  are inserted without gaps, every row anyone holds has an inserted number, and an
  executing worker's number is the largest one while every other copy of the row is behind
  it. So a claim computed from any such copy inserts a number twice and fails.
- `Exclusive`: Spec => []ExclusiveExecution, from it, with overlapping recoveries.

With overlapping recoveries as well:
- `Terminal` (`TerminalAbsorbing`), from `OperatorInv`: a row an operator carries has a
  status its call is allowed on, and transition compares it again.
- `Durable` (`CheckpointDurable`), from `DurableInv`: the boundary a worker read before its
  claim, or has reached since, is never ahead of the connector's output either, and a
  verification has succeeded over a complete output only.
- `ApprovedOnly` (`ApprovedExecution`), from `ApprovalInv`. The worker authorizes the row
  claimable() gave it and executes the later row that claim returns; the proof is that all
  copies of a row whose status is past the approval agree with the table on plan and
  approval until the job ends.

Under SerialRecovery (no two operators recover one job at once, see
section 2):
- `AttemptsAccounted` (`OneOpenAttempt`), `AuditTruthful` (`AuditAgrees`), `Recovered`
  (`RecoveredFromCheckpoint`) and `LeasesImplemented` (`ImplementsLeases`), all from
  `SerialInv`. Its core is `LeaseInv`: a recovery in the middle of its call holds the row
  the table has, the job is still stranded and nobody else recovers it, and a worker
  executes exactly the row the table has.
- SerialRecovery is needed: of two recoveries of one job the slower may write over the row of
  a worker that has claimed the job since. The row leaves running while that worker's
  attempt stays open, and its later events no longer agree with the row.
- The refinement maps a job to its status and to the worker that executes it. Every step of
  `Jobs` is an abstract step or leaves both alone; there is one lemma per kind of step.

### The daily scheduler

`DailyOperationsProofs`
- `TypeCorrect`: Spec => [](TypeOK /\ NothingEarly), and `Punctual` (`NothingEarly`). The
  two go together: the schedule's next slot stays in range because nobody works on a slot
  that is not due.
- `Ownership`: Spec => []OwnershipInv, which is inductive (an executor's row is running with
  its attempt number, an overtaken recovery holds an older number), and
  `Exclusive` (`ExclusiveRun`) and `ResultsFinal` (the action property `ResultStable`) follow.
- `Frontier`: Spec => []FrontierInv, which is inductive, and `NoSlotSkipped`
  (`SlotsAccounted`) follows. The slots anybody may still write into the schedule are the
  frontier, and between two of them every slot has its result; so no stale schedule can
  skip one.
- `SuccessReal` (`LastSuccessReal`), from `SuccessInv`: every schedule a caller carries, and
  may write back whole, names a completed run as its last success.

### The provider dispatch

`ProviderDispatchProofs`: `DispatchTypeCorrect` (`TypeOK`), `Exclusive`
(`TransportExclusive`), `NoReplay` (`NeverReplayed`), `Charging` (`SentIsCharged`),
`AnswerStands` (`AnsweredFinal`), from `DispatchInv`:
- an envelope in a file, and one a dispatcher may still put back, has a hash, which
  approve_protected relies on (`EnvelopesNumbered`);
- a dispatcher between admission and outcome is the only one for its request and attempt
  and is recorded in the ledger (`OwnersDiffer`, `OwnersRecorded`): the ledger's row, and not
  the rename of the file, is what excludes a second one, because a cancelled request
  may be persisted again while the first dispatch goes on;
- nothing is sent that is not marked, and nothing twice (`SentOnce`); an envelope or process
  with an attempt behind it has the journalled failure (`RetriesGranted`), which closes the
  first attempt (`FirstClosed`); the owner of an attempt that answered is past its transport
  (`AnswerClosed`, `AnswerSent`);
- each day's charges stay within its limits at every admission (`DaysWithin`).

### The other components

`StoresProofs` proves of `Components!Spec`, by its own invariants:
- `GraphComplete` (`GraphCovers`): what a pipeline holds between reading the checkpoint and
  applying its page is in the graph already, under the rule version of the state row; so a
  checkpoint written blindly, also a smaller one, never passes a missing row.
- `OneAttempt` (`InspectionAccounted`): the exclusive creation of the artifact leaves at most
  one executor beyond it, and that one's position, entries, replies and artifact are exactly
  those of the GETs that left.
- `ManifestsStand` (`ManifestWhole`): at most one process fills a directory, and what it has
  copied and not yet listed is as it read it; the owner may write between the two halves.
- `IngestionStands` (`IngestionBacked`): the text a reader is about to mark is stored under
  the hash it holds, and everything it has in hand is of the plan.

`AuthorityProofs`, `DecisionProofs` and `ImportProofs` prove each component on its own:
- `DelegationInv`: counts and order of the audit events of each grant follow the tables, and
  the claims are finitely many and admissible; hence `DelegationAuditAgrees`,
  `AdmittedWithinGrant` and the action property `TerminalGrantFrozen`.
- `OrchestratorInv`: a run that was refused a task has the escalation pending or written;
  hence `EscalationVisible`, `CheckpointConfined`, and `RunDescends` (each kind of step lowers
  the number `WorkLeft`).
- `PolicyInv` and lemmas on the precedence of rules: `ReadyJustified` and `OnlyGrantsGrant`.
  What is allowed after such a step was allowed before it by the same rules: a new prohibition
  does not match, and an expired rule still counts as the most specific one.
- `ActionInv`: what is reviewed was decided, a reviewed approval on an approvable proposal, and
  only what is superseded has an heir, which exists; `ActionsConfined`.
- `AdmissionInv`: a search goes by the snapshots that were approved; the lemmas show what
  each rule of the admission policy lets through; `AdmissionConfined`.
- `ContextInv`, stage by stage; `ContextAccountable` and `DisclosureConfined`. While adapters are
  asked (`Retrieving`), a source that claims to be whole has given everything it had. While they
  take turns (`Balancing`), each source is whole in the context and its remaining list together,
  until an item is lost to the limit, and then nobody gets another turn; a source with items left
  is never more than one turn behind. While the context is projected (`Projecting`), the
  characters left, those disclosed and one separator for each item make up the budget.
- `ImportInv` (`ImportComplete`, `ImportCountsAgree`): a process of the Outlook import owns the row
  of its run, which is in progress and has the counts the process holds; what lies before its
  position in the mailbox is stored, unless it counted a failure.
- `MailInv` (`MailCompleted`, `MailCountsAgree`): what lies before the position of an importer is in
  its batch or stored, and the counts of all importers together are at most the rows. The sum
  is over a set of processes and changes with every batch, so the invariant has the partial
  sums of all subsets.
- `DiscoveryInv` (`DiscoveryComplete`, `ExclusionsCounted`): the walk stands at one of a few places.
  Every admissible file behind the place of a call is found or in the catalogue, and behind a
  saved cursor it is in the catalogue; what a call and the store have tallied together is what is
  owed at its place, as long as no call was repeated.

Some of these compare counts that a recursive function computes along a sequence or over a set.
The library's induction theorems take an operator, which the provers cannot instantiate.
`SubsetInduction` and `NumberInduction` take a set `good` of subsets or numbers instead, and
follow from the well-foundedness of the strict subset ordering of a finite set. With them the lemmas
`SumsDefined`, `SumAppended` and their like show that the recursive functions exist and what an
added element does to them.

`CompositionProofs` carries them over to `Components!Spec`: a step of the whole is a step of
the component or leaves its variables alone (`AuthoritySpecs`, `ImportsSpecs`), so that its
specification is implied. The theorems are `AuditChain`, `GrantFrozen`, `ClaimsAdmissible`, `Escalates`,
`CheckpointsConform`, `RunsEnd`, `UseJustified`, `AuthorityGiven`, `ApprovalsConform` and
`AdmissionsConform`, and those about the whole:
- `DecisionsStand` (`DecisionsConfined`), all its parts together;
- `CompletionStands` (`CompletionHonest`): the discovery, the Outlook import and the email store;
- `CountsStand` (`CountsAgree`): the Outlook import, the email store and the coverage of a context;
- `ExclusionsStand` (`ExclusionsCounted`);
- `ComponentsTyped` (`TypeOK`), from the ranges each invariant gives its variables.

### Only model-checked

`JobSettles` and `ScheduleAdvances`, and the properties that a run refutes:
the prover treats neither fairness nor ENABLED. Every other property of a passing run is stated by a
theorem.

## 6. Not modelled

Formatting, parsing and text assembly; hashes, file modes and integrity checks of the
stores (their verdicts are choices of the environment); SQLite itself (a transaction is
atomic and durable); presentation, configuration, installers and the Power Platform app.
`PROJECT.json` gives the reason for each component. In particular:

- sessions, briefs, retrieval, answering and work capture compute text or plans from their
  arguments and keep nothing; what can be wrong in them is in the wording or in a single
  comparison, which a test reaches as well;
- the calendar and SharePoint connectors read pages; the guards on continuations are those
  modelled in `OutlookImport`;
- in `ProviderDispatch`, spend and the opening balance; in `LocalIngestion`, edits that keep size
  and modification time.

## 7. Plan

- In `ProviderDispatch`: the ledger's opening balance and spend, and the removal of expired results.
- The inputs written out in `OutlookImport`, `MailMemory` and `LocalDiscovery` as constants, with the
  shape of a mailbox, a directory and a tree as assumptions. For the first two the proofs use little
  more than `MailboxShape` and `DirectoryShape`; that of the discovery names the places of its tree.
