--------------------------- MODULE LocalIngestion ---------------------------
(***************************************************************************)
(* Approved ingestion of the Local Files connector: plan, ingest, verify,  *)
(* extracted_content and the command that drives them                      *)
(* (src/src/edn/connectors/local_files/connector.py, catalogue.py, cli.py, *)
(* documents.py, fingerprint.py).                                          *)
(*                                                                         *)
(* The owner plans exact candidates and approves the plan; a job then      *)
(* reads the files in batches.  Per file, ingest compares the metadata     *)
(* with the fingerprint of the catalogue row, hashes the content, extracts *)
(* the text, stores it under the hash and marks the row.  The file may be  *)
(* edited, and another discovery may refresh its row, between any two of   *)
(* these steps; the worker may die at each of them.                        *)
(*                                                                         *)
(* Abstractions: a file's metadata and content are one version number, so  *)
(* every edit changes both fingerprints (an edit that keeps size and mtime *)
(* is not represented); a hash is the version it was computed from; the    *)
(* approval binds what ConnectorPlan binds, the candidate ids and the      *)
(* estimated size, and never the fingerprints.                             *)
(***************************************************************************)
EXTENDS Naturals, FiniteSets

CONSTANTS
    IngestionBatch,      \* ingestion_batch_size
    MaxEdits,            \* bound: edits of one source file
    MaxIngestAttempts    \* bound: claims of the ingestion job

ASSUME IngestionAssumption ==
    /\ IngestionBatch \in Nat \ {0}
    /\ MaxEdits \in Nat
    /\ MaxIngestAttempts \in Nat

VARIABLES
    source,      \* the files on disk: id -> version and whether the text can be extracted
    rows,        \* candidates table: id -> state, fingerprint, record, selected
    contents,    \* content store: hash (id, version) -> version of the stored text
    temporaries, \* the hashes whose temporary file exists in the content store
    order,       \* the ingestion job: scope, approval, checkpoint, status, attempts
    reader,      \* the call of ingest that is under way
    planned      \* history: id -> version the plan was made for

ingestionVars == <<source, rows, contents, temporaries, order, reader, planned>>

\* Resource ids in their order; the third has no ingestion adapter.
Ids == 1 .. 3
Supported(i) == i # 3
None == MaxEdits + 1

-----------------------------------------------------------------------------
\* The catalogue row of a candidate.

Row == [state : {"discovered", "unsupported", "ingested", "source_changed"},
        print : Nat, record : Nat, selected : BOOLEAN]

\* upsert_many on conflict: the metadata is refreshed, an ingested row stays
\* ingested and keeps its record and content hash.
Refreshed(row, i, version) ==
    [row EXCEPT !.print = version,
                !.state = IF @ = "ingested" THEN @
                          ELSE IF Supported(i) THEN "discovered" ELSE "unsupported"]

\* mark_ingested
Ingested(row, version) == [row EXCEPT !.state = "ingested", !.record = version]

\* mark_selected: one UPDATE clears every row, a second selects the scope.
SelectedRows(scope) == [i \in Ids |-> [rows[i] EXCEPT !.selected = i \in scope]]

-----------------------------------------------------------------------------
NoReader == [pc |-> "idle", at |-> None, batch |-> {}, prints |-> [i \in Ids |-> None],
             hash |-> None, text |-> None, last |-> FALSE]

IngestionInit ==
    /\ \E readable \in BOOLEAN :
         source = [i \in Ids |-> [version |-> 0, readable |-> i = 2 => readable]]
    /\ rows = [i \in Ids |-> [state |-> IF Supported(i) THEN "discovered" ELSE "unsupported",
                              print |-> 0, record |-> None, selected |-> FALSE]]
    /\ contents = <<>>
    /\ temporaries = {}
    /\ order = [scope |-> {}, checkpoint |-> 0, status |-> "none", attempts |-> 0]
    /\ reader = NoReader
    /\ planned = [i \in Ids |-> None]

\* plan: the exact candidates are authorised and selected, and the owner
\* approves; the command creates the job for the plan's scope.
Plan(scope) ==
    /\ order.status = "none"
    /\ scope # {}
    /\ rows' = SelectedRows(scope)
    /\ order' = [order EXCEPT !.scope = scope, !.status = "ready"]
    /\ planned' = [i \in Ids |-> IF i \in scope THEN rows[i].print ELSE None]
    /\ UNCHANGED <<source, contents, temporaries, reader>>

\* The candidates of the scope beyond the checkpoint's marker, and the first batch of
\* them; ingest takes them in the order of their ids.
Remaining == {i \in order.scope : i > order.checkpoint}

FirstBatch == {i \in Remaining : Cardinality({k \in Remaining : k <= i}) <= IngestionBatch}

First(ids) == CHOOSE i \in ids : \A k \in ids : i <= k

\* The job is claimed, again after a crash, and ingest reads its candidates.
BeginIngest ==
    /\ order.status \in {"ready", "running"} /\ reader.pc = "idle"
    /\ order.attempts < MaxIngestAttempts
    /\ reader' = [NoReader EXCEPT !.pc = "next", !.batch = FirstBatch,
                                  !.prints = [i \in Ids |-> rows[i].print],
                                  !.last = FirstBatch = Remaining]
    /\ order' = [order EXCEPT !.status = "running", !.attempts = @ + 1]
    /\ UNCHANGED <<source, rows, contents, temporaries, planned>>

\* A connector error that is not transient fails the job.
FailIngest ==
    /\ order' = [order EXCEPT !.status = "failed"]
    /\ reader' = NoReader

\* The next candidate of the batch: skipped without an adapter, otherwise its
\* metadata must still have the fingerprint that ingest read from the row.
CheckMetadata ==
    /\ reader.pc = "next" /\ reader.batch # {}
    /\ LET i == First(reader.batch) IN
       \/ /\ ~Supported(i)
          /\ reader' = [reader EXCEPT !.batch = @ \ {i}, !.at = i]
          /\ UNCHANGED <<rows, order>>
       \/ /\ Supported(i) /\ source[i].version = reader.prints[i]
          /\ reader' = [reader EXCEPT !.pc = "hashing", !.at = i]
          /\ UNCHANGED <<rows, order>>
       \/ /\ Supported(i) /\ source[i].version # reader.prints[i]
          /\ rows' = [rows EXCEPT ![i].state = "source_changed"]
          /\ FailIngest
    /\ UNCHANGED <<source, contents, temporaries, planned>>

\* content_sha256
HashContent ==
    /\ reader.pc = "hashing"
    /\ reader' = [reader EXCEPT !.pc = "extracting", !.hash = source[reader.at].version]
    /\ UNCHANGED <<source, rows, contents, temporaries, order, planned>>

\* extract_document, which reads the file a second time and may refuse it.
Extract ==
    /\ reader.pc = "extracting"
    /\ IF source[reader.at].readable
       THEN /\ reader' = [reader EXCEPT !.pc = "storing", !.text = source[reader.at].version]
            /\ UNCHANGED order
       ELSE FailIngest
    /\ UNCHANGED <<source, rows, contents, temporaries, planned>>

\* A mutant: the row is marked without the content.
StoreContentSkipped ==
    /\ reader.pc = "writing"
    /\ reader' = [reader EXCEPT !.pc = "marking"]
    /\ UNCHANGED <<source, rows, contents, temporaries, order, planned>>

ContentKey == <<reader.at, reader.hash>>

\* _store_content: a file that is stored under the hash is kept; otherwise a temporary file
\* is created for it alone.  One that a dead worker left behind refuses the creation and is
\* removed all the same, and an OSError is no connector error: the call ends like a death.
OpenTemporary ==
    /\ reader.pc = "storing"
    /\ \/ /\ ContentKey \in DOMAIN contents
          /\ reader' = [reader EXCEPT !.pc = "marking"]
          /\ UNCHANGED temporaries
       \/ /\ ContentKey \notin DOMAIN contents \cup temporaries
          /\ reader' = [reader EXCEPT !.pc = "writing"]
          /\ temporaries' = temporaries \cup {ContentKey}
       \/ /\ ContentKey \in temporaries \ DOMAIN contents
          /\ reader' = NoReader
          /\ temporaries' = temporaries \ {ContentKey}
    /\ UNCHANGED <<source, rows, contents, order, planned>>

\* The temporary file is written and renamed to the hash.
StoreContent ==
    /\ reader.pc = "writing"
    /\ contents' = [k \in DOMAIN contents \cup {ContentKey} |->
                       IF k = ContentKey THEN reader.text ELSE contents[k]]
    /\ temporaries' = temporaries \ {ContentKey}
    /\ reader' = [reader EXCEPT !.pc = "marking"]
    /\ UNCHANGED <<source, rows, order, planned>>

\* The content cannot be written: the temporary file is removed and the call ends.
StoreFails ==
    /\ reader.pc = "writing"
    /\ temporaries' = temporaries \ {ContentKey}
    /\ reader' = NoReader
    /\ UNCHANGED <<source, rows, contents, order, planned>>

\* mark_ingested, in a transaction of its own.
MarkIngested ==
    /\ reader.pc = "marking"
    /\ rows' = [rows EXCEPT ![reader.at] = Ingested(@, reader.hash)]
    /\ reader' = [reader EXCEPT !.pc = "next", !.batch = @ \ {reader.at}]
    /\ UNCHANGED <<source, contents, temporaries, order, planned>>

\* verify: one record for every supported candidate of the scope.
Reconciled == \A i \in order.scope : Supported(i) => rows[i].record # None

\* The batch is done: the next checkpoint is the last id, or the job is verified.
FinishBatch ==
    /\ reader.pc = "next" /\ reader.batch = {}
    /\ order' = IF reader.last
                THEN [order EXCEPT !.status = IF Reconciled THEN "completed" ELSE "failed"]
                ELSE [order EXCEPT !.checkpoint = reader.at]
    /\ reader' = NoReader
    /\ UNCHANGED <<source, rows, contents, temporaries, planned>>

\* The worker dies inside the call.
DieReading ==
    /\ reader.pc # "idle"
    /\ reader' = NoReader
    /\ UNCHANGED <<source, rows, contents, temporaries, order, planned>>

\* The owner of the file edits it.
Edit(i) ==
    /\ source[i].version < MaxEdits
    /\ source' = [source EXCEPT ![i].version = @ + 1]
    /\ UNCHANGED <<rows, contents, temporaries, order, reader, planned>>

\* Another discovery run refreshes the row (upsert_many).
Rediscover(i) ==
    /\ rows[i].print # source[i].version
    /\ rows' = [rows EXCEPT ![i] = Refreshed(@, i, source[i].version)]
    /\ UNCHANGED <<source, contents, temporaries, order, reader, planned>>

IngestionNext ==
    \/ \E scope \in SUBSET Ids : Plan(scope)
    \/ BeginIngest \/ CheckMetadata \/ HashContent \/ Extract
    \/ OpenTemporary \/ StoreContent \/ StoreFails
    \/ MarkIngested \/ FinishBatch \/ DieReading
    \/ \E i \in Ids : Edit(i) \/ Rediscover(i)

-----------------------------------------------------------------------------
\* What ingestion promises.

IngestionTypeOK ==
    /\ rows \in [Ids -> Row]
    /\ order.status \in {"none", "ready", "running", "completed", "failed"}
    /\ reader.pc \in {"idle", "next", "hashing", "extracting", "storing", "writing", "marking"}

\* extracted_content never fails on a marked row: its hash is in the content
\* store.  And when the job completes, every supported candidate that the plan
\* names has been read by it or before it, and none outside the plan has.
IngestionBacked ==
    /\ \A i \in Ids : rows[i].record # None =>
         /\ <<i, rows[i].record>> \in DOMAIN contents
         /\ i \in order.scope /\ Supported(i)
    /\ order.status = "completed" => Reconciled

\* "It never silently reads a changed file under old approval"
\* (docs/intelligence-core/IC-005-LOCAL-FILES.md:99): a file that passes the
\* metadata check of ingest is still the version the approved plan was made for.
NeverReadsChanged ==
    reader.pc \in {"hashing", "extracting", "storing", "writing", "marking"} =>
        reader.prints[reader.at] = planned[reader.at]

=============================================================================
