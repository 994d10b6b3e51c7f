----------------------------- MODULE MailMemory -----------------------------
(***************************************************************************)
(* The local email store and its imports (src/src/edn/memory/importer.py,  *)
(* directory_importer.py, storage.py).                                     *)
(*                                                                         *)
(* Directory imports read mbox files in order and insert their messages in *)
(* batches, each batch in one transaction with the file's import status.   *)
(* They share one database, may overlap, and may fail, be interrupted or   *)
(* die between any two transactions.                                       *)
(*                                                                         *)
(* Abstractions: a message is its source record key (Message-ID or content *)
(* digest); the search index, texts and timestamps are left out.  Retries  *)
(* of a busy database leave no trace, and end in an exception.             *)
(***************************************************************************)
EXTENDS Naturals, Sequences, FiniteSets, Functions

CONSTANTS
    MailImporters,   \* import processes that may be under way together
    MailBatch        \* batch_size of import_mbox

ASSUME MailAssumption ==
    /\ MailImporters # {} /\ IsFiniteSet(MailImporters)
    /\ MailBatch \in Nat \ {0}

VARIABLES
    directory,       \* the mbox files found, each a sequence of message keys
    statusTable,     \* the database has the email_import_status table
    emails,          \* emails: the stored keys, a row's id its position
    statuses,        \* email_import_status: file -> status
    mailImporters    \* what each import process holds in memory

mailVars == <<directory, statusTable, emails, statuses, mailImporters>>

Keys == {"a", "b", "c"}
MailDirectories == {<<<<"a", "b", "c">>, <<"a">>>>, <<<<>>, <<"a", "a">>>>}
Mboxes == 1 .. 2

-----------------------------------------------------------------------------
\* Imports.

NoTotals == [imported |-> 0, skipped |-> 0, failed |-> 0]
NotImporting == [pc |-> "idle", file |-> 1, at |-> 1, pending |-> <<>>, imported |-> 0,
                 skipped |-> 0, totals |-> NoTotals]

\* _write_import_status: an old store without the table keeps no status.
WriteStatus(f, status) ==
    statuses' = IF statusTable THEN [statuses EXCEPT ![f] = status] ELSE statuses

\* INSERT OR IGNORE, record by record: the keys of a batch that become new rows.
NewKeys(batch) ==
    LET new[n \in 0 .. Len(batch)] ==
            IF n = 0 THEN <<>>
            ELSE IF batch[n] \in Range(emails) \cup Range(new[n - 1]) THEN new[n - 1]
            ELSE Append(new[n - 1], batch[n])
    IN new[Len(batch)]

\* What the directory import takes over from a mailbox it is done with.
TakenOver(i, failures) ==
    [imported |-> i.totals.imported + i.imported, skipped |-> i.totals.skipped + i.skipped,
     failed |-> i.totals.failed + failures]

\* The next mailbox, or the end of the directory.
NextMailbox(i, failures) ==
    [NotImporting EXCEPT !.pc = IF i.file = Len(directory) THEN "done" ELSE "reading",
                         !.file = IF i.file = Len(directory) THEN @ ELSE i.file + 1,
                         !.totals = TakenOver(i, failures)]

\* import_mbox_directory begins with the first file of find_mbox_files.
StartMailImport(p) ==
    /\ mailImporters[p].pc \in {"idle", "done"}
    /\ mailImporters' = [mailImporters EXCEPT ![p] = [NotImporting EXCEPT !.pc = "reading"]]
    /\ UNCHANGED <<directory, statusTable, emails, statuses>>

AtEnd(i) == i.at > Len(directory[i.file])

\* One message parsed into the pending batch; a full batch is committed before it.
ParseMessage(p) ==
    LET i == mailImporters[p]
    IN /\ i.pc = "reading" /\ ~AtEnd(i) /\ Len(i.pending) < MailBatch
       /\ mailImporters' = [mailImporters EXCEPT ![p].at = @ + 1,
                               ![p].pending = Append(@, directory[i.file][i.at])]
       /\ UNCHANGED <<directory, statusTable, emails, statuses>>

\* A mutant: the status is decided before the next message shows that the file goes on.
BatchStatusEarly(i) == IF i.pending # <<>> THEN "completed" ELSE "running"

\* The status commit_pending writes with a batch.
BatchStatus(i) == IF AtEnd(i) THEN "completed" ELSE "running"

\* commit_pending: the batch and its status in one transaction (_add_many_once).
CommitPending(p) ==
    LET i == mailImporters[p]
        new == NewKeys(i.pending)
    IN /\ i.pc = "reading" /\ i.pending # <<>>
       /\ AtEnd(i) \/ Len(i.pending) >= MailBatch
       /\ emails' = emails \o new
       /\ WriteStatus(i.file, BatchStatus(i))
       /\ mailImporters' = [mailImporters EXCEPT
             ![p].pc = IF AtEnd(i) THEN "committed" ELSE @,
             ![p].pending = <<>>,
             ![p].imported = @ + Len(new),
             ![p].skipped = @ + Len(i.pending) - Len(new)]
       /\ UNCHANGED <<directory, statusTable>>

\* A mailbox without a message has no batch to carry its status.
EmptyMailbox(p) ==
    LET i == mailImporters[p]
    IN /\ i.pc = "reading" /\ directory[i.file] = <<>>
       /\ WriteStatus(i.file, "completed")
       /\ mailImporters' = [mailImporters EXCEPT ![p].pc = "committed"]
       /\ UNCHANGED <<directory, statusTable, emails>>

\* import_mbox returns its result.
FinishMailbox(p) ==
    /\ mailImporters[p].pc = "committed"
    /\ mailImporters' = [mailImporters EXCEPT ![p] = NextMailbox(@, 0)]
    /\ UNCHANGED <<directory, statusTable, emails, statuses>>

\* An exception in the parser, the store or the progress callback: the status is
\* "failed", unless that write fails too, and the directory import goes on.
FailMailbox(p) ==
    LET i == mailImporters[p]
    IN /\ i.pc \in {"reading", "committed"}
       /\ WriteStatus(i.file, "failed") \/ UNCHANGED statuses
       /\ mailImporters' = [mailImporters EXCEPT ![p] = NextMailbox(@, 1)]
       /\ UNCHANGED <<directory, statusTable, emails>>

\* A keyboard interrupt ends the whole import.
InterruptImport(p) ==
    LET i == mailImporters[p]
    IN /\ i.pc \in {"reading", "committed"}
       /\ WriteStatus(i.file, "interrupted")
       /\ mailImporters' = [mailImporters EXCEPT ![p] = NotImporting]
       /\ UNCHANGED <<directory, statusTable, emails>>

\* The process dies: only what it committed remains.
KillMailImport(p) ==
    /\ mailImporters[p].pc \in {"reading", "committed"}
    /\ mailImporters' = [mailImporters EXCEPT ![p] = NotImporting]
    /\ UNCHANGED <<directory, statusTable, emails, statuses>>

\* initialise upgrades an old store.
InitialiseMail ==
    /\ ~statusTable
    /\ statusTable' = TRUE
    /\ UNCHANGED <<directory, emails, statuses, mailImporters>>

-----------------------------------------------------------------------------
MailInit ==
    /\ directory \in MailDirectories
    /\ statusTable \in BOOLEAN
    /\ emails = <<>>
    /\ statuses = [f \in Mboxes |-> "none"]
    /\ mailImporters = [p \in MailImporters |-> NotImporting]

MailNext ==
    \/ \E p \in MailImporters :
          \/ StartMailImport(p) \/ ParseMessage(p) \/ CommitPending(p) \/ EmptyMailbox(p)
          \/ FinishMailbox(p) \/ FailMailbox(p) \/ InterruptImport(p) \/ KillMailImport(p)
    \/ InitialiseMail

-----------------------------------------------------------------------------
\* Types of the email store.
MailTypeOK ==
    /\ directory \in MailDirectories /\ statusTable \in BOOLEAN
    /\ Range(emails) \subseteq Keys /\ Cardinality(Range(emails)) = Len(emails)
    /\ statuses \in [Mboxes -> {"none", "running", "completed", "failed", "interrupted"}]
    /\ \A p \in MailImporters : Len(mailImporters[p].pending) <= MailBatch

\* A file whose import status is "completed" has every message stored, whatever
\* overlapping, failed or repeated imports of it did before or since (import_mbox,
\* import_batch_status).
MailCompleted ==
    \A f \in Mboxes : statuses[f] = "completed" => Range(directory[f]) \subseteq Range(emails)

\* The rows these imports say they have added, in their running mailbox and before it.
ImportedBy(imports) ==
    LET sum[s \in SUBSET imports] ==
            IF s = {} THEN 0
            ELSE LET p == CHOOSE p \in s : TRUE
                 IN mailImporters[p].imported + mailImporters[p].totals.imported + sum[s \ {p}]
    IN sum[imports]

\* Every stored row is counted as imported by at most one import, a failed mailbox's
\* batches included, and an import without a failure counts every message once
\* (import_mbox_directory).
MailCountsAgree ==
    /\ ImportedBy(MailImporters) <= Len(emails)
    /\ \A p \in MailImporters :
         LET t == mailImporters[p].totals
         IN mailImporters[p].pc = "done" /\ t.failed = 0 =>
               t.imported + t.skipped = Len(directory[1]) + Len(directory[2])
=============================================================================
