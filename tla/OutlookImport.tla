---------------------------- MODULE OutlookImport ----------------------------
(***************************************************************************)
(* The Operations Event store and the bounded Outlook import               *)
(* (src/src/edn/operations/outlook.py, import_outcomes.py, storage.py,     *)
(* schema.py, models.py, cli.py).                                          *)
(*                                                                         *)
(* Import processes read pages of one mailbox from Graph and insert one    *)
(* Event per message, first write wins, each insert in a transaction that  *)
(* also updates the run's outcome row.  Processes overlap, die between any *)
(* two transactions, and are repeated from the first page; the database    *)
(* may still have the legacy schema, which only init migrates.             *)
(*                                                                         *)
(* Abstractions: a message is its native id and what mail_event makes of   *)
(* it; a page link is what the continuation guard tells apart; uuids,      *)
(* timestamps and payloads are left out.  Graph is external.               *)
(***************************************************************************)
EXTENDS Naturals, Sequences, FiniteSets

CONSTANTS
    Importers,       \* import processes that may be under way together
    MaxPages,        \* --max-pages
    MaxImports       \* bound: import runs begun

ASSUME ImportAssumption ==
    /\ Importers # {}
    /\ MaxPages \in 1 .. 100
    /\ MaxImports \in Nat

VARIABLES
    mailbox,         \* external: the pages Graph serves, and the link after each
    schema,          \* PRAGMA user_version with its tables: "none", "legacy", "current"
    events,          \* operations_events: message -> the run that stored it
    identities,      \* operations_event_identities: the messages it maps
    outcomes,        \* operations_import_outcomes: one row per run, in order of begin
    importers        \* what each import process holds in memory

importVars == <<mailbox, schema, events, identities, outcomes, importers>>

-----------------------------------------------------------------------------
\* Graph: messages and pages.

Messages == {"m1", "m2"}
Malformed == "malformed"     \* no identity, an HTML body, bad attachments, a bad date
Outside == "outside"         \* received outside the requested window
Absent == MaxImports + 1     \* no run: the message is not stored

\* Links: none, a fresh continuation, one already visited, one that leaves the query.
Mailboxes ==
    {[pages |-> <<<<"m1", "m2">>>>, links |-> <<"end">>],
     [pages |-> <<<<"m1">>, <<"m2">>>>, links |-> <<"next", "end">>],
     [pages |-> <<<<"m1">>, <<"m1", "m2">>>>, links |-> <<"next", "end">>],
     [pages |-> <<<<"m1", Malformed>>, <<"m2">>>>, links |-> <<"next", "end">>],
     [pages |-> <<<<Outside, "m1">>>>, links |-> <<"end">>],
     [pages |-> <<<<"m1">>, <<"m2">>, <<>>>>, links |-> <<"next", "next", "end">>],
     [pages |-> <<<<"m1">>, <<"m2">>>>, links |-> <<"next", "visited">>],
     [pages |-> <<<<"m1">>, <<"m2">>>>, links |-> <<"foreign", "end">>]}

\* mail_event and the window test: the message becomes an Event.
Admitted(x) == x \notin {Malformed, Outside}

\* page: the guard on a continuation, exact but for one pagination cursor.
SafeLink(link) == link # "foreign"

-----------------------------------------------------------------------------
\* Outcome rows.

Zero == [inserted |-> 0, duplicates |-> 0, failed |-> 0, pages |-> 0]
AnyCount(n) == n # Zero

\* ImportOutcome.__post_init__: the combinations a stored row may have.
OutcomeValid(o) ==
    /\ o.counts.pages <= 100
    /\ o.state = "in_progress" => o.reason = "none"
    /\ o.state = "complete" => o.counts.failed = 0 /\ o.reason = "none" /\ o.counts.pages # 0
    /\ o.state = "failed" => o.reason = "import_error" /\ ~AnyCount(o.counts)
    /\ o.state = "partial" =>
         \/ o.reason = "malformed_records" /\ o.counts.failed # 0
         \/ o.reason = "page_limit" /\ o.counts.pages # 0
         \/ o.reason = "import_error" /\ AnyCount(o.counts)

\* update: only a row in progress is written, and only with a valid outcome.
Update(run, counts, state, reason) ==
    LET new == [state |-> state, counts |-> counts, reason |-> reason]
    IN /\ outcomes[run].state = "in_progress"
       /\ OutcomeValid(new)
       /\ outcomes' = [outcomes EXCEPT ![run] = new]

-----------------------------------------------------------------------------
Idle == [pc |-> "idle", run |-> 0, page |-> 1, at |-> 1, counts |-> Zero]

\* A store without Events yet, a legacy one, or one whose legacy rows cannot be read.
ImportInit ==
    /\ mailbox \in Mailboxes
    /\ schema \in {"none", "legacy", "legacy_malformed"}
    /\ events = [m \in Messages |-> IF schema # "none" /\ m = "m2" THEN 0 ELSE Absent]
    /\ identities = {}
    /\ outcomes = <<>>
    /\ importers = [p \in Importers |-> Idle]

Stored == {m \in Messages : events[m] # Absent}

\* init: initialise_schema creates or migrates in one transaction; it refuses a
\* store whose legacy rows cannot be migrated and leaves it as it is.
Initialise ==
    /\ schema \in {"none", "legacy"}
    /\ schema' = "current"
    /\ identities' = Stored
    /\ UNCHANGED <<mailbox, events, outcomes, importers>>

\* ingest-outlook: ImportOutcomeStore.begin writes the row before any read.
BeginImport(p) ==
    /\ importers[p].pc = "idle" /\ schema # "none" /\ Len(outcomes) < MaxImports
    /\ outcomes' = Append(outcomes, [state |-> "in_progress", counts |-> Zero,
                                     reason |-> "none"])
    /\ importers' = [importers EXCEPT ![p] = [Idle EXCEPT !.pc = "reading",
                                                          !.run = Len(outcomes) + 1]]
    /\ UNCHANGED <<mailbox, schema, events, identities>>

\* An exception: fail finalises the run with the counts its row has.
FailImport(p) ==
    /\ LET row == outcomes[importers[p].run]
       IN Update(importers[p].run, row.counts,
                 IF AnyCount(row.counts) THEN "partial" ELSE "failed", "import_error")
    /\ importers' = [importers EXCEPT ![p] = Idle]

\* client.page: the page arrives, or the read fails or is refused.
ReadPage(p) ==
    LET i == importers[p] IN
    /\ i.pc = "reading"
    /\ \/ /\ i.page > 1 => SafeLink(mailbox.links[i.page - 1])
          /\ importers' = [importers EXCEPT ![p].pc = "records", ![p].at = 1]
          /\ UNCHANGED outcomes
       \/ FailImport(p)
    /\ UNCHANGED <<mailbox, schema, events, identities>>

Record(p) == mailbox.pages[importers[p].page][importers[p].at]
HasRecord(p) == /\ importers[p].pc = "records"
                /\ importers[p].at <= Len(mailbox.pages[importers[p].page])

\* A record that is not an Event of the window is counted as failed.
RejectRecord(p) ==
    LET i == importers[p]
        counts == [i.counts EXCEPT !.failed = @ + 1]
    IN /\ HasRecord(p) /\ ~Admitted(Record(p))
       /\ Update(i.run, counts, "in_progress", "none")
       /\ importers' = [importers EXCEPT ![p].counts = counts, ![p].at = @ + 1]
       /\ UNCHANGED <<mailbox, schema, events, identities>>

Counted(counts, fresh) ==
    IF fresh THEN [counts EXCEPT !.inserted = @ + 1] ELSE [counts EXCEPT !.duplicates = @ + 1]

\* A mutant: the insert commits without the outcome row, which progress updates later.
InsertRecordUntracked(p) ==
    LET i == importers[p]
        m == Record(p)
        counts == Counted(i.counts, events[m] = Absent)
    IN /\ HasRecord(p) /\ Admitted(m) /\ schema = "current"
       /\ events' = [events EXCEPT ![m] = IF @ = Absent THEN i.run ELSE @]
       /\ identities' = identities \cup {m}
       /\ importers' = [importers EXCEPT ![p].counts = counts, ![p].pc = "progress"]
       /\ UNCHANGED <<mailbox, schema, outcomes>>

\* EventStore.insert with its checkpoint: the Event, its identity and the run's
\* counts are one transaction; an Event that is stored already is a duplicate.
InsertRecord(p) ==
    LET i == importers[p]
        m == Record(p)
        counts == Counted(i.counts, events[m] = Absent)
    IN /\ HasRecord(p) /\ Admitted(m) /\ schema = "current"
       /\ events' = [events EXCEPT ![m] = IF @ = Absent THEN i.run ELSE @]
       /\ identities' = identities \cup {m}
       /\ Update(i.run, counts, "in_progress", "none")
       /\ importers' = [importers EXCEPT ![p].counts = counts, ![p].pc = "progress"]
       /\ UNCHANGED <<mailbox, schema>>

\* validate_schema refuses a write to a store that was not migrated.
InsertRefused(p) ==
    /\ HasRecord(p) /\ Admitted(Record(p)) /\ schema # "current"
    /\ FailImport(p)
    /\ UNCHANGED <<mailbox, schema, events, identities>>

\* progress: the same counts again, in a transaction of its own.
Progress(p) ==
    /\ importers[p].pc = "progress"
    /\ Update(importers[p].run, importers[p].counts, "in_progress", "none")
    /\ importers' = [importers EXCEPT ![p].pc = "records", ![p].at = @ + 1]
    /\ UNCHANGED <<mailbox, schema, events, identities>>

\* The page is done: the number of pages is recorded.
EndPage(p) ==
    LET i == importers[p]
        counts == [i.counts EXCEPT !.pages = i.page]
    IN /\ i.pc = "records" /\ i.at > Len(mailbox.pages[i.page])
       /\ Update(i.run, counts, "in_progress", "none")
       /\ importers' = [importers EXCEPT ![p].counts = counts, ![p].pc = "paged"]
       /\ UNCHANGED <<mailbox, schema, events, identities>>

\* The report of _ingest_mailbox and the final state of the run.
Finished(counts, ended) ==
    IF ended /\ counts.failed = 0 THEN [state |-> "complete", reason |-> "none"]
    ELSE [state |-> "partial",
          reason |-> IF counts.failed # 0 THEN "malformed_records" ELSE "page_limit"]

\* The link decides: end, a repeated link is an error, the page limit, or go on.
FollowLink(p) ==
    LET i == importers[p]
        link == mailbox.links[i.page]
        done == link = "end" \/ i.page = MaxPages
        final == Finished(i.counts, link = "end")
    IN /\ i.pc = "paged"
       /\ \/ link = "visited" /\ FailImport(p)
          \/ /\ link # "visited" /\ done
             /\ Update(i.run, i.counts, final.state, final.reason)
             /\ importers' = [importers EXCEPT ![p] = Idle]
          \/ /\ link # "visited" /\ ~done
             /\ importers' = [importers EXCEPT ![p].pc = "reading", ![p].page = @ + 1]
             /\ UNCHANGED outcomes
       /\ UNCHANGED <<mailbox, schema, events, identities>>

\* ingest_mailbox catches whatever interrupts the records of a page or its end: a busy
\* database, a timeout, an owner's Ctrl-C.
StopImport(p) ==
    /\ importers[p].pc \in {"records", "progress", "paged"}
    /\ FailImport(p)
    /\ UNCHANGED <<mailbox, schema, events, identities>>

\* The process is killed; its row stays in progress.
KillImporter(p) ==
    /\ importers[p].pc # "idle"
    /\ importers' = [importers EXCEPT ![p] = Idle]
    /\ UNCHANGED <<mailbox, schema, events, identities, outcomes>>

ImportNext ==
    \/ Initialise
    \/ \E p \in Importers :
         \/ BeginImport(p) \/ ReadPage(p) \/ RejectRecord(p) \/ InsertRecord(p)
         \/ InsertRefused(p) \/ Progress(p) \/ EndPage(p) \/ FollowLink(p)
         \/ StopImport(p) \/ KillImporter(p)

-----------------------------------------------------------------------------
\* What the import promises.

ImportTypeOK ==
    /\ events \in [Messages -> 0 .. Absent]
    /\ identities \subseteq Messages
    /\ \A r \in DOMAIN outcomes : OutcomeValid(outcomes[r])

\* The Events a run stored.
StoredBy(r) == {m \in Messages : events[m] = r}

\* In every state, also after a kill between two transactions, a run's row says
\* exactly how many Events the run stored, whichever runs overlap; and a migrated
\* store maps every Event to its identity (insert with its checkpoint).
ImportCountsAgree ==
    /\ \A r \in DOMAIN outcomes :
         outcomes[r].counts.inserted = Cardinality(StoredBy(r))
    /\ schema = "current" => identities = Stored

\* A run recorded as complete has gone through the whole mailbox: every message
\* of it is stored and none was malformed (the final update of ingest_mailbox).
ImportComplete ==
    \A r \in DOMAIN outcomes :
        outcomes[r].state = "complete" =>
            \A k \in DOMAIN mailbox.pages : \A j \in DOMAIN mailbox.pages[k] :
                mailbox.pages[k][j] \in Stored

=============================================================================
