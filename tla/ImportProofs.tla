----------------------------- MODULE ImportProofs -----------------------------
(***************************************************************************)
(* Proofs about the imports that processes repeat, overlap and leave half  *)
(* done: the Outlook import, the email store and the discovery of local    *)
(* files.  What each of them says it has done, it has done.                *)
(***************************************************************************)
EXTENDS OutlookImport, MailMemory, LocalDiscovery, DecisionProofs

(***************************************************************************)
(* The Outlook import.  A process owns the row of its run: the row is in   *)
(* progress and has the counts the process holds.  What lies before the    *)
(* position of the process in the mailbox is stored, unless it has counted *)
(* a failure.                                                              *)
(***************************************************************************)
ImportCounts == [inserted : Nat, duplicates : Nat, failed : Nat, pages : Nat]
OutcomeRow == [state : {"in_progress", "complete", "failed", "partial"}, counts : ImportCounts,
               reason : {"none", "malformed_records", "page_limit", "import_error"}]
ImporterType == [pc : {"idle", "reading", "records", "progress", "paged"}, run : Nat,
                 page : Nat, at : Nat, counts : ImportCounts]
ImportRecords == Messages \cup {Malformed, Outside}

ImportTypes ==
    /\ mailbox \in Mailboxes
    /\ schema \in {"none", "legacy", "legacy_malformed", "current"}
    /\ events \in [Messages -> 0 .. Absent]
    /\ identities \subseteq Messages
    /\ outcomes \in Seq(OutcomeRow)
    /\ Len(outcomes) <= MaxImports
    /\ importers \in [Importers -> ImporterType]

\* The position <<k, j>> of the mailbox is one the process has gone past.
GonePast(i, k, j) ==
    \/ k < i.page
    \/ k = i.page /\ \/ i.pc = "records" /\ j < i.at
                     \/ i.pc = "progress" /\ j <= i.at
                     \/ i.pc = "paged"

\* The process owns its row, stands in the mailbox, and has stored what it went past.
ImporterFits(i) ==
    i.pc # "idle" =>
        /\ i.run \in DOMAIN outcomes
        /\ outcomes[i.run].state = "in_progress"
        /\ outcomes[i.run].counts = i.counts
        /\ i.page \in DOMAIN mailbox.pages
        /\ i.at >= 1
        /\ i.pc = "progress" => i.at <= Len(mailbox.pages[i.page])
        /\ \A k \in DOMAIN mailbox.pages : \A j \in DOMAIN mailbox.pages[k] :
              GonePast(i, k, j) => mailbox.pages[k][j] \in Stored \/ i.counts.failed # 0

ImportInv ==
    /\ ImportTypes
    /\ ImportTypeOK
    /\ ImportCountsAgree
    /\ ImportComplete
    /\ \A m \in Stored : events[m] <= Len(outcomes)
    /\ \A p \in Importers : ImporterFits(importers[p])
    /\ \A p, q \in Importers :
          p # q /\ importers[p].pc # "idle" /\ importers[q].pc # "idle" =>
              importers[p].run # importers[q].run

\* What the links of a mailbox say of its pages.
LEMMA MailboxShape ==
  ASSUME NEW b \in Mailboxes
  PROVE  /\ b.pages \in Seq(Seq(ImportRecords)) /\ 1 \in DOMAIN b.pages
         /\ \A k \in DOMAIN b.pages :
               /\ b.links[k] = "end" => k = Len(b.pages)
               /\ b.links[k] \notin {"end", "visited"} => k + 1 \in DOMAIN b.pages
<1> USE DEF ImportRecords, Messages, Malformed, Outside
<1>1. CASE b = [pages |-> <<<<"m1", "m2">>>>, links |-> <<"end">>]
  BY <1>1
<1>2. CASE b = [pages |-> <<<<"m1">>, <<"m2">>>>, links |-> <<"next", "end">>]
  BY <1>2
<1>3. CASE b = [pages |-> <<<<"m1">>, <<"m1", "m2">>>>, links |-> <<"next", "end">>]
  BY <1>3
<1>4. CASE b = [pages |-> <<<<"m1", Malformed>>, <<"m2">>>>, links |-> <<"next", "end">>]
  BY <1>4
<1>5. CASE b = [pages |-> <<<<Outside, "m1">>>>, links |-> <<"end">>]
  BY <1>5
<1>6. CASE b = [pages |-> <<<<"m1">>, <<"m2">>, <<>>>>, links |-> <<"next", "next", "end">>]
  BY <1>6
<1>7. CASE b = [pages |-> <<<<"m1">>, <<"m2">>>>, links |-> <<"next", "visited">>]
  BY <1>7
<1>8. CASE b = [pages |-> <<<<"m1">>, <<"m2">>>>, links |-> <<"foreign", "end">>]
  BY <1>8
<1>9. QED
  BY <1>1, <1>2, <1>3, <1>4, <1>5, <1>6, <1>7, <1>8, Zenon DEF Mailboxes

LEMMA IdleImporter == Idle \in ImporterType /\ Idle.pc = "idle" /\ ImporterFits(Idle)
BY DEF Idle, Zero, ImporterType, ImportCounts, ImporterFits

LEMMA ImportInitInv == ImportInit => ImportInv
<1> SUFFICES ASSUME ImportInit PROVE ImportInv
  OBVIOUS
<1> USE ImportAssumption DEF ImportInit
<1>1. ImportTypes
  BY IdleImporter DEF ImportTypes, Absent
<1>2. ImportTypeOK
  BY <1>1 DEF ImportTypes, ImportTypeOK
<1>3. ImportCountsAgree /\ ImportComplete
  BY DEF ImportCountsAgree, ImportComplete
<1>4. \A m \in Stored : events[m] <= Len(outcomes)
  BY DEF Stored
<1>5. QED
  BY <1>1, <1>2, <1>3, <1>4, IdleImporter DEF ImportInv

\* A process that moves and leaves the store alone.
LEMMA ImporterMoves ==
  ASSUME ImportInv, NEW p \in Importers, NEW next \in ImporterType, ImporterFits(next),
         importers' = [importers EXCEPT ![p] = next],
         next.pc = "idle" \/ (importers[p].pc # "idle" /\ importers[p].run = next.run),
         UNCHANGED <<mailbox, schema, events, identities, outcomes>>
  PROVE  ImportInv'
<1>1. ImportTypes'
  BY DEF ImportInv, ImportTypes
<1>2. ImportTypeOK' /\ ImportCountsAgree' /\ ImportComplete' /\ Stored' = Stored
  BY DEF ImportInv, ImportTypeOK, ImportCountsAgree, ImportComplete, Stored, StoredBy, OutcomeValid
<1>3. \A q \in Importers : importers'[q] = IF q = p THEN next ELSE importers[q]
  BY DEF ImportInv, ImportTypes
<1>4. ASSUME NEW q \in Importers PROVE ImporterFits(importers[q])'
  BY <1>2, <1>3 DEF ImportInv, ImporterFits, GonePast
<1>5. (\A q, r \in Importers :
          q # r /\ importers[q].pc # "idle" /\ importers[r].pc # "idle" =>
              importers[q].run # importers[r].run)'
  BY <1>3 DEF ImportInv
<1>6. (\A m \in Stored : events[m] <= Len(outcomes))'
  BY <1>2 DEF ImportInv
<1>7. QED
  BY <1>1, <1>2, <1>4, <1>5, <1>6, Zenon DEF ImportInv

\* A process that writes its row: the Events are left alone or the row counts one more.
LEMMA RowWritten ==
  ASSUME ImportInv, NEW p \in Importers, NEW next \in ImporterType, NEW row \in OutcomeRow,
         importers[p].pc # "idle", OutcomeValid(row),
         next.pc = "idle" \/ next.run = importers[p].run,
         outcomes' = [outcomes EXCEPT ![importers[p].run] = row],
         importers' = [importers EXCEPT ![p] = next],
         events' \in [Messages -> 0 .. Absent], identities' \subseteq Messages,
         schema = "current" => identities' = Stored',
         NEW run, run = importers[p].run,
         \A m \in Messages :
            events'[m] = events[m] \/ (events[m] = Absent /\ events'[m] = run),
         row.counts.inserted = Cardinality(StoredBy(run)'),
         row.state = "complete" =>
            \A k \in DOMAIN mailbox.pages : \A j \in DOMAIN mailbox.pages[k] :
                mailbox.pages[k][j] \in Stored,
         ImporterFits(next)',
         UNCHANGED <<mailbox, schema>>
  PROVE  ImportInv'
<1>1. /\ run \in DOMAIN outcomes /\ outcomes \in Seq(OutcomeRow) /\ Len(outcomes) <= MaxImports
      /\ MaxImports \in Nat /\ run \in Nat /\ run < Absent
      /\ outcomes[run].state = "in_progress"
  BY ImportAssumption DEF ImportInv, ImportTypes, ImporterFits, Absent
<1>2. /\ outcomes' \in Seq(OutcomeRow) /\ Len(outcomes') = Len(outcomes)
      /\ DOMAIN outcomes' = DOMAIN outcomes
      /\ \A r \in DOMAIN outcomes : outcomes'[r] = IF r = run THEN row ELSE outcomes[r]
  BY <1>1
<1>3. \A q \in Importers : importers'[q] = IF q = p THEN next ELSE importers[q]
  BY DEF ImportInv, ImportTypes
<1>4. ImportTypes'
  BY <1>2 DEF ImportInv, ImportTypes, Absent
<1>5. ImportTypeOK'
  BY <1>2 DEF ImportInv, ImportTypeOK, OutcomeValid, Absent
<1>6. Stored \subseteq Stored' /\ \A m \in Stored' : events'[m] <= Len(outcomes')
  <2>1. run <= Len(outcomes') /\ run # Absent
    BY <1>1, <1>2
  <2>2. Stored \subseteq Stored'
    BY <2>1 DEF Stored, Absent
  <2>3. ASSUME NEW m \in Stored' PROVE events'[m] <= Len(outcomes')
    <3>1. m \in Messages /\ events'[m] # Absent
      BY DEF Stored, Absent
    <3>2. events'[m] = run \/ (events'[m] = events[m] /\ m \in Stored)
      BY <3>1 DEF Stored
    <3>3. QED
      BY <2>1, <3>2, <1>2 DEF ImportInv
  <2>4. QED
    BY <2>2, <2>3
<1>7. ImportCountsAgree'
  <2>1. ASSUME NEW r \in DOMAIN outcomes
        PROVE  outcomes'[r].counts.inserted = Cardinality(StoredBy(r)')
    <3>1. CASE r = run
      BY <3>1, <1>2
    <3>2. CASE r # run
      <4>1. r < Absent /\ r \in Nat
        BY <1>1 DEF Absent
      <4>2. StoredBy(r)' = StoredBy(r)
        BY <3>2, <4>1 DEF StoredBy
      <4>3. outcomes'[r] = outcomes[r]
        BY <3>2, <1>2
      <4>4. QED
        BY <4>2, <4>3 DEF ImportInv, ImportCountsAgree
    <3>3. QED
      BY <3>1, <3>2
  <2>2. (schema = "current" => identities = Stored)'
    OBVIOUS
  <2>3. QED
    BY <1>2, <2>1, <2>2 DEF ImportCountsAgree
<1>8. ImportComplete'
  BY <1>2, <1>6 DEF ImportInv, ImportComplete
<1>9. ASSUME NEW q \in Importers PROVE ImporterFits(importers[q])'
  <2>1. CASE q = p
    BY <2>1, <1>3 DEF ImporterFits, GonePast
  <2>2. CASE q # p
    <3>1. importers'[q] = importers[q] /\ ImporterFits(importers[q])
      BY <2>2, <1>3 DEF ImportInv
    <3>2. importers[q].pc # "idle" => importers[q].run # run
      BY <2>2 DEF ImportInv
    <3>3. QED
      BY <3>1, <3>2, <1>2, <1>6 DEF ImporterFits, GonePast
  <2>3. QED
    BY <2>1, <2>2
<1>10. (\A q, r \in Importers :
          q # r /\ importers[q].pc # "idle" /\ importers[r].pc # "idle" =>
              importers[q].run # importers[r].run)'
  BY <1>3 DEF ImportInv
<1>11. QED
  BY <1>4, <1>5, <1>6, <1>7, <1>8, <1>9, <1>10, Zenon DEF ImportInv

\* What a process that is under way holds.
LEMMA UnderWay ==
  ASSUME ImportInv, NEW p \in Importers, importers[p].pc # "idle"
  PROVE  /\ importers[p] \in ImporterType /\ ImporterFits(importers[p])
         /\ importers[p].run \in DOMAIN outcomes
         /\ outcomes[importers[p].run] \in OutcomeRow
         /\ outcomes[importers[p].run].counts = importers[p].counts
         /\ importers[p].counts \in ImportCounts
         /\ importers[p].counts.inserted = Cardinality(StoredBy(importers[p].run))
         /\ mailbox.pages \in Seq(Seq(ImportRecords)) /\ importers[p].page \in DOMAIN mailbox.pages
         /\ mailbox.pages[importers[p].page] \in Seq(ImportRecords)
         /\ schema = "current" => identities = Stored
         /\ events \in [Messages -> 0 .. Absent] /\ identities \subseteq Messages
<1>1. importers[p] \in ImporterType /\ ImporterFits(importers[p]) /\ outcomes \in Seq(OutcomeRow)
  BY DEF ImportInv, ImportTypes
<1>2. mailbox.pages \in Seq(Seq(ImportRecords))
  BY MailboxShape DEF ImportInv, ImportTypes
<1>3. importers[p].run \in DOMAIN outcomes /\ importers[p].page \in DOMAIN mailbox.pages
      /\ outcomes[importers[p].run].counts = importers[p].counts
  BY <1>1 DEF ImporterFits
<1>4. importers[p].counts \in ImportCounts
  BY <1>1 DEF ImporterType
<1>5. importers[p].counts.inserted = Cardinality(StoredBy(importers[p].run))
  BY <1>3 DEF ImportInv, ImportCountsAgree
<1>6. QED
  BY <1>1, <1>2, <1>3, <1>4, <1>5 DEF ImportInv, ImportCountsAgree, ImportTypes

\* A process that writes its row and leaves the Events alone.
LEMMA RowUpdated ==
  ASSUME ImportInv, NEW p \in Importers, NEW next \in ImporterType, NEW row \in OutcomeRow,
         importers[p].pc # "idle", OutcomeValid(row),
         next.pc = "idle" \/ next.run = importers[p].run,
         outcomes' = [outcomes EXCEPT ![importers[p].run] = row],
         importers' = [importers EXCEPT ![p] = next],
         row.counts.inserted = importers[p].counts.inserted,
         row.state = "complete" =>
            \A k \in DOMAIN mailbox.pages : \A j \in DOMAIN mailbox.pages[k] :
                mailbox.pages[k][j] \in Stored,
         ImporterFits(next)',
         UNCHANGED <<mailbox, schema, events, identities>>
  PROVE  ImportInv'
<1>1. PICK run : run = importers[p].run
  OBVIOUS
<1>2. StoredBy(run)' = StoredBy(run) /\ Stored' = Stored
  BY DEF StoredBy, Stored
<1>3. row.counts.inserted = Cardinality(StoredBy(run)')
  BY <1>1, <1>2, UnderWay
<1>4. /\ events' \in [Messages -> 0 .. Absent] /\ identities' \subseteq Messages
      /\ schema = "current" => identities' = Stored'
  BY <1>2, UnderWay
<1>5. QED
  BY <1>1, <1>3, <1>4, RowWritten

\* A failed run: its row is final and its process is gone.
LEMMA ImportFails ==
  ASSUME ImportInv, NEW p \in Importers, importers[p].pc # "idle", FailImport(p),
         UNCHANGED <<mailbox, schema, events, identities>>
  PROVE  ImportInv'
<1> DEFINE old == outcomes[importers[p].run]
           state == IF AnyCount(old.counts) THEN "partial" ELSE "failed"
<1>1. PICK row : row = [state |-> state, counts |-> old.counts, reason |-> "import_error"]
  OBVIOUS
<1>2. row \in OutcomeRow /\ row.state # "complete" /\ row.counts.inserted = importers[p].counts.inserted
  BY <1>1, UnderWay DEF OutcomeRow
<1>3. OutcomeValid(row) /\ outcomes' = [outcomes EXCEPT ![importers[p].run] = row]
  BY <1>1 DEF FailImport, Update
<1>4. importers' = [importers EXCEPT ![p] = Idle]
  BY DEF FailImport
<1>5. ImporterFits(Idle)'
  BY IdleImporter DEF ImporterFits
<1>6. QED
  BY <1>2, <1>3, <1>4, <1>5, IdleImporter, RowUpdated

\* A process that writes its counts, its run still in progress.
LEMMA CountsWritten ==
  ASSUME ImportInv, NEW p \in Importers, NEW next \in ImporterType, importers[p].pc # "idle",
         next.run = importers[p].run, next.pc # "idle",
         Update(importers[p].run, next.counts, "in_progress", "none"),
         importers' = [importers EXCEPT ![p] = next],
         next.counts.inserted = importers[p].counts.inserted,
         next.page = importers[p].page, next.at >= 1,
         next.pc = "progress" => next.at <= Len(mailbox.pages[next.page]),
         \A k \in DOMAIN mailbox.pages : \A j \in DOMAIN mailbox.pages[k] :
            GonePast(next, k, j) => mailbox.pages[k][j] \in Stored \/ next.counts.failed # 0,
         UNCHANGED <<mailbox, schema, events, identities>>
  PROVE  ImportInv'
<1>1. PICK row : row = [state |-> "in_progress", counts |-> next.counts, reason |-> "none"]
  OBVIOUS
<1>2. row \in OutcomeRow /\ row.state = "in_progress" /\ row.counts = next.counts
  BY <1>1 DEF OutcomeRow, ImporterType
<1>3. OutcomeValid(row) /\ outcomes' = [outcomes EXCEPT ![importers[p].run] = row]
  BY <1>1 DEF Update
<1>4. /\ importers[p].run \in DOMAIN outcomes /\ outcomes \in Seq(OutcomeRow)
      /\ importers[p].page \in DOMAIN mailbox.pages
  BY UnderWay DEF ImportInv, ImportTypes
<1>5. next.run \in DOMAIN outcomes' /\ outcomes'[next.run] = row /\ Stored' = Stored
  BY <1>3, <1>4 DEF Stored
<1>6. ImporterFits(next)'
  BY <1>2, <1>4, <1>5 DEF ImporterFits, GonePast
<1>7. QED
  BY <1>2, <1>3, <1>6, RowUpdated

LEMMA ImportBegins ==
  ASSUME ImportInv, NEW p \in Importers, BeginImport(p) PROVE ImportInv'
<1> USE ImportAssumption DEF BeginImport
<1>1. PICK next : next = [Idle EXCEPT !.pc = "reading", !.run = Len(outcomes) + 1]
  OBVIOUS
<1>2. PICK row : row = [state |-> "in_progress", counts |-> Zero, reason |-> "none"]
  OBVIOUS
<1>3. outcomes \in Seq(OutcomeRow) /\ Len(outcomes) < MaxImports /\ Len(outcomes) \in Nat
  BY DEF ImportInv, ImportTypes
<1>4. /\ next \in ImporterType /\ next.pc = "reading" /\ next.run = Len(outcomes) + 1
      /\ next.page = 1 /\ next.at = 1 /\ next.counts = Zero
  <2>1. next = [pc |-> "reading", run |-> Len(outcomes) + 1, page |-> 1, at |-> 1, counts |-> Zero]
    BY <1>1 DEF Idle
  <2>2. Zero \in ImportCounts
    BY DEF Zero, ImportCounts
  <2>3. QED
    BY <2>1, <2>2, <1>3 DEF ImporterType
<1>5. /\ row \in OutcomeRow /\ OutcomeValid(row) /\ row.state = "in_progress" /\ row.counts = Zero
      /\ Zero.inserted = 0
  BY <1>2 DEF OutcomeRow, Zero, ImportCounts, OutcomeValid
<1>6. /\ outcomes' = Append(outcomes, row) /\ outcomes' \in Seq(OutcomeRow)
      /\ Len(outcomes') = Len(outcomes) + 1 /\ outcomes'[Len(outcomes) + 1] = row
      /\ DOMAIN outcomes' = DOMAIN outcomes \cup {Len(outcomes) + 1}
      /\ \A r \in DOMAIN outcomes : outcomes'[r] = outcomes[r] /\ r # Len(outcomes) + 1
  BY <1>2, <1>3, <1>5
<1>7. \A q \in Importers : importers'[q] = IF q = p THEN next ELSE importers[q]
  BY <1>1 DEF ImportInv, ImportTypes
<1>8. ImportTypes'
  BY <1>1, <1>3, <1>4, <1>6 DEF ImportInv, ImportTypes, Absent
<1>9. ImportTypeOK'
  BY <1>5, <1>6 DEF ImportInv, ImportTypeOK, OutcomeValid, Absent
<1>10. Stored' = Stored /\ \A r : StoredBy(r)' = StoredBy(r)
  BY DEF Stored, StoredBy, Absent
<1>11. StoredBy(Len(outcomes) + 1) = {}
  <2>1. ASSUME NEW m \in Messages PROVE events[m] # Len(outcomes) + 1
    <3>1. CASE m \in Stored
      BY <3>1, <1>3 DEF ImportInv, ImportTypes
    <3>2. CASE m \notin Stored
      BY <3>2, <1>3 DEF Stored, Absent
    <3>3. QED
      BY <3>1, <3>2
  <2>2. QED
    BY <2>1 DEF StoredBy
<1>12. ImportCountsAgree'
  <2>1. \A r \in DOMAIN outcomes' : outcomes'[r].counts.inserted = Cardinality(StoredBy(r))
    BY <1>5, <1>6, <1>11, FS_EmptySet DEF ImportInv, ImportCountsAgree
  <2>2. QED
    BY <1>10, <2>1 DEF ImportInv, ImportCountsAgree
<1>13. ImportComplete'
  BY <1>5, <1>6, <1>10 DEF ImportInv, ImportComplete
<1>14. (\A m \in Stored : events[m] <= Len(outcomes))'
  BY <1>3, <1>6, <1>10 DEF ImportInv, ImportTypes, Stored
<1>15. ASSUME NEW q \in Importers PROVE ImporterFits(importers[q])'
  <2>1. CASE q = p
    <3>1. 1 \in DOMAIN mailbox.pages
      BY MailboxShape DEF ImportInv, ImportTypes
    <3>2. mailbox.pages \in Seq(Seq(ImportRecords))
      BY MailboxShape DEF ImportInv, ImportTypes
    <3>3. importers'[q] = next /\ mailbox' = mailbox
      BY <2>1, <1>7
    <3>4. \A k \in DOMAIN mailbox.pages : \A j : ~GonePast(next, k, j)
      BY <1>4, <3>2 DEF GonePast
    <3>5. /\ next.run \in DOMAIN outcomes' /\ outcomes'[next.run].state = "in_progress"
          /\ outcomes'[next.run].counts = next.counts
      BY <1>4, <1>5, <1>6
    <3>6. next.page \in DOMAIN mailbox.pages /\ next.at >= 1 /\ next.pc # "progress"
      BY <1>4, <3>1
    <3>7. ImporterFits(next)'
      BY <3>3, <3>4, <3>5, <3>6, Zenon DEF ImporterFits
    <3>8. QED
      BY <3>3, <3>7 DEF ImporterFits
  <2>2. CASE q # p
    BY <2>2, <1>6, <1>7, <1>10 DEF ImportInv, ImporterFits, GonePast
  <2>3. QED
    BY <2>1, <2>2
<1>16. (\A q, r \in Importers :
          q # r /\ importers[q].pc # "idle" /\ importers[r].pc # "idle" =>
              importers[q].run # importers[r].run)'
  BY <1>4, <1>6, <1>7 DEF ImportInv, ImporterFits
<1>17. QED
  BY <1>8, <1>9, <1>12, <1>13, <1>14, <1>15, <1>16, Zenon DEF ImportInv

LEMMA ImportInterrupted ==
  ASSUME ImportInv, NEW p \in Importers, StopImport(p) PROVE ImportInv'
<1>1. importers[p].pc # "idle" /\ FailImport(p) /\ UNCHANGED <<mailbox, schema, events, identities>>
  BY DEF StopImport
<1>2. QED
  BY <1>1, ImportFails

LEMMA PageRead ==
  ASSUME ImportInv, NEW p \in Importers, ReadPage(p) PROVE ImportInv'
<1> DEFINE i == importers[p]
<1>0. i.pc = "reading" /\ UNCHANGED <<mailbox, schema, events, identities>>
  BY DEF ReadPage
<1>1. CASE FailImport(p)
  BY <1>0, <1>1, ImportFails
<1>2. CASE importers' = [importers EXCEPT ![p].pc = "records", ![p].at = 1] /\ UNCHANGED outcomes
  <2>1. i \in ImporterType /\ ImporterFits(i) /\ mailbox.pages \in Seq(Seq(ImportRecords))
    BY <1>0, UnderWay
  <2>2. PICK next : next = [i EXCEPT !.pc = "records", !.at = 1]
    OBVIOUS
  <2>3. /\ next \in ImporterType /\ next.pc = "records" /\ next.at = 1 /\ next.run = i.run
        /\ next.page = i.page /\ next.counts = i.counts
    BY <2>1, <2>2 DEF ImporterType
  <2>4. \A k \in DOMAIN mailbox.pages : \A j \in DOMAIN mailbox.pages[k] :
           GonePast(next, k, j) => GonePast(i, k, j)
    BY <2>1, <2>3 DEF GonePast
  <2>5. ImporterFits(next)
    BY <1>0, <2>1, <2>3, <2>4 DEF ImporterFits
  <2>6. importers' = [importers EXCEPT ![p] = next]
    BY <1>2, <2>2, UnderWay, <1>0
  <2>7. QED
    BY <1>0, <1>2, <2>3, <2>5, <2>6, ImporterMoves
<1>3. QED
  BY <1>1, <1>2, Zenon DEF ReadPage

LEMMA RecordRejected ==
  ASSUME ImportInv, NEW p \in Importers, RejectRecord(p) PROVE ImportInv'
<1> DEFINE i == importers[p]
           counts == [i.counts EXCEPT !.failed = @ + 1]
<1>0. i.pc = "records" /\ UNCHANGED <<mailbox, schema, events, identities>>
  BY DEF RejectRecord, HasRecord
<1>1. i \in ImporterType /\ i.counts \in ImportCounts /\ ImporterFits(i)
  BY <1>0, UnderWay
<1>2. PICK next : next = [i EXCEPT !.counts = counts, !.at = @ + 1]
  OBVIOUS
<1>3. /\ next \in ImporterType /\ next.pc = "records" /\ next.at = i.at + 1 /\ next.run = i.run
      /\ next.page = i.page /\ next.counts = counts
  <2>1. i.at \in Nat /\ next.at = i.at + 1 /\ i.counts.failed \in Nat
    BY <1>1, <1>2 DEF ImporterType, ImportCounts
  <2>2. i.at + 1 \in Nat /\ i.counts.failed + 1 \in Nat
    BY <2>1
  <2>3. counts \in ImportCounts
    BY <1>1, <2>2 DEF ImportCounts
  <2>4. QED
    BY <1>0, <1>1, <1>2, <2>1, <2>2, <2>3 DEF ImporterType
<1>4. counts.failed # 0 /\ counts.inserted = i.counts.inserted
  BY <1>1 DEF ImportCounts
<1>5. importers' = [importers EXCEPT ![p] = next]
  BY <1>2 DEF RejectRecord
<1>6. Update(i.run, next.counts, "in_progress", "none")
  BY <1>3 DEF RejectRecord
<1>7. next.at >= 1
  BY <1>0, <1>1, <1>3 DEF ImporterFits, ImporterType
<1>8. QED
  BY <1>0, <1>3, <1>4, <1>5, <1>6, <1>7, CountsWritten

LEMMA ProgressWritten ==
  ASSUME ImportInv, NEW p \in Importers, Progress(p) PROVE ImportInv'
<1> DEFINE i == importers[p]
<1>0. i.pc = "progress" /\ UNCHANGED <<mailbox, schema, events, identities>>
  BY DEF Progress
<1>1. i \in ImporterType /\ ImporterFits(i) /\ mailbox.pages \in Seq(Seq(ImportRecords))
  BY <1>0, UnderWay
<1>2. PICK next : next = [i EXCEPT !.pc = "records", !.at = @ + 1]
  OBVIOUS
<1>3. /\ next \in ImporterType /\ next.pc = "records" /\ next.at = i.at + 1 /\ next.run = i.run
      /\ next.page = i.page /\ next.counts = i.counts
  <2>1. i.at \in Nat /\ next.at = i.at + 1
    BY <1>1, <1>2 DEF ImporterType
  <2>2. i.at + 1 \in Nat
    BY <2>1
  <2>3. QED
    BY <1>1, <1>2, <2>1, <2>2 DEF ImporterType
<1>4. importers' = [importers EXCEPT ![p] = next]
  BY <1>2 DEF Progress
<1>5. i.at \in Nat
  BY <1>1 DEF ImporterType
<1>6. \A k \in DOMAIN mailbox.pages : \A j \in DOMAIN mailbox.pages[k] :
         GonePast(next, k, j) => GonePast(i, k, j)
  BY <1>0, <1>1, <1>3, <1>5 DEF GonePast
<1>7. \A k \in DOMAIN mailbox.pages : \A j \in DOMAIN mailbox.pages[k] :
         GonePast(next, k, j) => mailbox.pages[k][j] \in Stored \/ next.counts.failed # 0
  BY <1>0, <1>1, <1>3, <1>6 DEF ImporterFits
<1>8. Update(i.run, next.counts, "in_progress", "none") /\ next.at >= 1
  BY <1>3, <1>5 DEF Progress
<1>9. QED
  BY <1>0, <1>3, <1>4, <1>7, <1>8, CountsWritten

LEMMA PageEnds ==
  ASSUME ImportInv, NEW p \in Importers, EndPage(p) PROVE ImportInv'
<1> DEFINE i == importers[p]
           counts == [i.counts EXCEPT !.pages = i.page]
<1>0. /\ i.pc = "records" /\ i.at > Len(mailbox.pages[i.page])
      /\ UNCHANGED <<mailbox, schema, events, identities>>
  BY DEF EndPage
<1>1. /\ i \in ImporterType /\ ImporterFits(i) /\ i.counts \in ImportCounts
      /\ mailbox.pages \in Seq(Seq(ImportRecords)) /\ mailbox.pages[i.page] \in Seq(ImportRecords)
  BY <1>0, UnderWay
<1>2. PICK next : next = [i EXCEPT !.counts = counts, !.pc = "paged"]
  OBVIOUS
<1>3. /\ next \in ImporterType /\ next.pc = "paged" /\ next.at = i.at /\ next.run = i.run
      /\ next.page = i.page /\ next.counts = counts
  BY <1>1, <1>2 DEF ImporterType, ImportCounts
<1>4. counts.inserted = i.counts.inserted /\ counts.failed = i.counts.failed
  BY <1>1 DEF ImportCounts
<1>5. importers' = [importers EXCEPT ![p] = next]
  BY <1>2 DEF EndPage
<1>6. i.at \in Nat
  BY <1>1 DEF ImporterType
<1>7. ASSUME NEW k \in DOMAIN mailbox.pages, NEW j \in DOMAIN mailbox.pages[k], GonePast(next, k, j)
      PROVE  GonePast(i, k, j)
  <2>1. CASE k < i.page
    BY <2>1 DEF GonePast
  <2>2. CASE k = i.page
    <3>1. j < i.at
      BY <2>2, <1>0, <1>1, <1>6
    <3>2. QED
      BY <3>1, <2>2, <1>0 DEF GonePast
  <2>3. QED
    BY <2>1, <2>2, <1>3, <1>7 DEF GonePast
<1>8. \A k \in DOMAIN mailbox.pages : \A j \in DOMAIN mailbox.pages[k] :
         GonePast(next, k, j) => mailbox.pages[k][j] \in Stored \/ next.counts.failed # 0
  BY <1>0, <1>1, <1>3, <1>4, <1>7 DEF ImporterFits
<1>9. Update(i.run, next.counts, "in_progress", "none") /\ next.at >= 1
  BY <1>0, <1>1, <1>3, <1>6 DEF EndPage, ImporterFits
<1>10. QED
  BY <1>0, <1>3, <1>4, <1>5, <1>8, <1>9, CountsWritten

LEMMA ImporterKilled ==
  ASSUME ImportInv, NEW p \in Importers, KillImporter(p) PROVE ImportInv'
<1>1. importers' = [importers EXCEPT ![p] = Idle]
      /\ UNCHANGED <<mailbox, schema, events, identities, outcomes>>
  BY DEF KillImporter
<1>2. QED
  BY <1>1, IdleImporter, ImporterMoves

\* One Event more, or a duplicate: the row that counts it is written with it.
LEMMA RecordInserted ==
  ASSUME ImportInv, NEW p \in Importers, InsertRecord(p) PROVE ImportInv'
<1> DEFINE i == importers[p]
           m == Record(p)
           fresh == events[m] = Absent
           counts == Counted(i.counts, fresh)
<1>0. /\ i.pc = "records" /\ i.at <= Len(mailbox.pages[i.page]) /\ schema = "current"
      /\ UNCHANGED <<mailbox, schema>> /\ Admitted(m)
  BY DEF InsertRecord, HasRecord
<1>1. /\ i \in ImporterType /\ ImporterFits(i) /\ i.counts \in ImportCounts
      /\ mailbox.pages \in Seq(Seq(ImportRecords)) /\ mailbox.pages[i.page] \in Seq(ImportRecords)
      /\ i.counts.inserted = Cardinality(StoredBy(i.run)) /\ i.run \in DOMAIN outcomes
      /\ i.page \in DOMAIN mailbox.pages
      /\ identities = Stored /\ events \in [Messages -> 0 .. Absent] /\ identities \subseteq Messages
  BY <1>0, UnderWay
<1>2. i.at \in Nat /\ i.at >= 1
  BY <1>0, <1>1 DEF ImporterType, ImporterFits
<1>3. m \in Messages
  <2>1. m \in ImportRecords
    BY <1>0, <1>1, <1>2 DEF Record
  <2>2. QED
    BY <2>1, <1>0 DEF ImportRecords, Admitted
<1>4. PICK run : run = i.run
  OBVIOUS
<1>5. run \in Nat /\ run # Absent /\ run \in 0 .. Absent /\ Absent \in Nat
      /\ outcomes \in Seq(OutcomeRow)
  BY <1>1, <1>4, ImportAssumption DEF ImportInv, ImportTypes, Absent
<1>6. \A x \in Messages : events'[x] = IF x = m /\ fresh THEN run ELSE events[x]
  BY <1>1, <1>3, <1>4 DEF InsertRecord
<1>7. events' \in [Messages -> 0 .. Absent]
  <2>1. PICK val : val = IF fresh THEN run ELSE events[m]
    OBVIOUS
  <2>2. val \in 0 .. Absent
    BY <2>1, <1>1, <1>3, <1>5
  <2>3. events' = [events EXCEPT ![m] = val]
    BY <1>4, <2>1 DEF InsertRecord
  <2>4. QED
    BY <1>1, <2>2, <2>3
<1>8. Stored' = Stored \cup {m}
  BY <1>3, <1>5, <1>6 DEF Stored, Absent
<1>9. identities' = Stored' /\ identities' \subseteq Messages
  BY <1>1, <1>3, <1>8 DEF InsertRecord
<1>10. counts \in ImportCounts /\ counts.failed = i.counts.failed
       /\ counts.inserted = IF fresh THEN i.counts.inserted + 1 ELSE i.counts.inserted
  <2>1. i.counts.inserted + 1 \in Nat /\ i.counts.duplicates + 1 \in Nat
    BY <1>1 DEF ImportCounts
  <2>2. QED
    BY <1>1, <2>1 DEF ImportCounts, Counted
<1>11. counts.inserted = Cardinality(StoredBy(run)')
  <2>0. IsFiniteSet(StoredBy(run))
    <3>1. IsFiniteSet(Messages)
      <4>1. IsFiniteSet({"m1"})
        BY FS_Singleton
      <4>2. IsFiniteSet({"m1"} \cup {"m2"}) /\ Messages = {"m1"} \cup {"m2"}
        BY <4>1, FS_AddElement DEF Messages
      <4>3. QED
        BY <4>2
    <3>2. StoredBy(run) \subseteq Messages
      BY DEF StoredBy
    <3>3. QED
      BY <3>1, <3>2, FS_Subset
  <2>1. CASE fresh
    <3>1. StoredBy(run)' = StoredBy(run) \cup {m} /\ m \notin StoredBy(run)
      BY <2>1, <1>3, <1>5, <1>6 DEF StoredBy
    <3>2. Cardinality(StoredBy(run)') = Cardinality(StoredBy(run)) + 1
      BY <2>0, <3>1, FS_AddElement
    <3>3. QED
      BY <2>1, <3>2, <1>1, <1>4, <1>10
  <2>2. CASE ~fresh
    <3>1. StoredBy(run)' = StoredBy(run)
      BY <2>2, <1>3, <1>6 DEF StoredBy
    <3>2. QED
      BY <2>2, <3>1, <1>1, <1>4, <1>10
  <2>3. QED
    BY <2>1, <2>2
<1>12. PICK row : row = [state |-> "in_progress", counts |-> counts, reason |-> "none"]
  OBVIOUS
<1>13. row \in OutcomeRow /\ row.state = "in_progress" /\ row.counts = counts
  BY <1>10, <1>12 DEF OutcomeRow
<1>14. OutcomeValid(row) /\ outcomes' = [outcomes EXCEPT ![run] = row]
  BY <1>4, <1>12 DEF InsertRecord, Update
<1>15. PICK next : next = [i EXCEPT !.counts = counts, !.pc = "progress"]
  OBVIOUS
<1>16. /\ next \in ImporterType /\ next.pc = "progress" /\ next.at = i.at /\ next.run = i.run
       /\ next.page = i.page /\ next.counts = counts
  BY <1>1, <1>10, <1>15 DEF ImporterType
<1>17. importers' = [importers EXCEPT ![p] = next]
  BY <1>15 DEF InsertRecord
<1>18. ASSUME NEW k \in DOMAIN mailbox.pages, NEW j \in DOMAIN mailbox.pages[k], GonePast(next, k, j)
       PROVE  mailbox.pages[k][j] \in Stored' \/ next.counts.failed # 0
  <2>1. CASE k = i.page /\ j = i.at
    BY <2>1, <1>8 DEF Record
  <2>2. CASE ~(k = i.page /\ j = i.at)
    <3>1. GonePast(i, k, j)
      BY <2>2, <1>0, <1>1, <1>2, <1>16, <1>18 DEF GonePast
    <3>2. QED
      BY <3>1, <1>0, <1>1, <1>8, <1>10, <1>16 DEF ImporterFits
  <2>3. QED
    BY <2>1, <2>2
<1>19. ImporterFits(next)'
  <2>1. next.run \in DOMAIN outcomes' /\ outcomes'[next.run] = row
    BY <1>1, <1>4, <1>5, <1>14, <1>16
  <2>2. QED
    BY <2>1, <1>0, <1>1, <1>2, <1>13, <1>16, <1>18 DEF ImporterFits, GonePast
<1>20. \A x \in Messages : events'[x] = events[x] \/ (events[x] = Absent /\ events'[x] = run)
  BY <1>6
<1>21. /\ outcomes' = [outcomes EXCEPT ![importers[p].run] = row] /\ row.state # "complete"
       /\ row.counts.inserted = Cardinality(StoredBy(run)') /\ importers[p].pc # "idle"
       /\ schema = "current" => identities' = Stored'
  BY <1>0, <1>4, <1>9, <1>11, <1>13, <1>14
<1>22. /\ next \in ImporterType /\ next.run = importers[p].run /\ row \in OutcomeRow
       /\ OutcomeValid(row) /\ run = importers[p].run /\ UNCHANGED <<mailbox, schema>>
  BY <1>0, <1>4, <1>13, <1>14, <1>16
<1>23. QED
  BY <1>7, <1>9, <1>17, <1>19, <1>20, <1>21, <1>22, RowWritten, ZenonT(30)

LEMMA LinkFollowed ==
  ASSUME ImportInv, NEW p \in Importers, FollowLink(p) PROVE ImportInv'
<1> DEFINE i == importers[p]
           link == mailbox.links[i.page]
           done == link = "end" \/ i.page = MaxPages
           final == Finished(i.counts, link = "end")
<1>0. i.pc = "paged" /\ UNCHANGED <<mailbox, schema, events, identities>>
  BY DEF FollowLink
<1>1. /\ i \in ImporterType /\ ImporterFits(i) /\ i.counts \in ImportCounts
      /\ mailbox.pages \in Seq(Seq(ImportRecords)) /\ i.page \in DOMAIN mailbox.pages
  BY <1>0, UnderWay
<1>2. CASE link = "visited" /\ FailImport(p)
  BY <1>0, <1>2, ImportFails
<1>3. CASE /\ link # "visited" /\ done
           /\ Update(i.run, i.counts, final.state, final.reason)
           /\ importers' = [importers EXCEPT ![p] = Idle]
  <2>1. PICK row : row = [state |-> final.state, counts |-> i.counts, reason |-> final.reason]
    OBVIOUS
  <2>2. /\ final.state \in {"complete", "partial"}
        /\ final.reason \in {"none", "malformed_records", "page_limit"}
        /\ final.state = "complete" => link = "end" /\ i.counts.failed = 0
    BY DEF Finished
  <2>3. row \in OutcomeRow /\ row.counts = i.counts /\ row.state = final.state
    BY <2>1, <2>2, <1>1 DEF OutcomeRow
  <2>4. OutcomeValid(row) /\ outcomes' = [outcomes EXCEPT ![i.run] = row]
    BY <2>1, <1>3 DEF Update
  <2>5. ASSUME row.state = "complete", NEW k \in DOMAIN mailbox.pages,
               NEW j \in DOMAIN mailbox.pages[k]
        PROVE  mailbox.pages[k][j] \in Stored
    <3>1. i.page = Len(mailbox.pages)
      BY <2>2, <2>3, <2>5, <1>1, MailboxShape DEF ImportInv, ImportTypes
    <3>2. GonePast(i, k, j)
      BY <3>1, <1>0, <1>1 DEF GonePast
    <3>3. QED
      BY <3>2, <2>2, <2>3, <2>5, <1>0, <1>1 DEF ImporterFits
  <2>6. ImporterFits(Idle)'
    BY IdleImporter DEF ImporterFits
  <2>7. QED
    BY <2>3, <2>4, <2>5, <2>6, <1>0, <1>3, IdleImporter, RowUpdated
<1>4. CASE /\ link # "visited" /\ ~done
           /\ importers' = [importers EXCEPT ![p].pc = "reading", ![p].page = @ + 1]
           /\ UNCHANGED outcomes
  <2>1. i.page + 1 \in DOMAIN mailbox.pages /\ i.page \in Nat /\ i.page + 1 \in Nat
    BY <1>1, <1>4, MailboxShape, SMTT(60) DEF ImportInv, ImportTypes
  <2>2. PICK next : next = [i EXCEPT !.pc = "reading", !.page = @ + 1]
    OBVIOUS
  <2>3. /\ next \in ImporterType /\ next.pc = "reading" /\ next.at = i.at /\ next.run = i.run
        /\ next.page = i.page + 1 /\ next.counts = i.counts
    BY <1>1, <2>1, <2>2 DEF ImporterType
  <2>4. ASSUME NEW k \in DOMAIN mailbox.pages, NEW j \in DOMAIN mailbox.pages[k], GonePast(next, k, j)
        PROVE  GonePast(i, k, j)
    <3>1. k < i.page + 1 /\ k \in Nat
      BY <1>1, <2>3, <2>4 DEF GonePast
    <3>2. k < i.page \/ k = i.page
      BY <3>1, <2>1
    <3>3. QED
      BY <3>2, <1>0 DEF GonePast
  <2>5. ImporterFits(next)
    BY <1>0, <1>1, <2>1, <2>3, <2>4 DEF ImporterFits
  <2>6. importers' = [importers EXCEPT ![p] = next]
    BY <1>4, <2>2
  <2>7. QED
    BY <1>0, <1>4, <2>3, <2>5, <2>6, ImporterMoves
<1>5. QED
  BY <1>2, <1>3, <1>4, Zenon DEF FollowLink

LEMMA StoreInitialised ==
  ASSUME ImportInv, Initialise PROVE ImportInv'
<1> USE DEF Initialise
<1>1. ImportTypes'
  BY DEF ImportInv, ImportTypes, Stored
<1>2. ImportTypeOK' /\ ImportComplete' /\ Stored' = Stored
  BY DEF ImportInv, ImportTypeOK, ImportComplete, Stored, OutcomeValid
<1>3. ImportCountsAgree'
  BY <1>2 DEF ImportInv, ImportCountsAgree, StoredBy
<1>4. (\A m \in Stored : events[m] <= Len(outcomes))'
  BY <1>2 DEF ImportInv
<1>5. \A p \in Importers : ImporterFits(importers[p])'
  BY <1>2 DEF ImportInv, ImporterFits, GonePast
<1>6. (\A p, q \in Importers :
          p # q /\ importers[p].pc # "idle" /\ importers[q].pc # "idle" =>
              importers[p].run # importers[q].run)'
  BY DEF ImportInv
<1>7. QED
  BY <1>1, <1>2, <1>3, <1>4, <1>5, <1>6, Zenon DEF ImportInv

LEMMA ImportStep == ImportInv /\ [ImportNext]_importVars => ImportInv'
<1> SUFFICES ASSUME ImportInv, [ImportNext]_importVars PROVE ImportInv'
  OBVIOUS
<1>1. ASSUME NEW p \in Importers, InsertRefused(p) PROVE ImportInv'
  BY <1>1, ImportFails DEF InsertRefused, HasRecord
<1>2. CASE UNCHANGED importVars
  <2> USE <1>2 DEF importVars
  <2>1. ImportTypes' /\ ImportTypeOK' /\ ImportComplete' /\ Stored' = Stored
    BY DEF ImportInv, ImportTypes, ImportTypeOK, ImportComplete, Stored, OutcomeValid
  <2>2. ImportCountsAgree'
    BY <2>1 DEF ImportInv, ImportCountsAgree, StoredBy
  <2>3. (\A m \in Stored : events[m] <= Len(outcomes))'
    BY <2>1 DEF ImportInv
  <2>4. \A p \in Importers : ImporterFits(importers[p])'
    BY <2>1 DEF ImportInv, ImporterFits, GonePast
  <2>5. (\A p, q \in Importers :
            p # q /\ importers[p].pc # "idle" /\ importers[q].pc # "idle" =>
                importers[p].run # importers[q].run)'
    BY DEF ImportInv
  <2>6. QED
    BY <2>1, <2>2, <2>3, <2>4, <2>5, Zenon DEF ImportInv
<1>3. QED
  BY <1>1, <1>2, StoreInitialised, ImportBegins, PageRead, RecordRejected, RecordInserted,
     ProgressWritten, PageEnds, LinkFollowed, ImportInterrupted, ImporterKilled, Zenon
     DEF ImportNext

ImportSpec == ImportInit /\ [][ImportNext]_importVars

\* In every state of the Outlook import each row counts what its run stored and a
\* complete run has the whole mailbox (insert with its checkpoint, ingest_mailbox).
THEOREM ImportStands == ImportSpec => []ImportInv
<1>1. QED
  BY ImportInitInv, ImportStep, PTL DEF ImportSpec

(***************************************************************************)
(* The email store.  What an import has gone past in its file is stored or *)
(* pending, its counts are those of what it went past, and the rows it     *)
(* counts as its own are rows that are there.                              *)
(***************************************************************************)
MailTotals == [imported : Nat, skipped : Nat, failed : Nat]
MailImporterType ==
    [pc : {"idle", "reading", "committed", "done"}, file : Mboxes, at : Nat, pending : Seq(Keys),
     imported : Nat, skipped : Nat, totals : MailTotals]

MailTypes ==
    /\ directory \in MailDirectories /\ statusTable \in BOOLEAN
    /\ emails \in Seq(Keys) /\ IsInjective(emails)
    /\ statuses \in [Mboxes -> {"none", "running", "completed", "failed", "interrupted"}]
    /\ mailImporters \in [MailImporters -> MailImporterType]

\* Before its batch the messages of the file are stored; the batch ends where it stands.
MailboxRead(i) ==
    LET box == directory[i.file]
        before == i.at - 1 - Len(i.pending)
    IN /\ i.at <= Len(box) + 1 /\ before \in Nat
       /\ \A k \in 1 .. Len(i.pending) : i.pending[k] = box[before + k]
       /\ \A k \in 1 .. before : box[k] \in Range(emails)
       /\ i.imported + i.skipped = before
       /\ i.pc = "committed" => i.pending = <<>> /\ i.at = Len(box) + 1
       /\ i.totals.failed = 0 =>
            i.totals.imported + i.totals.skipped = IF i.file = 1 THEN 0 ELSE Len(directory[1])

MailFits(i) ==
    /\ Len(i.pending) <= MailBatch
    /\ i.pc \in {"reading", "committed"} => MailboxRead(i)
    /\ i.pc = "done" /\ i.totals.failed = 0 =>
         i.totals.imported + i.totals.skipped = Len(directory[1]) + Len(directory[2])

\* The sum that ImportedBy takes, over every set of the imports.
Share(i) == i.imported + i.totals.imported
SumsShares(sum) ==
    sum = [s \in SUBSET MailImporters |->
              IF s = {} THEN 0
              ELSE LET p == CHOOSE p \in s : TRUE
                   IN mailImporters[p].imported + mailImporters[p].totals.imported + sum[s \ {p}]]
SharesStored ==
    \E sum \in [SUBSET MailImporters -> Int] : SumsShares(sum) /\ sum[MailImporters] <= Len(emails)

MailInv ==
    /\ MailTypes
    /\ MailCompleted
    /\ \A p \in MailImporters : MailFits(mailImporters[p])
    /\ SharesStored

LEMMA DirectoryShape ==
  ASSUME NEW d \in MailDirectories
  PROVE  d \in Seq(Seq(Keys)) /\ Len(d) = 2 /\ d[1] \in Seq(Keys) /\ d[2] \in Seq(Keys)
<1>1. CASE d = <<<<"a", "b", "c">>, <<"a">>>>
  BY <1>1 DEF Keys
<1>2. CASE d = <<<<>>, <<"a", "a">>>>
  BY <1>2 DEF Keys
<1>3. QED
  BY <1>1, <1>2 DEF MailDirectories

LEMMA RangeOfConcat ==
  ASSUME NEW S, NEW s \in Seq(S), NEW t \in Seq(S)
  PROVE  /\ Range(s \o t) = Range(s) \cup Range(t)
         /\ IsInjective(s) /\ IsInjective(t) /\ Range(s) \cap Range(t) = {} => IsInjective(s \o t)
<1>1. /\ s \o t \in Seq(S) /\ Len(s \o t) = Len(s) + Len(t) /\ Len(s) \in Nat /\ Len(t) \in Nat
      /\ \A k \in 1 .. Len(s) : (s \o t)[k] = s[k]
      /\ \A k \in 1 .. Len(t) : (s \o t)[Len(s) + k] = t[k]
  OBVIOUS
<1>2. PICK u : u = s \o t
  OBVIOUS
<1>3. \A k \in 1 .. Len(u) :
         \/ k \in 1 .. Len(s) /\ u[k] = s[k]
         \/ k - Len(s) \in 1 .. Len(t) /\ u[k] = t[k - Len(s)]
  <2> SUFFICES ASSUME NEW k \in 1 .. Len(u)
               PROVE  \/ k \in 1 .. Len(s) /\ u[k] = s[k]
                      \/ k - Len(s) \in 1 .. Len(t) /\ u[k] = t[k - Len(s)]
    OBVIOUS
  <2>1. CASE k <= Len(s)
    BY <2>1, <1>1, <1>2
  <2>2. CASE k > Len(s)
    <3>1. k - Len(s) \in 1 .. Len(t) /\ Len(s) + (k - Len(s)) = k
      BY <2>2, <1>1, <1>2
    <3>2. QED
      BY <3>1, <1>1, <1>2
  <2>3. QED
    BY <2>1, <2>2, <1>1, <1>2
<1>4. \A y : y \in Range(u) <=> y \in Range(s) \/ y \in Range(t)
  <2>1. ASSUME NEW y, y \in Range(u) PROVE y \in Range(s) \/ y \in Range(t)
    <3>1. PICK k \in 1 .. Len(u) : u[k] = y
      BY <2>1, <1>1, <1>2, RangeMember
    <3>2. CASE k \in 1 .. Len(s) /\ u[k] = s[k]
      BY <3>1, <3>2, RangeMember
    <3>3. CASE k - Len(s) \in 1 .. Len(t) /\ u[k] = t[k - Len(s)]
      BY <3>1, <3>3, RangeMember
    <3>4. QED
      BY <3>2, <3>3, <1>3
  <2>2. ASSUME NEW y, y \in Range(s) PROVE y \in Range(u)
    <3>1. PICK k \in 1 .. Len(s) : s[k] = y
      BY <2>2, RangeMember
    <3>2. k \in 1 .. Len(u) /\ u[k] = y
      BY <3>1, <1>1, <1>2
    <3>3. QED
      BY <3>2, <1>1, <1>2, RangeMember
  <2>3. ASSUME NEW y, y \in Range(t) PROVE y \in Range(u)
    <3>1. PICK k \in 1 .. Len(t) : t[k] = y
      BY <2>3, RangeMember
    <3>2. Len(s) + k \in 1 .. Len(u) /\ u[Len(s) + k] = y
      BY <3>1, <1>1, <1>2
    <3>3. QED
      BY <3>2, <1>1, <1>2, RangeMember
  <2>4. QED
    BY <2>1, <2>2, <2>3
<1>5. ASSUME IsInjective(s), IsInjective(t), Range(s) \cap Range(t) = {},
             NEW k \in 1 .. Len(u), NEW l \in 1 .. Len(u), u[k] = u[l]
      PROVE  k = l
  <2>1. ASSUME NEW i \in 1 .. Len(s), NEW j \in 1 .. Len(t) PROVE s[i] # t[j]
    <3>1. s[i] \in Range(s) /\ t[j] \in Range(t)
      BY RangeMember
    <3>2. QED
      BY <3>1, <1>5
  <2>2. (\A i, j \in 1 .. Len(s) : s[i] = s[j] => i = j) /\ (\A i, j \in 1 .. Len(t) : t[i] = t[j] => i = j)
    BY <1>5 DEF IsInjective
  <2>3. CASE k \in 1 .. Len(s) /\ u[k] = s[k]
    <3>1. l \in 1 .. Len(s) /\ u[l] = s[l]
      BY <2>1, <2>3, <1>3, <1>5
    <3>2. QED
      BY <2>2, <2>3, <3>1, <1>5
  <2>4. CASE k - Len(s) \in 1 .. Len(t) /\ u[k] = t[k - Len(s)]
    <3>1. l - Len(s) \in 1 .. Len(t) /\ u[l] = t[l - Len(s)]
      BY <2>1, <2>4, <1>3, <1>5
    <3>2. k - Len(s) = l - Len(s)
      BY <2>2, <2>4, <3>1, <1>5
    <3>3. QED
      BY <3>2, <1>1, <1>2
  <2>5. QED
    BY <2>3, <2>4, <1>3
<1>6. DOMAIN u = 1 .. Len(u)
  BY <1>1, <1>2
<1>7. Range(u) = Range(s) \cup Range(t)
  BY <1>4
<1>8. QED
  BY <1>2, <1>5, <1>6, <1>7 DEF IsInjective

\* The recursion of NewKeys, up to n messages of the batch.
TakesNew(new, batch, n) ==
    new = [k \in 0 .. n |->
              IF k = 0 THEN <<>>
              ELSE IF batch[k] \in Range(emails) \cup Range(new[k - 1]) THEN new[k - 1]
              ELSE Append(new[k - 1], batch[k])]

LEMMA TakesNewAt ==
  ASSUME NEW new, NEW batch, NEW n \in Nat, TakesNew(new, batch, n)
  PROVE  /\ new[0] = <<>>
         /\ \A k \in 1 .. n :
               new[k] = IF batch[k] \in Range(emails) \cup Range(new[k - 1]) THEN new[k - 1]
                        ELSE Append(new[k - 1], batch[k])
<1>1. PICK g : g = [k \in 0 .. n |->
              IF k = 0 THEN <<>>
              ELSE IF batch[k] \in Range(emails) \cup Range(new[k - 1]) THEN new[k - 1]
              ELSE Append(new[k - 1], batch[k])]
  OBVIOUS
<1>2. new = g
  BY <1>1 DEF TakesNew
<1>3. g[0] = <<>> /\ \A k \in 1 .. n :
               g[k] = IF batch[k] \in Range(emails) \cup Range(new[k - 1]) THEN new[k - 1]
                        ELSE Append(new[k - 1], batch[k])
  BY <1>1
<1>4. QED
  BY <1>2, <1>3

LEMMA NewKeysDefined ==
  ASSUME NEW batch, NEW n \in Nat PROVE \E new : TakesNew(new, batch, n)
<1> DEFINE good == {m \in 0 .. n : \E new : TakesNew(new, batch, m)}
<1>1. 0 \in good
  <2>1. PICK new : new = [k \in 0 .. 0 |-> <<>>]
    OBVIOUS
  <2>2. TakesNew(new, batch, 0)
    BY <2>1 DEF TakesNew
  <2>3. QED
    BY <2>2
<1>2. ASSUME NEW m \in 0 .. n - 1, m \in good PROVE m + 1 \in good
  <2>1. PICK old : TakesNew(old, batch, m)
    BY <1>2
  <2>2. PICK last : last = IF batch[m + 1] \in Range(emails) \cup Range(old[m]) THEN old[m]
                           ELSE Append(old[m], batch[m + 1])
    OBVIOUS
  <2>3. PICK new : new = [k \in 0 .. m + 1 |-> IF k = m + 1 THEN last ELSE old[k]]
    OBVIOUS
  <2>4. \A k \in 0 .. m : new[k] = old[k]
    BY <2>3
  <2>5. ASSUME NEW k \in 0 .. m + 1
        PROVE  new[k] = IF k = 0 THEN <<>>
                        ELSE IF batch[k] \in Range(emails) \cup Range(new[k - 1]) THEN new[k - 1]
                        ELSE Append(new[k - 1], batch[k])
    <3>1. CASE k = 0
      <4>1. new[k] = old[0]
        BY <3>1, <2>4
      <4>2. QED
        BY <3>1, <4>1, <2>1, TakesNewAt
    <3>2. CASE k \in 1 .. m
      <4>1. new[k] = old[k] /\ new[k - 1] = old[k - 1]
        BY <3>2, <2>4
      <4>2. QED
        BY <3>2, <4>1, <2>1, TakesNewAt
    <3>3. CASE k = m + 1
      <4>1. new[k] = last /\ k - 1 = m /\ new[m] = old[m]
        BY <3>3, <2>3, <2>4
      <4>2. QED
        BY <3>3, <4>1, <2>2
    <3>4. QED
      BY <3>1, <3>2, <3>3
  <2>6. TakesNew(new, batch, m + 1)
    <3>1. DOMAIN new = 0 .. m + 1 /\ new = [k \in 0 .. m + 1 |-> new[k]]
      BY <2>3
    <3>2. QED
      BY <2>5, <3>1, Zenon DEF TakesNew
  <2>7. m + 1 \in 0 .. n
    OBVIOUS
  <2>8. QED
    BY <2>6, <2>7
<1>3. n \in good
  <2> HIDE DEF good
  <2>1. QED
    BY <1>1, <1>2, NumberInduction
<1>4. QED
  BY <1>3

\* NewKeys: the keys of the batch that are not stored yet, each once.
LEMMA NewKeysShape ==
  ASSUME NEW batch \in Seq(Keys), emails \in Seq(Keys)
  PROVE  /\ NewKeys(batch) \in Seq(Keys) /\ IsInjective(NewKeys(batch))
         /\ Len(NewKeys(batch)) <= Len(batch)
         /\ Range(NewKeys(batch)) \cap Range(emails) = {}
         /\ Range(batch) \subseteq Range(emails) \cup Range(NewKeys(batch))
<1> DEFINE n == Len(batch)
<1>1. PICK new : TakesNew(new, batch, n) /\ NewKeys(batch) = new[n]
  <2>1. \E new : TakesNew(new, batch, n)
    <3>1. n \in Nat
      OBVIOUS
    <3>2. QED
      BY <3>1, NewKeysDefined, Zenon
  <2>2. TakesNew(CHOOSE new : TakesNew(new, batch, n), batch, n)
    BY <2>1, Zenon
  <2>3. NewKeys(batch) = (CHOOSE new : TakesNew(new, batch, n))[n]
    BY Zenon DEF NewKeys, TakesNew
  <2>4. QED
    BY <2>2, <2>3
<1> DEFINE Fine(k) ==
             /\ new[k] \in Seq(Keys) /\ IsInjective(new[k]) /\ Len(new[k]) <= k
             /\ Range(new[k]) \cap Range(emails) = {}
             /\ \A j \in 1 .. k : batch[j] \in Range(emails) \cup Range(new[k])
           good == {k \in 0 .. n : Fine(k)}
<1>2. 0 \in good
  <2>1. new[0] = <<>>
    BY <1>1, TakesNewAt
  <2>2. <<>> \in Seq(Keys) /\ IsInjective(<<>>) /\ Range(<<>>) = {} /\ Len(<<>>) = 0
    BY DEF IsInjective, Range
  <2>3. Fine(0)
    BY <2>1, <2>2
  <2>4. QED
    BY <2>3
<1>3. ASSUME NEW k \in 0 .. n - 1, k \in good PROVE k + 1 \in good
  <2>1. k + 1 \in 1 .. n /\ k + 1 \in 0 .. n /\ (k + 1) - 1 = k /\ batch[k + 1] \in Keys
    OBVIOUS
  <2>2. new[k + 1] = IF batch[k + 1] \in Range(emails) \cup Range(new[k]) THEN new[k]
                     ELSE Append(new[k], batch[k + 1])
    BY <1>1, <2>1, TakesNewAt
  <2>3. Fine(k)
    BY <1>3
  <2>4. CASE batch[k + 1] \in Range(emails) \cup Range(new[k])
    <3>1. new[k + 1] = new[k] /\ Len(new[k]) <= k + 1
      BY <2>2, <2>3, <2>4
    <3>2. \A j \in 1 .. k + 1 : j \in 1 .. k \/ j = k + 1
      OBVIOUS
    <3>3. Fine(k + 1)
      BY <3>1, <3>2, <2>3, <2>4
    <3>4. QED
      BY <3>3, <2>1
  <2>5. CASE batch[k + 1] \notin Range(emails) \cup Range(new[k])
    <3>1. PICK t : t = Append(new[k], batch[k + 1])
      OBVIOUS
    <3>2. /\ Range(t) = Range(new[k]) \cup {batch[k + 1]} /\ IsInjective(t)
      BY <3>1, <2>1, <2>3, <2>5, RangeOfAppend
    <3>3. t \in Seq(Keys) /\ Len(t) <= k + 1
      BY <3>1, <2>1, <2>3
    <3>4. new[k + 1] = t
      BY <3>1, <2>2, <2>5
    <3>5. \A j \in 1 .. k + 1 : j \in 1 .. k \/ j = k + 1
      OBVIOUS
    <3>6. Fine(k + 1)
      BY <3>2, <3>3, <3>4, <3>5, <2>3, <2>5
    <3>7. QED
      BY <3>6, <2>1
  <2>6. QED
    BY <2>4, <2>5
<1>4. n \in good
  <2> HIDE DEF good
  <2>1. QED
    BY <1>2, <1>3, NumberInduction
<1>5. Fine(n)
  BY <1>4
<1>6. Range(batch) \subseteq Range(emails) \cup Range(new[n])
  BY <1>5, RangeMember
<1>7. QED
  BY <1>1, <1>5, <1>6

LEMMA SharesAt ==
  ASSUME NEW h, SumsShares(h), NEW s \in SUBSET MailImporters
  PROVE  h[s] = IF s = {} THEN 0
                ELSE LET p == CHOOSE p \in s : TRUE IN Share(mailImporters[p]) + h[s \ {p}]
<1>1. PICK k : k = [t \in SUBSET MailImporters |->
                      IF t = {} THEN 0
                      ELSE LET p == CHOOSE p \in t : TRUE IN Share(mailImporters[p]) + h[t \ {p}]]
  OBVIOUS
<1>2. h = k
  BY <1>1, Zenon DEF SumsShares, Share
<1>3. k[s] = IF s = {} THEN 0
             ELSE LET p == CHOOSE p \in s : TRUE IN Share(mailImporters[p]) + h[s \ {p}]
  BY <1>1, Zenon
<1>4. QED
  BY <1>2, <1>3, Zenon

\* The sum that ImportedBy takes is the only one there is.
LEMMA SharesUnique ==
  ASSUME NEW f, SumsShares(f), NEW g, SumsShares(g)
  PROVE  f[MailImporters] = g[MailImporters]
<1> DEFINE good == {s \in SUBSET MailImporters : f[s] = g[s]}
           V(p) == Share(mailImporters[p])
<1>2. ASSUME NEW s \in SUBSET MailImporters, \A t \in SUBSET s : t # s => t \in good
      PROVE  s \in good
  <2>1. CASE s = {}
    BY <2>1, SharesAt
  <2>2. CASE s # {}
    <3>1. PICK p \in s : p = CHOOSE q \in s : TRUE
      BY <2>2, Zenon
    <3>2. f[s] = V(p) + f[s \ {p}] /\ g[s] = V(p) + g[s \ {p}]
      BY SharesAt, <2>2, <3>1, Zenon
    <3>3. s \ {p} \in SUBSET s /\ s \ {p} # s
      BY <3>1
    <3>4. f[s \ {p}] = g[s \ {p}]
      BY <3>3, <1>2
    <3>5. QED
      BY <3>2, <3>4
  <2>3. QED
    BY <2>1, <2>2
<1>3. MailImporters \in good
  <2> HIDE DEF good
  <2>1. \A s \in SUBSET MailImporters : (\A t \in SUBSET s : t # s => t \in good) => s \in good
    BY <1>2, Zenon
  <2>2. QED
    BY <2>1, MailAssumption, SubsetInduction, Zenon
<1>4. QED
  BY <1>3

LEMMA ImportedCounted == SharesStored => ImportedBy(MailImporters) <= Len(emails)
<1> SUFFICES ASSUME SharesStored PROVE ImportedBy(MailImporters) <= Len(emails)
  OBVIOUS
<1>1. PICK f \in [SUBSET MailImporters -> Int] : SumsShares(f) /\ f[MailImporters] <= Len(emails)
  BY DEF SharesStored
<1>2. PICK g : g = CHOOSE sum : SumsShares(sum)
  OBVIOUS
<1>3. SumsShares(g)
  BY <1>1, <1>2, Zenon
<1>4. ImportedBy(MailImporters) = g[MailImporters]
  BY <1>2, Zenon DEF ImportedBy, SumsShares
<1>5. QED
  BY <1>1, <1>3, <1>4, SharesUnique

LEMMA ShareType ==
  ASSUME NEW i \in MailImporterType
  PROVE  /\ Share(i) \in Nat /\ i.imported \in Nat /\ i.skipped \in Nat /\ i.totals \in MailTotals
         /\ i.totals.imported \in Nat /\ i.totals.skipped \in Nat /\ i.totals.failed \in Nat
         /\ i.at \in Nat /\ i.pending \in Seq(Keys) /\ i.file \in Mboxes
<1>1. /\ i.imported \in Nat /\ i.skipped \in Nat /\ i.totals \in MailTotals
      /\ i.at \in Nat /\ i.pending \in Seq(Keys) /\ i.file \in Mboxes
  BY DEF MailImporterType
<1>2. i.totals.imported \in Nat /\ i.totals.skipped \in Nat /\ i.totals.failed \in Nat
  BY <1>1 DEF MailTotals
<1>3. QED
  BY <1>1, <1>2 DEF Share

\* One import's share changes, and the stored rows change with it or are more.
LEMMA SharesMove ==
  ASSUME SharesStored, mailImporters \in [MailImporters -> MailImporterType],
         emails \in Seq(Keys), emails' \in Seq(Keys),
         NEW p \in MailImporters, NEW next \in MailImporterType,
         mailImporters' = [mailImporters EXCEPT ![p] = next],
         Len(emails') >= Len(emails) + Share(next) - Share(mailImporters[p]),
         Len(emails') >= Len(emails)
  PROVE  SharesStored'
<1>1. PICK f \in [SUBSET MailImporters -> Int] : SumsShares(f) /\ f[MailImporters] <= Len(emails)
  BY DEF SharesStored
<1>2. \A i \in MailImporterType : Share(i) \in Nat
  BY ShareType
<1>3. PICK d \in Int : d = Share(next) - Share(mailImporters[p])
  BY <1>2
<1>4. PICK g : g = [s \in SUBSET MailImporters |-> IF p \in s THEN f[s] + d ELSE f[s]]
  OBVIOUS
<1>5. g \in [SUBSET MailImporters -> Int]
  <2>1. ASSUME NEW s \in SUBSET MailImporters PROVE (IF p \in s THEN f[s] + d ELSE f[s]) \in Int
    <3>1. f[s] \in Int
      BY <1>1
    <3>2. QED
      BY <3>1, <1>3
  <2>2. QED
    BY <2>1, <1>4
<1>6. \A q \in MailImporters : /\ Share(mailImporters[q]) \in Nat
                               /\ q # p => Share(mailImporters[q])' = Share(mailImporters[q])
                               /\ q = p => Share(mailImporters[q])' = Share(mailImporters[q]) + d
  BY <1>2, <1>3 DEF Share
<1>7. ASSUME NEW s \in SUBSET MailImporters
      PROVE  g[s] = IF s = {} THEN 0
                    ELSE LET q == CHOOSE q \in s : TRUE
                         IN mailImporters'[q].imported + mailImporters'[q].totals.imported + g[s \ {q}]
  <2>1. CASE s = {}
    BY <2>1, <1>1, <1>4, SharesAt
  <2>2. CASE s # {}
    <3>1. PICK q \in s : q = CHOOSE r \in s : TRUE
      BY <2>2, Zenon
    <3>2. f[s] = Share(mailImporters[q]) + f[s \ {q}]
      BY <1>1, <2>2, <3>1, SharesAt, Zenon
    <3>3. f[s \ {q}] \in Int /\ f[s] \in Int /\ s \ {q} \in SUBSET MailImporters /\ q \in MailImporters
      BY <1>1
    <3>4. g[s] = Share(mailImporters[q])' + g[s \ {q}]
      <4>1. CASE q = p
        <5>1. g[s] = f[s] + d /\ g[s \ {q}] = f[s \ {q}]
          BY <4>1, <3>1, <3>3, <1>4
        <5>2. Share(mailImporters[q])' = Share(mailImporters[q]) + d /\ Share(mailImporters[q]) \in Nat
          BY <4>1, <3>3, <1>6
        <5>3. PICK rest \in Int : rest = f[s \ {q}]
          BY <3>3
        <5>4. f[s] = Share(mailImporters[q]) + rest /\ g[s \ {q}] = rest
          BY <5>1, <5>3, <3>2
        <5>5. g[s] = (Share(mailImporters[q]) + rest) + d
          BY <5>1, <5>4
        <5>6. QED
          BY <5>2, <5>3, <5>4, <5>5, <1>3, SMTT(60)
      <4>2. CASE q # p /\ p \in s
        <5>1. g[s] = f[s] + d /\ g[s \ {q}] = f[s \ {q}] + d
          BY <4>2, <3>1, <3>3, <1>4
        <5>2. Share(mailImporters[q])' = Share(mailImporters[q]) /\ Share(mailImporters[q]) \in Nat
          BY <4>2, <3>3, <1>6
        <5>3. QED
          BY <5>1, <5>2, <3>2, <3>3, <1>3, SMTT(60)
      <4>3. CASE p \notin s
        <5>1. g[s] = f[s] /\ g[s \ {q}] = f[s \ {q}] /\ q # p
          BY <4>3, <3>1, <3>3, <1>4
        <5>2. QED
          BY <4>3, <5>1, <3>2, <3>3, <1>3, <1>6
      <4>4. QED
        BY <4>1, <4>2, <4>3
    <3>5. g[s] = mailImporters'[q].imported + mailImporters'[q].totals.imported + g[s \ {q}]
      BY <3>4 DEF Share
    <3>6. QED
      BY <2>2, <3>1, <3>5, Zenon
  <2>3. QED
    BY <2>1, <2>2
<1>8. SumsShares(g)'
  <2>1. g = [s \in SUBSET MailImporters |-> g[s]]
    BY <1>5
  <2>2. QED
    BY <1>7, <2>1, Zenon DEF SumsShares
<1>9. g[MailImporters] <= Len(emails')
  <2>1. g[MailImporters] = f[MailImporters] + d /\ f[MailImporters] \in Int
    BY <1>1, <1>4
  <2>2. Len(emails) \in Nat /\ Len(emails') \in Nat /\ Share(next) \in Nat /\ Share(mailImporters[p]) \in Nat
    BY <1>2
  <2>3. QED
    BY <2>1, <2>2, <1>1, <1>3
<1>10. QED
  BY <1>5, <1>8, <1>9 DEF SharesStored

\* What an import has stored stays stored for the others.
LEMMA MailFitsKept ==
  ASSUME NEW i \in MailImporterType, MailFits(i), Range(emails) \subseteq Range(emails'),
         UNCHANGED directory
  PROVE  MailFits(i)'
<1>1. MailboxRead(i) => MailboxRead(i)'
  BY DEF MailboxRead
<1>2. QED
  BY <1>1 DEF MailFits

LEMMA MailMoves ==
  ASSUME MailInv, NEW p \in MailImporters, NEW next \in MailImporterType,
         mailImporters' = [mailImporters EXCEPT ![p] = next],
         emails' \in Seq(Keys), IsInjective(emails'), Range(emails) \subseteq Range(emails'),
         Len(emails') >= Len(emails),
         Len(emails') >= Len(emails) + Share(next) - Share(mailImporters[p]),
         statuses' \in [Mboxes -> {"none", "running", "completed", "failed", "interrupted"}],
         \A f \in Mboxes : statuses'[f] = "completed" =>
            statuses[f] = "completed" \/ Range(directory[f]) \subseteq Range(emails'),
         MailFits(next)', UNCHANGED <<directory, statusTable>>
  PROVE  MailInv'
<1>1. MailTypes'
  BY DEF MailInv, MailTypes
<1>2. MailCompleted'
  BY DEF MailInv, MailCompleted
<1>3. SharesStored'
  BY SharesMove DEF MailInv, MailTypes
<1>4. ASSUME NEW q \in MailImporters PROVE MailFits(mailImporters[q])'
  <2>1. mailImporters[q] \in MailImporterType /\ MailFits(mailImporters[q])
    BY DEF MailInv, MailTypes
  <2>2. PICK i : i = mailImporters[q]
    OBVIOUS
  <2>3. MailFits(i)'
    BY <2>1, <2>2, MailFitsKept
  <2>4. mailImporters'[q] = IF q = p THEN next ELSE i
    BY <2>2 DEF MailInv, MailTypes
  <2>5. CASE q = p
    <3>1. mailImporters'[q] = next
      BY <2>4, <2>5
    <3>2. QED
      BY <3>1 DEF MailFits, MailboxRead
  <2>6. CASE q # p
    <3>1. mailImporters'[q] = i
      BY <2>4, <2>6
    <3>2. QED
      BY <3>1, <2>3 DEF MailFits, MailboxRead
  <2>7. QED
    BY <2>5, <2>6
<1>5. QED
  BY <1>1, <1>2, <1>3, <1>4 DEF MailInv

\* An import that moves and stores nothing; it may write a status.
LEMMA MailMovesOnly ==
  ASSUME MailInv, NEW p \in MailImporters, NEW next \in MailImporterType,
         mailImporters' = [mailImporters EXCEPT ![p] = next],
         Share(next) <= Share(mailImporters[p]), MailFits(next),
         NEW f \in Mboxes, NEW status \in {"none", "running", "completed", "failed", "interrupted"},
         WriteStatus(f, status) \/ UNCHANGED statuses,
         status = "completed" => Range(directory[f]) \subseteq Range(emails),
         UNCHANGED <<directory, statusTable, emails>>
  PROVE  MailInv'
<1>1. /\ emails \in Seq(Keys) /\ IsInjective(emails) /\ mailImporters[p] \in MailImporterType
      /\ statuses \in [Mboxes -> {"none", "running", "completed", "failed", "interrupted"}]
      /\ directory \in MailDirectories
  BY DEF MailInv, MailTypes
<1>2. statuses' = statuses \/ statuses' = [statuses EXCEPT ![f] = status]
  BY DEF WriteStatus
<1>3. /\ statuses' \in [Mboxes -> {"none", "running", "completed", "failed", "interrupted"}]
      /\ \A g \in Mboxes : statuses'[g] = "completed" =>
            statuses[g] = "completed" \/ Range(directory[g]) \subseteq Range(emails)
  BY <1>1, <1>2
<1>4. MailFits(next)' /\ emails' = emails
  BY MailFitsKept
<1>5. \A i \in MailImporterType : Share(i) \in Nat
  BY ShareType
<1>6. Len(emails) >= Len(emails) + Share(next) - Share(mailImporters[p]) /\ Len(emails) >= Len(emails)
  BY <1>1, <1>5
<1>7. QED
  BY <1>1, <1>3, <1>4, <1>6, MailMoves

LEMMA NotImportingFits ==
  NotImporting \in MailImporterType /\ NotImporting.pc = "idle" /\ MailFits(NotImporting) /\ Share(NotImporting) = 0
<1>1. NoTotals \in MailTotals /\ NoTotals.imported = 0
  BY DEF NoTotals, MailTotals
<1>2. /\ NotImporting \in MailImporterType /\ NotImporting.pc = "idle" /\ NotImporting.imported = 0
      /\ NotImporting.totals = NoTotals /\ NotImporting.pending = <<>>
  BY <1>1 DEF NotImporting, MailImporterType, Mboxes
<1>3. QED
  BY <1>1, <1>2, MailAssumption DEF MailFits, Share

\* An import at the beginning of a file.
LEMMA AtTheStart ==
  ASSUME directory \in MailDirectories, NEW i \in MailImporterType, i.pc = "reading", i.at = 1,
         i.pending = <<>>, i.imported = 0, i.skipped = 0,
         i.totals.failed = 0 =>
            i.totals.imported + i.totals.skipped = IF i.file = 1 THEN 0 ELSE Len(directory[1])
  PROVE  MailFits(i)
<1>1. directory[i.file] \in Seq(Keys)
  BY DirectoryShape, ShareType DEF Mboxes
<1>2. MailboxRead(i)
  <2>1. Len(i.pending) = 0 /\ i.at - 1 - Len(i.pending) = 0 /\ i.at <= Len(directory[i.file]) + 1
    <3>1. Len(i.pending) = 0 /\ Len(directory[i.file]) \in Nat
      BY <1>1
    <3>2. PICK l \in Nat : l = Len(directory[i.file])
      BY <3>1
    <3>3. 1 - 1 - 0 = 0 /\ 1 <= l + 1
      BY <3>2
    <3>4. QED
      BY <3>1, <3>2, <3>3
  <2>2. 1 .. 0 = {} /\ 0 \in Nat /\ i.imported + i.skipped = 0
    OBVIOUS
  <2>3. QED
    BY <2>1, <2>2 DEF MailboxRead
<1>3. QED
  BY <1>2, MailAssumption DEF MailFits

\* The next file takes over the counts.
LEMMA NextMailboxFits ==
  ASSUME directory \in MailDirectories, NEW i \in MailImporterType, MailboxRead(i), NEW failures \in {0, 1},
         failures = 0 => i.pc = "committed"
  PROVE  /\ NextMailbox(i, failures) \in MailImporterType /\ MailFits(NextMailbox(i, failures))
         /\ Share(NextMailbox(i, failures)) = Share(i)
<1> USE ShareType
<1>1. PICK totals : totals = TakenOver(i, failures)
  OBVIOUS
<1>2. /\ totals \in MailTotals /\ totals.imported = i.totals.imported + i.imported
      /\ totals.skipped = i.totals.skipped + i.skipped /\ totals.failed = i.totals.failed + failures
  BY <1>1 DEF TakenOver, MailTotals
<1>3. PICK next : next = NextMailbox(i, failures)
  OBVIOUS
<1>4. Len(directory) = 2 /\ directory[1] \in Seq(Keys) /\ directory[2] \in Seq(Keys) /\ i.file \in {1, 2}
  BY DirectoryShape DEF Mboxes
<1>5. next = [pc |-> IF i.file = 2 THEN "done" ELSE "reading", file |-> IF i.file = 2 THEN 1 ELSE 2,
              at |-> 1, pending |-> <<>>, imported |-> 0, skipped |-> 0, totals |-> totals]
  <2>1. CASE i.file = 1
    <3>1. i.file + 1 = 2 /\ i.file # Len(directory)
      BY <2>1, <1>4
    <3>2. next = [NotImporting EXCEPT !.pc = "reading", !.file = 2, !.totals = totals]
      BY <3>1, <1>1, <1>3 DEF NextMailbox
    <3>3. next = [pc |-> "reading", file |-> 2, at |-> 1, pending |-> <<>>, imported |-> 0,
                  skipped |-> 0, totals |-> totals]
      BY <3>2 DEF NotImporting
    <3>4. QED
      BY <2>1, <3>3
  <2>2. CASE i.file = 2
    BY <2>2, <1>1, <1>3, <1>4 DEF NextMailbox, NotImporting
  <2>3. QED
    BY <2>1, <2>2, <1>4
<1>6. /\ next \in MailImporterType /\ next.pending = <<>> /\ next.at = 1 /\ next.totals = totals
      /\ next.imported = 0 /\ next.skipped = 0
      /\ i.file = 2 => next.pc = "done"
      /\ i.file = 1 => next.pc = "reading" /\ next.file = 2
  BY <1>2, <1>4, <1>5 DEF MailImporterType, Mboxes
<1>7. Share(next) = Share(i)
  BY <1>2, <1>6 DEF Share
<1>8. ASSUME totals.failed = 0
      PROVE  totals.imported + totals.skipped =
                (IF i.file = 1 THEN 0 ELSE Len(directory[1])) + Len(directory[i.file])
  <2>1. failures = 0 /\ i.totals.failed = 0
    BY <1>2, <1>8
  <2>2. /\ i.pending = <<>> /\ i.at = Len(directory[i.file]) + 1
        /\ i.imported + i.skipped = i.at - 1 - Len(i.pending)
        /\ i.totals.imported + i.totals.skipped = IF i.file = 1 THEN 0 ELSE Len(directory[1])
    BY <2>1 DEF MailboxRead
  <2>3. Len(directory[i.file]) \in Nat /\ Len(directory[1]) \in Nat
    BY <1>4
  <2>4. i.imported + i.skipped = Len(directory[i.file])
    BY <2>2, <2>3
  <2>5. totals.imported + totals.skipped =
            (i.totals.imported + i.totals.skipped) + (i.imported + i.skipped)
    BY <1>2
  <2>6. QED
    BY <2>2, <2>4, <2>5
<1>9. MailFits(next)
  <2>1. CASE i.file = 1
    <3>1. totals.failed = 0 => totals.imported + totals.skipped = Len(directory[1])
      <4>1. Len(directory[1]) \in Nat /\ 0 + Len(directory[1]) = Len(directory[1])
        BY <1>4
      <4>2. QED
        BY <2>1, <1>8, <4>1
    <3>2. QED
      BY <2>1, <3>1, <1>6, AtTheStart
  <2>2. CASE i.file = 2
    <3>1. ASSUME totals.failed = 0
          PROVE  totals.imported + totals.skipped = Len(directory[1]) + Len(directory[2])
      <4>1. directory[i.file] = directory[2] /\ i.file # 1
        BY <2>2
      <4>2. QED
        BY <3>1, <4>1, <1>8
    <3>2. next.pc = "done" /\ Len(next.pending) = 0 /\ MailBatch \in Nat
      BY <2>2, <1>6, MailAssumption
    <3>3. Len(next.pending) <= MailBatch
      BY <3>2
    <3>4. QED
      BY <3>1, <3>2, <3>3, <1>6 DEF MailFits
  <2>3. QED
    BY <2>1, <2>2, <1>4
<1>10. QED
  BY <1>3, <1>6, <1>7, <1>9

LEMMA MailHolds ==
  ASSUME MailInv, NEW p \in MailImporters
  PROVE  /\ mailImporters[p] \in MailImporterType /\ MailFits(mailImporters[p])
         /\ mailImporters \in [MailImporters -> MailImporterType]
         /\ directory \in MailDirectories /\ emails \in Seq(Keys) /\ IsInjective(emails)
         /\ mailImporters[p].file \in Mboxes /\ directory[mailImporters[p].file] \in Seq(Keys)
<1>1. /\ mailImporters[p] \in MailImporterType /\ MailFits(mailImporters[p])
      /\ mailImporters \in [MailImporters -> MailImporterType]
      /\ directory \in MailDirectories /\ emails \in Seq(Keys) /\ IsInjective(emails)
  BY DEF MailInv, MailTypes
<1>2. mailImporters[p].file \in Mboxes
  BY <1>1, ShareType
<1>3. QED
  BY <1>1, <1>2, DirectoryShape DEF Mboxes

LEMMA MailInitInv == MailInit => MailInv
<1> SUFFICES ASSUME MailInit PROVE MailInv
  OBVIOUS
<1>1. MailTypes
  BY NotImportingFits DEF MailInit, MailTypes, IsInjective
<1>2. MailCompleted
  BY DEF MailInit, MailCompleted
<1>3. \A p \in MailImporters : mailImporters[p] = NotImporting /\ MailFits(mailImporters[p])
  BY NotImportingFits DEF MailInit
<1>4. SharesStored
  <2>1. PICK f : f = [s \in SUBSET MailImporters |-> 0]
    OBVIOUS
  <2>2. ASSUME NEW s \in SUBSET MailImporters
        PROVE  f[s] = IF s = {} THEN 0
                      ELSE LET p == CHOOSE p \in s : TRUE
                           IN mailImporters[p].imported + mailImporters[p].totals.imported + f[s \ {p}]
    <3>1. CASE s = {}
      BY <3>1, <2>1
    <3>2. CASE s # {}
      <4>1. PICK q \in s : q = CHOOSE r \in s : TRUE
        BY <3>2, Zenon
      <4>2. mailImporters[q].imported = 0 /\ mailImporters[q].totals.imported = 0
        BY <1>3 DEF NotImporting, NoTotals
      <4>3. f[s] = 0 /\ f[s \ {q}] = 0
        BY <2>1
      <4>4. f[s] = mailImporters[q].imported + mailImporters[q].totals.imported + f[s \ {q}]
        BY <4>2, <4>3
      <4>5. QED
        BY <3>2, <4>1, <4>4, Zenon
    <3>3. QED
      BY <3>1, <3>2
  <2>3. f = [s \in SUBSET MailImporters |-> f[s]]
    BY <2>1
  <2>4. SumsShares(f)
    BY <2>2, <2>3, Zenon DEF SumsShares
  <2>5. f \in [SUBSET MailImporters -> Int] /\ f[MailImporters] <= Len(emails)
    BY <2>1 DEF MailInit
  <2>6. QED
    BY <2>4, <2>5 DEF SharesStored
<1>5. QED
  BY <1>1, <1>2, <1>3, <1>4 DEF MailInv

LEMMA MailStarts ==
  ASSUME MailInv, NEW p \in MailImporters, StartMailImport(p) PROVE MailInv'
<1>1. PICK next : next = [NotImporting EXCEPT !.pc = "reading"]
  OBVIOUS
<1>2. NoTotals \in MailTotals /\ NoTotals.imported = 0 /\ NoTotals.skipped = 0
  BY DEF NoTotals, MailTotals
<1>3. /\ next \in MailImporterType /\ next.pc = "reading" /\ next.at = 1 /\ next.file = 1
      /\ next.pending = <<>> /\ next.imported = 0 /\ next.skipped = 0 /\ next.totals = NoTotals
  <2>1. next = [pc |-> "reading", file |-> 1, at |-> 1, pending |-> <<>>, imported |-> 0,
                skipped |-> 0, totals |-> NoTotals]
    BY <1>1 DEF NotImporting
  <2>2. QED
    BY <1>2, <2>1 DEF MailImporterType, Mboxes
<1>4. MailFits(next)
  BY <1>2, <1>3, AtTheStart, MailHolds
<1>5. Share(next) <= Share(mailImporters[p])
  BY <1>2, <1>3, ShareType, MailHolds DEF Share
<1>6. 1 \in Mboxes /\ mailImporters' = [mailImporters EXCEPT ![p] = next]
      /\ UNCHANGED <<directory, statusTable, emails, statuses>>
  BY <1>1 DEF StartMailImport, Mboxes
<1>7. QED
  BY <1>3, <1>4, <1>5, <1>6, MailMovesOnly

LEMMA MessageParsed ==
  ASSUME MailInv, NEW p \in MailImporters, ParseMessage(p) PROVE MailInv'
<1> DEFINE i == mailImporters[p]
           box == directory[i.file]
           before == i.at - 1 - Len(i.pending)
<1>0. i.pc = "reading" /\ i.at <= Len(box) /\ Len(i.pending) < MailBatch
  BY MailHolds, ShareType DEF ParseMessage, AtEnd
<1>1. i \in MailImporterType /\ MailFits(i) /\ box \in Seq(Keys) /\ MailboxRead(i)
  BY <1>0, MailHolds DEF MailFits
<1>2. i.at \in Nat /\ i.pending \in Seq(Keys) /\ before \in Nat /\ Len(i.pending) \in Nat
  BY <1>1, ShareType DEF MailboxRead
<1>3. i.at >= 1 /\ box[i.at] \in Keys
  BY <1>0, <1>1, <1>2
<1>4. PICK batch : batch = Append(i.pending, box[i.at])
  OBVIOUS
<1>5. /\ batch \in Seq(Keys) /\ Len(batch) = Len(i.pending) + 1 /\ batch[Len(i.pending) + 1] = box[i.at]
      /\ \A k \in 1 .. Len(i.pending) : batch[k] = i.pending[k]
  BY <1>2, <1>3, <1>4
<1>6. PICK next : next = [i EXCEPT !.at = i.at + 1, !.pending = batch]
  OBVIOUS
<1>7. /\ next \in MailImporterType /\ next.pc = "reading" /\ next.at = i.at + 1 /\ next.file = i.file
      /\ next.pending = batch /\ next.imported = i.imported /\ next.skipped = i.skipped
      /\ next.totals = i.totals
  <2>1. i.at + 1 \in Nat
    BY <1>2
  <2>2. QED
    BY <2>1, <1>0, <1>1, <1>5, <1>6 DEF MailImporterType
<1>8. next.at - 1 - Len(next.pending) = before
  <2>1. PICK a \in Nat, l \in Nat : a = i.at /\ l = Len(i.pending)
    BY <1>2
  <2>2. (a + 1) - 1 - (l + 1) = a - 1 - l
    OBVIOUS
  <2>3. QED
    BY <2>1, <2>2, <1>5, <1>7
<1>9. ASSUME NEW k \in 1 .. Len(batch) PROVE batch[k] = box[before + k]
  <2>1. CASE k \in 1 .. Len(i.pending)
    BY <2>1, <1>1, <1>5 DEF MailboxRead
  <2>2. CASE k = Len(i.pending) + 1
    <3>1. before + k = i.at
      BY <2>2, <1>2, SMTT(60)
    <3>2. QED
      BY <2>2, <3>1, <1>5
  <2>3. QED
    BY <2>1, <2>2, <1>2, <1>5
<1>10. MailboxRead(next)
  <2>1. next.at <= Len(box) + 1
    BY <1>0, <1>1, <1>2, <1>7
  <2>2. QED
    BY <2>1, <1>1, <1>2, <1>7, <1>8, <1>9 DEF MailboxRead
<1>11. MailFits(next)
  <2>1. Len(next.pending) <= MailBatch
    BY <1>0, <1>2, <1>5, <1>7, MailAssumption
  <2>2. QED
    BY <2>1, <1>7, <1>10 DEF MailFits
<1>12. Share(next) = Share(i) /\ Share(i) \in Nat
  BY <1>1, <1>7, ShareType DEF Share
<1>13. mailImporters' = [mailImporters EXCEPT ![p] = next]
       /\ UNCHANGED <<directory, statusTable, emails, statuses>>
  BY <1>4, <1>6, MailHolds DEF ParseMessage
<1>14. 1 \in Mboxes /\ Share(next) <= Share(mailImporters[p])
  BY <1>12 DEF Mboxes
<1>15. QED
  BY <1>7, <1>11, <1>13, <1>14, MailMovesOnly

LEMMA MailboxDone ==
  ASSUME MailInv, NEW p \in MailImporters, NEW failures \in {0, 1}, NEW status \in {"none", "failed"},
         mailImporters[p].pc \in {"reading", "committed"},
         failures = 0 => mailImporters[p].pc = "committed",
         WriteStatus(mailImporters[p].file, status) \/ UNCHANGED statuses,
         mailImporters' = [mailImporters EXCEPT ![p] = NextMailbox(mailImporters[p], failures)],
         UNCHANGED <<directory, statusTable, emails>>
  PROVE  MailInv'
<1>1. mailImporters[p] \in MailImporterType /\ MailboxRead(mailImporters[p]) /\ directory \in MailDirectories
      /\ mailImporters[p].file \in Mboxes
  BY MailHolds DEF MailFits
<1>2. PICK next : next = NextMailbox(mailImporters[p], failures)
  OBVIOUS
<1>3. next \in MailImporterType /\ MailFits(next) /\ Share(next) = Share(mailImporters[p])
  BY <1>1, <1>2, NextMailboxFits
<1>4. Share(next) <= Share(mailImporters[p])
  BY <1>1, <1>3, ShareType
<1>5. QED
  BY <1>1, <1>2, <1>3, <1>4, MailMovesOnly

LEMMA MailAbandoned ==
  ASSUME MailInv, NEW p \in MailImporters, NEW status \in {"none", "interrupted"},
         WriteStatus(mailImporters[p].file, status) \/ UNCHANGED statuses,
         mailImporters' = [mailImporters EXCEPT ![p] = NotImporting],
         UNCHANGED <<directory, statusTable, emails>>
  PROVE  MailInv'
<1>1. Share(NotImporting) <= Share(mailImporters[p])
  BY NotImportingFits, ShareType, MailHolds
<1>2. QED
  BY <1>1, NotImportingFits, MailHolds, MailMovesOnly

LEMMA EmptyDone ==
  ASSUME MailInv, NEW p \in MailImporters, EmptyMailbox(p) PROVE MailInv'
<1> DEFINE i == mailImporters[p]
<1>0. i.pc = "reading" /\ directory[i.file] = <<>> /\ WriteStatus(i.file, "completed")
      /\ UNCHANGED <<directory, statusTable, emails>>
  BY DEF EmptyMailbox
<1>1. i \in MailImporterType /\ MailFits(i) /\ MailboxRead(i) /\ i.file \in Mboxes
  BY <1>0, MailHolds DEF MailFits
<1>2. PICK next : next = [i EXCEPT !.pc = "committed"]
  OBVIOUS
<1>3. /\ next \in MailImporterType /\ next.pc = "committed" /\ next.at = i.at /\ next.file = i.file
      /\ next.pending = i.pending /\ next.imported = i.imported /\ next.skipped = i.skipped
      /\ next.totals = i.totals
  BY <1>1, <1>2 DEF MailImporterType
<1>4. i.at \in Nat /\ i.pending \in Seq(Keys) /\ Len(i.pending) \in Nat /\ i.at <= 1
      /\ i.at - 1 - Len(i.pending) \in Nat
  BY <1>0, <1>1, ShareType DEF MailboxRead
<1>5. i.at = 1 /\ Len(i.pending) = 0
  BY <1>4
<1>6. i.pending = <<>> /\ i.at = Len(directory[i.file]) + 1
  BY <1>0, <1>4, <1>5
<1>7. MailFits(next)
  BY <1>1, <1>3, <1>6 DEF MailFits, MailboxRead
<1>8. Range(directory[i.file]) \subseteq Range(emails)
  BY <1>0 DEF Range
<1>9. Share(next) <= Share(i)
  BY <1>1, <1>3, ShareType DEF Share
<1>10. mailImporters' = [mailImporters EXCEPT ![p] = next]
  BY <1>2, MailHolds DEF EmptyMailbox
<1>11. QED
  BY <1>0, <1>1, <1>3, <1>7, <1>8, <1>9, <1>10, MailMovesOnly

LEMMA BatchCommitted ==
  ASSUME MailInv, NEW p \in MailImporters, CommitPending(p) PROVE MailInv'
<1> DEFINE i == mailImporters[p]
           box == directory[i.file]
           batch == i.pending
           before == i.at - 1 - Len(batch)
<1>0. i.pc = "reading" /\ WriteStatus(i.file, BatchStatus(i)) /\ UNCHANGED <<directory, statusTable>>
  BY DEF CommitPending
<1>1. /\ i \in MailImporterType /\ MailFits(i) /\ box \in Seq(Keys) /\ MailboxRead(i)
      /\ i.file \in Mboxes /\ emails \in Seq(Keys) /\ IsInjective(emails)
  BY <1>0, MailHolds DEF MailFits
<1>2. /\ i.at \in Nat /\ batch \in Seq(Keys) /\ before \in Nat /\ Len(batch) \in Nat
      /\ i.imported \in Nat /\ i.skipped \in Nat /\ i.at <= Len(box) + 1 /\ Len(box) \in Nat
  BY <1>1, ShareType, SMTT(60) DEF MailboxRead
<1>3. PICK new : new = NewKeys(batch)
  OBVIOUS
<1>4. /\ new \in Seq(Keys) /\ IsInjective(new) /\ Len(new) <= Len(batch) /\ Len(new) \in Nat
      /\ Range(new) \cap Range(emails) = {}
      /\ Range(batch) \subseteq Range(emails) \cup Range(new)
  <2>1. /\ new \in Seq(Keys) /\ IsInjective(new) /\ Len(new) <= Len(batch)
        /\ Range(new) \cap Range(emails) = {}
        /\ Range(batch) \subseteq Range(emails) \cup Range(new)
    BY <1>1, <1>2, <1>3, NewKeysShape, Zenon
  <2>2. QED
    BY <2>1
<1>5. /\ emails' \in Seq(Keys) /\ IsInjective(emails') /\ Len(emails') = Len(emails) + Len(new)
      /\ Range(emails') = Range(emails) \cup Range(new)
  <2>1. emails' = emails \o new
    BY <1>3 DEF CommitPending
  <2>2. Range(emails) \cap Range(new) = {}
    BY <1>4
  <2>3. Range(emails \o new) = Range(emails) \cup Range(new) /\ IsInjective(emails \o new)
    BY <1>1, <1>4, <2>2, RangeOfConcat
  <2>4. QED
    BY <1>1, <1>4, <2>1, <2>3
<1>20. /\ i.imported + Len(new) \in Nat /\ i.skipped + Len(batch) - Len(new) \in Nat
       /\ (i.imported + Len(new)) + (i.skipped + Len(batch) - Len(new)) = i.at - 1
       /\ (i.imported + Len(new)) + i.totals.imported = (i.imported + i.totals.imported) + Len(new)
       /\ \A k \in 1 .. i.at - 1 : k \notin 1 .. before =>
             k - before \in 1 .. Len(batch) /\ before + (k - before) = k
  <2>1. i.totals.imported \in Nat /\ i.imported + i.skipped = before
    BY <1>1, ShareType DEF MailboxRead
  <2>2. QED
    <3>1. /\ i.at \in Nat /\ Len(batch) \in Nat /\ Len(new) \in Nat /\ i.imported \in Nat
          /\ i.skipped \in Nat /\ i.at - 1 - Len(batch) \in Nat /\ Len(new) <= Len(batch)
          /\ i.imported + i.skipped = i.at - 1 - Len(batch)
      BY <1>2, <1>4, <2>1
    <3>2. PICK at, l, n, im, sk, t :
             /\ at = i.at /\ l = Len(batch) /\ n = Len(new) /\ im = i.imported /\ sk = i.skipped
             /\ t = i.totals.imported
      BY Zenon
    <3>3. /\ im + n \in Nat /\ sk + l - n \in Nat /\ (im + n) + (sk + l - n) = at - 1
          /\ (im + n) + t = (im + t) + n
          /\ \A k \in 1 .. at - 1 : k \notin 1 .. (at - 1 - l) =>
                k - (at - 1 - l) \in 1 .. l /\ (at - 1 - l) + (k - (at - 1 - l)) = k
      <4>1. /\ at \in Nat /\ l \in Nat /\ n \in Nat /\ im \in Nat /\ sk \in Nat /\ t \in Nat /\ n <= l
            /\ at - 1 - l \in Nat /\ im + sk = at - 1 - l
        BY <2>1, <3>1, <3>2, Zenon
      <4>2. QED
        BY <4>1
    <3>4. QED
      BY <3>2, <3>3, Zenon
<1>6. PICK next : next = [i EXCEPT !.pc = IF AtEnd(i) THEN "committed" ELSE i.pc, !.pending = <<>>,
                          !.imported = i.imported + Len(new),
                          !.skipped = i.skipped + Len(batch) - Len(new)]
  OBVIOUS
<1>7. /\ next \in MailImporterType /\ next.at = i.at /\ next.file = i.file /\ next.pending = <<>>
      /\ next.pc = IF AtEnd(i) THEN "committed" ELSE "reading"
      /\ next.imported = i.imported + Len(new) /\ next.skipped = i.skipped + Len(batch) - Len(new)
      /\ next.totals = i.totals
  <2>1. i.imported + Len(new) \in Nat /\ i.skipped + Len(batch) - Len(new) \in Nat
    BY <1>20
  <2>2. i.pc = "reading" /\ <<>> \in Seq(Keys)
    BY <1>0
  <2>3. QED
    BY <2>1, <2>2, <1>1, <1>6 DEF MailImporterType
<1>8. mailImporters' = [mailImporters EXCEPT ![p] = next]
  BY <1>3, <1>6 DEF CommitPending
<1>9. ASSUME NEW k \in 1 .. i.at - 1 PROVE box[k] \in Range(emails')
  <2>1. CASE k \in 1 .. before
    BY <2>1, <1>1, <1>5 DEF MailboxRead
  <2>2. CASE k \notin 1 .. before
    <3>1. k - before \in 1 .. Len(batch) /\ before + (k - before) = k
      BY <2>2, <1>20, Zenon
    <3>2. batch[k - before] = box[k]
      BY <3>1, <1>1 DEF MailboxRead
    <3>3. box[k] \in Range(batch)
      BY <3>1, <3>2, <1>2, RangeMember
    <3>4. QED
      BY <3>3, <1>4, <1>5
  <2>3. QED
    BY <2>1, <2>2
<1>10. MailboxRead(next)'
  <2>1. Len(next.pending) = 0 /\ next.at - 1 - Len(next.pending) = i.at - 1 /\ i.at - 1 \in Nat
    <3>1. Len(next.pending) = 0
      BY <1>7
    <3>2. i.at - 1 \in Nat /\ i.at - 1 - 0 = i.at - 1
      BY <1>2
    <3>3. QED
      BY <3>1, <3>2, <1>7
  <2>2. next.imported + next.skipped = i.at - 1
    BY <1>7, <1>20, Zenon
  <2>3. next.pc = "committed" => next.at = Len(box) + 1
    BY <1>2, <1>7, SMTT(60) DEF AtEnd
  <2>4. next.totals.failed = 0 =>
            next.totals.imported + next.totals.skipped = IF i.file = 1 THEN 0 ELSE Len(directory[1])
    BY <1>1, <1>7 DEF MailboxRead
  <2>5. directory' = directory /\ next.file = i.file /\ 1 .. 0 = {} /\ next.at <= Len(box) + 1
    BY <1>0, <1>2, <1>7
  <2>6. QED
    BY <2>1, <2>2, <2>3, <2>4, <2>5, <1>7, <1>9 DEF MailboxRead
<1>11. MailFits(next)'
  <2>1. Len(next.pending) <= MailBatch /\ next.pc # "done"
    BY <1>7, MailAssumption
  <2>2. QED
    BY <2>1, <1>10 DEF MailFits
<1>12. Share(next) = Share(i) + Len(new) /\ Share(i) \in Nat
  <2>1. Share(next) = Share(i) + Len(new)
    BY <1>7, <1>20, Zenon DEF Share
  <2>2. QED
    BY <2>1, <1>1, ShareType
<1>13. AtEnd(i) => Range(box) \subseteq Range(emails')
  <2>1. ASSUME AtEnd(i), NEW x \in Range(box) PROVE x \in Range(emails')
    <3>1. PICK k \in 1 .. Len(box) : box[k] = x
      BY <1>1, RangeMember
    <3>2. k \in 1 .. i.at - 1
      BY <2>1, <1>2 DEF AtEnd
    <3>3. QED
      BY <3>1, <3>2, <1>9
  <2>2. QED
    BY <2>1
<1>14. /\ statuses' \in [Mboxes -> {"none", "running", "completed", "failed", "interrupted"}]
       /\ \A f \in Mboxes : statuses'[f] = "completed" =>
             statuses[f] = "completed" \/ Range(directory[f]) \subseteq Range(emails')
  <2>1. statuses \in [Mboxes -> {"none", "running", "completed", "failed", "interrupted"}]
    BY DEF MailInv, MailTypes
  <2>2. BatchStatus(i) \in {"running", "completed"} /\ (BatchStatus(i) = "completed" => AtEnd(i))
    BY DEF BatchStatus
  <2>3. statuses' = statuses \/ statuses' = [statuses EXCEPT ![i.file] = BatchStatus(i)]
    BY <1>0 DEF WriteStatus
  <2>4. QED
    BY <2>1, <2>2, <2>3, <1>1, <1>13
<1>15. /\ Len(emails') >= Len(emails) /\ Len(emails') >= Len(emails) + Share(next) - Share(mailImporters[p])
       /\ Range(emails) \subseteq Range(emails')
  <2>1. Len(emails) \in Nat
    BY <1>1
  <2>2. QED
    BY <2>1, <1>4, <1>5, <1>12
<1>16. QED
  BY <1>0, <1>5, <1>7, <1>8, <1>11, <1>14, <1>15, MailMoves

LEMMA MailRests ==
  ASSUME MailInv, UNCHANGED <<directory, emails, statuses, mailImporters>>, statusTable' \in BOOLEAN
  PROVE  MailInv'
<1>1. MailTypes' /\ MailCompleted'
  BY DEF MailInv, MailTypes, MailCompleted
<1>2. \A p \in MailImporters : MailFits(mailImporters[p])'
  BY DEF MailInv, MailFits, MailboxRead
<1>3. SharesStored'
  BY DEF MailInv, SharesStored, SumsShares
<1>4. QED
  BY <1>1, <1>2, <1>3 DEF MailInv

LEMMA MailStep == MailInv /\ [MailNext]_mailVars => MailInv'
<1> SUFFICES ASSUME MailInv, [MailNext]_mailVars PROVE MailInv'
  OBVIOUS
<1>1. ASSUME NEW p \in MailImporters, FinishMailbox(p) PROVE MailInv'
  BY <1>1, MailboxDone DEF FinishMailbox
<1>2. ASSUME NEW p \in MailImporters, FailMailbox(p) PROVE MailInv'
  <2>1. /\ mailImporters[p].pc \in {"reading", "committed"} /\ UNCHANGED <<directory, statusTable, emails>>
        /\ (WriteStatus(mailImporters[p].file, "failed") \/ UNCHANGED statuses)
        /\ mailImporters' = [mailImporters EXCEPT ![p] = NextMailbox(mailImporters[p], 1)]
    BY <1>2 DEF FailMailbox
  <2>2. PICK one \in {0, 1}, status \in {"none", "failed"} : one = 1 /\ status = "failed"
    OBVIOUS
  <2>3. /\ mailImporters' = [mailImporters EXCEPT ![p] = NextMailbox(mailImporters[p], one)]
        /\ one # 0
        /\ (WriteStatus(mailImporters[p].file, status) \/ UNCHANGED statuses)
    BY <2>1, <2>2
  <2>4. one = 0 => mailImporters[p].pc = "committed"
    BY <2>3
  <2>5. QED
    BY <2>1, <2>3, <2>4, MailboxDone, Zenon
<1>3. ASSUME NEW p \in MailImporters, InterruptImport(p) PROVE MailInv'
  BY <1>3, MailAbandoned DEF InterruptImport
<1>4. ASSUME NEW p \in MailImporters, KillMailImport(p) PROVE MailInv'
  BY <1>4, MailAbandoned DEF KillMailImport
<1>5. CASE InitialiseMail
  BY <1>5, MailRests DEF InitialiseMail
<1>6. CASE UNCHANGED mailVars
  BY <1>6, MailRests DEF mailVars, MailInv, MailTypes
<1>7. QED
  BY <1>1, <1>2, <1>3, <1>4, <1>5, <1>6, MailStarts, MessageParsed, BatchCommitted, EmptyDone, Zenon
  DEF MailNext

\* What the invariant says to a reader of the store.
LEMMA MailPromises == MailInv => MailTypeOK /\ MailCompleted /\ MailCountsAgree
<1> SUFFICES ASSUME MailInv PROVE MailTypeOK /\ MailCompleted /\ MailCountsAgree
  OBVIOUS
<1>1. Range(emails) \subseteq Keys /\ Cardinality(Range(emails)) = Len(emails)
  <2>1. emails \in Seq(Keys) /\ IsInjective(emails)
    BY DEF MailInv, MailTypes
  <2>2. emails \in Bijection(1 .. Len(emails), Range(emails))
    BY <2>1 DEF IsInjective, Range, Bijection, Injection, Surjection
  <2>3. Cardinality(Range(emails)) = Len(emails)
    <3>1. Len(emails) \in Nat
      BY <2>1
    <3>2. QED
      BY <2>2, <3>1, FS_CountingElements DEF ExistsBijection
  <2>4. QED
    BY <2>1, <2>3 DEF Range
<1>2. MailTypeOK
  BY <1>1 DEF MailInv, MailTypes, MailTypeOK, MailFits
<1>3. ImportedBy(MailImporters) <= Len(emails)
  BY ImportedCounted DEF MailInv
<1>4. MailCountsAgree
  BY <1>3 DEF MailInv, MailFits, MailCountsAgree
<1>5. QED
  BY <1>2, <1>4 DEF MailInv

MailSpec == MailInit /\ [][MailNext]_mailVars

\* In every state of the email store a file that is "completed" is stored and the counts
\* of the imports are those of the rows (import_mbox, import_mbox_directory).
THEOREM MailStands == MailSpec => [](MailTypeOK /\ MailCompleted /\ MailCountsAgree)
<1>1. QED
  BY MailInitInv, MailStep, MailPromises, PTL DEF MailSpec

(***************************************************************************)
(* The discovery of local files.  Between two steps a walk stands at one   *)
(* of few places of the tree.  What lies behind a call's place is found by *)
(* the call or in the catalogue, what lies behind a saved cursor is in the *)
(* catalogue, and the exclusions behind either are counted.                *)
(***************************************************************************)
InRoot(next) == [root |-> 1, frames |-> <<[dir |-> "r", next |-> next, stamp |-> 0]>>]
InChild(next, stamp) ==
    [root |-> 1, frames |-> <<[dir |-> "r", next |-> 2, stamp |-> 0],
                              [dir |-> "d", next |-> next, stamp |-> stamp]>>]
AtRoot(root) == [root |-> root, frames |-> <<>>]

\* The second entry of the directory "d" is next only where "b" was the first.
ChildFits(next, stamp) ==
    /\ AllowDirectory("d") /\ stamp <= tree.stamp["d"]
    /\ next = 1 => tree.odd["d"] # "unreadable" /\ (stamp = tree.stamp["d"] => "b" \in tree.present)

Standing(t) ==
    \/ t \in {AtRoot(1), AtRoot(2), AtRoot(3), InRoot(1), InRoot(2)}
    \/ \E next \in {0, 1}, stamp \in Nat : t = InChild(next, stamp) /\ ChildFits(next, stamp)

\* The files a walk has gone past, and the exclusions it met on its way.
Behind(t) ==
    IF t = AtRoot(1) THEN {}
    ELSE IF t = AtRoot(3) THEN Files
    ELSE IF t \in {InRoot(2), AtRoot(2)} THEN {"a", "b", "c"}
    ELSE IF \E stamp \in Nat : t = InChild(1, stamp) THEN {"a", "b"}
    ELSE {"a"}

ChildExcluded == ~AllowDirectory("d") \/ tree.odd["d"] = "unreadable"
Owed == IF ChildExcluded \/ Candidate("c") = "none" THEN 1 ELSE 0
OwedAt(t) == IF t \in {InRoot(2), AtRoot(2), AtRoot(3)} THEN Owed ELSE 0

\* A file that is to have its row: in place all the time, and admissible.
Due(n) == n \notin touched /\ n \in tree.present /\ AdmissibleFile(n)
Catalogued(n) == catalogue[Target(n)] # "absent"

TreeFits ==
    /\ tree = [odd |-> tree.odd, present |-> tree.present, stamp |-> tree.stamp]
    /\ tree.odd \in OddTrees
    /\ tree.present \in {Nodes, Nodes \ {"b"}}
    /\ tree.stamp \in [Directories -> Nat]
    /\ tree.stamp["r"] = 0 /\ tree.stamp["s"] = 0
    /\ settings \in Configurations

WalkType == [root : Nat, frames : Seq([dir : Directories, next : Nat, stamp : Nat])]
CallType == [pc : {"idle", "walking", "upserting", "counting", "saving", "returning"},
             walk : WalkType,
             found : SUBSET Files, excluded : Nat, durable : Nat]
JobType == [checkpoint : Nat, lease : Calls \cup {NoCall}, status : {"open", "done", "failed"},
            attempts : Nat]

DiscoveryTypes ==
    /\ catalogue \in [Files -> {"absent", "discovered", "unsupported"}]
    /\ discovery = [begun |-> discovery.begun, complete |-> discovery.complete,
                    excluded |-> discovery.excluded, cursors |-> discovery.cursors]
    /\ discovery.complete \in BOOLEAN /\ discovery.excluded \in Nat
    /\ job \in JobType
    /\ calls \in [Calls -> CallType]
    /\ repeated \in BOOLEAN

Tallied(call) == IF call.pc \in {"walking", "upserting", "counting"} THEN call.excluded ELSE 0

\* A call stands at a place, holds only admissible files, and has found or stored what is
\* behind it; a call that has written is at the end or has a full batch.
CallFits(call) ==
    /\ Standing(call.walk)
    /\ \A n \in call.found : AdmissibleFile(n)
    /\ \A n \in Behind(call.walk) :
          Due(n) => Catalogued(n) \/ (call.pc \in {"walking", "upserting"} /\ n \in call.found)
    /\ call.pc \in {"upserting", "counting", "saving", "returning"} =>
          TraversalComplete(call.walk) \/ call.found # {}
    /\ call.pc = "returning" =>
          IF TraversalComplete(call.walk) THEN discovery.complete
          ELSE call.durable + Cardinality(call.found) \in DOMAIN discovery.cursors
    /\ discovery.excluded + Tallied(call) >= OwedAt(call.walk)

CursorFits(t) ==
    /\ Standing(t)
    /\ \A n \in Behind(t) : Due(n) => Catalogued(n)
    /\ discovery.excluded >= OwedAt(t)

Resumed == IF job.checkpoint = NoCursor THEN Start ELSE discovery.cursors[job.checkpoint]

\* Without a repetition only the holder of the lease is under way, and nothing is counted twice.
CountedOnce ==
    /\ \A c \in Calls : calls[c].pc # "idle" =>
          /\ job.lease = c
          /\ IF discovery.complete THEN calls[c].pc = "returning" /\ TraversalComplete(calls[c].walk)
             ELSE /\ discovery.excluded + Tallied(calls[c]) = OwedAt(calls[c].walk)
                  /\ calls[c].pc = "returning" =>
                        discovery.cursors[calls[c].durable + Cardinality(calls[c].found)] = calls[c].walk
    /\ discovery.complete => discovery.excluded = Owed
    /\ job.lease = NoCall /\ job.status = "open" =>
          ~discovery.complete /\ discovery.excluded = OwedAt(Resumed)

DiscoveryInv ==
    /\ TreeFits
    /\ DiscoveryTypes
    /\ \A c \in Calls : CallFits(calls[c])
    /\ \A p \in DOMAIN discovery.cursors : CursorFits(discovery.cursors[p])
    /\ job.checkpoint # NoCursor => job.checkpoint \in DOMAIN discovery.cursors
    /\ \A x \in Files : catalogue[x] # "absent" => AdmissibleFile(x)
    /\ discovery.complete =>
          /\ \A n \in Files : Due(n) => Catalogued(n)
          /\ discovery.excluded >= Owed
    /\ ~repeated => CountedOnce

LEMMA TreeShape ==
  ASSUME TreeFits
  PROVE  /\ tree.odd \in [Nodes -> FileOddities \cup DirectoryOddities]
         /\ \A n \in Nodes \ {"c", "d"} : tree.odd[n] = "plain"
         /\ tree.odd["c"] = "plain" \/ tree.odd["d"] = "plain"
         /\ tree.odd["c"] \in FileOddities /\ tree.odd["d"] \in DirectoryOddities
  BY DEF TreeFits, OddTrees, Nodes, Directories, Layout, Files, FileOddities, DirectoryOddities

Lists(listed, d) ==
    listed = [i \in 0 .. Len(Layout[d]) |->
                IF i = 0 THEN <<>>
                ELSE IF Layout[d][i] \in tree.present THEN Append(listed[i - 1], Layout[d][i])
                ELSE listed[i - 1]]

LEMMA EntriesDefined ==
  ASSUME NEW d, NEW listed, Lists(listed, d)
  PROVE  \E all : Lists(all, d) /\ Entries(d) = all[Len(Layout[d])]
<1>1. PICK all : all = CHOOSE f : f = [i \in 0 .. Len(Layout[d]) |->
                IF i = 0 THEN <<>>
                ELSE IF Layout[d][i] \in tree.present THEN Append(f[i - 1], Layout[d][i])
                ELSE f[i - 1]]
  OBVIOUS
<1>2. Lists(all, d)
  BY <1>1, Zenon DEF Lists
<1>3. Entries(d) = all[Len(Layout[d])]
  BY <1>1, Zenon DEF Entries
<1>4. QED
  BY <1>2, <1>3

LEMMA SmallAppends ==
  ASSUME NEW x, NEW y PROVE Append(<<>>, x) = <<x>> /\ Append(<<x>>, y) = <<x, y>>
<1>1. Append(<<>>, x) = <<x>>
  OBVIOUS
<1>2. Append(<<x>>, y) = <<x, y>>
  <2>1. PICK one, two : one = Append(<<x>>, y) /\ two = <<x, y>>
    OBVIOUS
  <2>2. one \in Seq({x, y}) /\ Len(one) = 2 /\ one[1] = x /\ one[2] = y
    BY <2>1
  <2>3. two \in Seq({x, y}) /\ Len(two) = 2 /\ two[1] = x /\ two[2] = y
    BY <2>1
  <2>4. one = two
    BY <2>2, <2>3
  <2>5. QED
    BY <2>1, <2>4
<1>3. QED
  BY <1>1, <1>2

LEMMA ListsNext ==
  ASSUME NEW d, NEW listed, Lists(listed, d), NEW i \in 1 .. Len(Layout[d]), NEW before, before = i - 1
  PROVE  listed[i] = IF Layout[d][i] \in tree.present THEN Append(listed[before], Layout[d][i])
                     ELSE listed[before]
<1>1. i \in 0 .. Len(Layout[d]) /\ i # 0
  OBVIOUS
<1>2. QED
  BY <1>1, Zenon DEF Lists

LEMMA ListsAt ==
  ASSUME NEW d, NEW listed, Lists(listed, d), NEW i \in 0 .. Len(Layout[d])
  PROVE  listed[i] = IF i = 0 THEN <<>>
                ELSE IF Layout[d][i] \in tree.present THEN Append(listed[i - 1], Layout[d][i])
                ELSE listed[i - 1]
  BY Zenon DEF Lists

\* os.scandir lists everything but a missing "b".
LEMMA EntriesListed ==
  ASSUME TreeFits
  PROVE  /\ Entries("r") = <<"a", "d">> /\ Entries("s") = <<"z">>
         /\ Entries("d") = IF "b" \in tree.present THEN <<"b", "c">> ELSE <<"c">>
<1>1. /\ {"a", "c", "d", "z"} \subseteq tree.present
      /\ Layout["r"] = <<"a", "d">> /\ Layout["d"] = <<"b", "c">> /\ Layout["s"] = <<"z">>
  BY DEF TreeFits, Layout, Nodes, Files, Directories
<1>2. ASSUME NEW d, NEW x, NEW y, Layout[d] = <<x, y>>, y \in tree.present
      PROVE  Entries(d) = IF x \in tree.present THEN <<x, y>> ELSE <<y>>
  <2>1. PICK first, both : first = (IF x \in tree.present THEN <<x>> ELSE <<>>)
                           /\ both = (IF x \in tree.present THEN <<x, y>> ELSE <<y>>)
    OBVIOUS
  <2>2. PICK witness : witness = [i \in 0 .. 2 |-> IF i = 0 THEN <<>> ELSE IF i = 1 THEN first ELSE both]
    OBVIOUS
  <2>3. Len(Layout[d]) = 2 /\ Layout[d][1] = x /\ Layout[d][2] = y
    BY <1>2
  <2>4. \A i \in 0 .. 2 : witness[i] = IF i = 0 THEN <<>>
                ELSE IF Layout[d][i] \in tree.present THEN Append(witness[i - 1], Layout[d][i])
                ELSE witness[i - 1]
    <3>1. witness[0] = <<>> /\ witness[1] = first /\ witness[2] = both
      BY <2>2
    <3>2. (x \in tree.present => Append(<<>>, x) = first) /\ Append(first, y) = both
      <4>1. CASE x \in tree.present
        BY <2>1, <4>1, SmallAppends, Zenon
      <4>2. CASE x \notin tree.present
        BY <2>1, <4>2, SmallAppends, Zenon
      <4>3. QED
        BY <4>1, <4>2
    <3>3. ASSUME NEW i \in 0 .. 2 PROVE i = 0 \/ (i = 1 /\ i - 1 = 0) \/ (i = 2 /\ i - 1 = 1)
      OBVIOUS
    <3>4. x \notin tree.present => first = <<>>
      BY <2>1
    <3>5. QED
      BY <3>1, <3>2, <3>3, <3>4, <2>3, <1>2, Zenon
  <2>5. Lists(witness, d)
    <3>1. DOMAIN witness = 0 .. 2 /\ witness = [i \in 0 .. 2 |-> witness[i]]
      BY <2>2
    <3>2. QED
      BY <2>3, <2>4, <3>1, Zenon DEF Lists
  <2>6. PICK all : Lists(all, d) /\ Entries(d) = all[2]
    BY <2>5, <2>3, EntriesDefined
  <2>7. all[0] = <<>>
    BY <2>6, <2>3, ListsAt
  <2>8. all[1] = first
    <3>1. 1 \in 1 .. Len(Layout[d]) /\ 0 = 1 - 1
      BY <2>3
    <3>2. all[1] = IF x \in tree.present THEN Append(all[0], x) ELSE all[0]
      <4>1. all[1] = IF Layout[d][1] \in tree.present THEN Append(all[0], Layout[d][1]) ELSE all[0]
        BY <2>6, <3>1, ListsNext
      <4>2. QED
        BY <4>1, <2>3, Zenon
    <3>3. QED
      BY <3>2, <2>7, <2>1
  <2>9. all[2] = both
    <3>1. 2 \in 1 .. Len(Layout[d]) /\ 1 = 2 - 1
      BY <2>3
    <3>2. all[2] = Append(all[1], y)
      <4>1. all[2] = IF Layout[d][2] \in tree.present THEN Append(all[1], Layout[d][2]) ELSE all[1]
        BY <2>6, <3>1, ListsNext
      <4>2. QED
        BY <4>1, <2>3, <1>2, Zenon
    <3>3. CASE x \in tree.present
      BY <3>2, <3>3, <2>8, <2>1, SmallAppends, Zenon
    <3>4. CASE x \notin tree.present
      BY <3>2, <3>4, <2>8, <2>1, SmallAppends, Zenon
    <3>5. QED
      BY <3>3, <3>4
  <2>10. QED
    BY <2>6, <2>9, <2>1
<1>3. ASSUME NEW d, NEW x, Layout[d] = <<x>>, x \in tree.present PROVE Entries(d) = <<x>>
  <2>2. PICK witness : witness = [i \in 0 .. 1 |-> IF i = 0 THEN <<>> ELSE <<x>>]
    OBVIOUS
  <2>3. Len(Layout[d]) = 1 /\ Layout[d][1] = x
    BY <1>3
  <2>4. \A i \in 0 .. 1 : witness[i] = IF i = 0 THEN <<>>
                ELSE IF Layout[d][i] \in tree.present THEN Append(witness[i - 1], Layout[d][i])
                ELSE witness[i - 1]
    <3>1. witness[0] = <<>> /\ witness[1] = <<x>> /\ Append(<<>>, x) = <<x>>
      BY <2>2
    <3>3. ASSUME NEW i \in 0 .. 1 PROVE i = 0 \/ (i = 1 /\ i - 1 = 0)
      OBVIOUS
    <3>5. QED
      BY <3>1, <3>3, <2>3, <1>3, Zenon
  <2>5. Lists(witness, d)
    <3>1. DOMAIN witness = 0 .. 1 /\ witness = [i \in 0 .. 1 |-> witness[i]]
      BY <2>2
    <3>2. QED
      BY <2>3, <2>4, <3>1, Zenon DEF Lists
  <2>6. PICK all : Lists(all, d) /\ Entries(d) = all[1]
    BY <2>5, <2>3, EntriesDefined
  <2>7. all[0] = <<>>
    BY <2>6, <2>3, ListsAt
  <2>8. all[1] = <<x>>
    <3>1. 1 \in 1 .. Len(Layout[d]) /\ 0 = 1 - 1
      BY <2>3
    <3>2. all[1] = Append(all[0], x)
      <4>1. all[1] = IF Layout[d][1] \in tree.present THEN Append(all[0], Layout[d][1]) ELSE all[0]
        BY <2>6, <3>1, ListsNext
      <4>2. QED
        BY <4>1, <2>3, <1>3, Zenon
    <3>3. QED
      BY <3>2, <2>7
  <2>10. QED
    BY <2>6, <2>8
<1>4. QED
  BY <1>1, <1>2, <1>3

LEMMA TreeNames ==
  /\ Directories = {"r", "d", "s"}
  /\ Parent("a") = "r" /\ Parent("d") = "r" /\ Parent("b") = "d" /\ Parent("c") = "d" /\ Parent("z") = "s"
  /\ IsRoot("r") /\ IsRoot("s") /\ ~IsRoot("d")
<1>1. Directories = {"r", "d", "s"}
  BY DEF Directories, Layout
<1>2. Layout["r"] = <<"a", "d">> /\ Layout["d"] = <<"b", "c">> /\ Layout["s"] = <<"z">>
  BY DEF Layout
<1>3. \A n : /\ (\E i \in DOMAIN Layout["r"] : Layout["r"][i] = n) <=> n \in {"a", "d"}
             /\ (\E i \in DOMAIN Layout["d"] : Layout["d"][i] = n) <=> n \in {"b", "c"}
             /\ (\E i \in DOMAIN Layout["s"] : Layout["s"][i] = n) <=> n = "z"
  BY <1>2
<1>4. ASSUME NEW n, NEW d \in Directories,
             \A e \in Directories : (\E i \in DOMAIN Layout[e] : Layout[e][i] = n) <=> e = d
      PROVE  Parent(n) = d
  BY <1>4 DEF Parent
<1>5. Parent("a") = "r" /\ Parent("d") = "r" /\ Parent("b") = "d" /\ Parent("c") = "d" /\ Parent("z") = "s"
  BY <1>1, <1>3, <1>4
<1>6. IsRoot("r") /\ IsRoot("s") /\ ~IsRoot("d")
  BY DEF IsRoot, Roots
<1>7. QED
  BY <1>1, <1>5, <1>6

\* Which files are admissible: "a" and "z" always, "b" and "c" where the directory is.
LEMMA Admissions ==
  ASSUME TreeFits
  PROVE  /\ \A n \in {"a", "b", "z"} : Candidate(n) = "discovered" /\ Target(n) = n
         /\ Candidate("c") \in {"none", "unsupported", "discovered"}
         /\ Target("c") \in {"a", "c"}
         /\ AdmissibleFile("a") /\ AdmissibleFile("z")
         /\ AdmissibleFile("b") <=> ~ChildExcluded
         /\ AdmissibleFile("c") <=> ~ChildExcluded /\ Candidate("c") # "none"
<1>1. \A n \in {"a", "b", "z", "r", "s"} : tree.odd[n] = "plain"
  BY TreeShape, TreeNames DEF Nodes, Files
<1>2. \A n \in {"a", "b", "z"} : Candidate(n) = "discovered" /\ Target(n) = n
  BY <1>1 DEF Candidate, ValidPath, Target
<1>3. Candidate("c") \in {"none", "unsupported", "discovered"} /\ Target("c") \in {"a", "c"}
  BY DEF Candidate, Target
<1>4. Visited("a") /\ Visited("z") /\ (Visited("b") <=> ~ChildExcluded) /\ (Visited("c") <=> ~ChildExcluded)
  BY <1>1, TreeNames DEF Visited, ChildExcluded
<1>5. QED
  BY <1>2, <1>3, <1>4 DEF AdmissibleFile

LEMMA OwedExclusions == ASSUME TreeFits PROVE Excluded = Owed
<1> DEFINE files == {n \in tree.present \cap Files : Visited(n) /\ Candidate(n) = "none"}
           directories == {d \in Directories : \/ tree.odd[d] = "unreadable"
                                               \/ ~IsRoot(d) /\ ~AllowDirectory(d)}
<1>1. directories = IF ChildExcluded THEN {"d"} ELSE {}
  <2>1. tree.odd["r"] = "plain" /\ tree.odd["s"] = "plain"
    BY TreeShape, TreeNames DEF Nodes, Files
  <2>2. QED
    BY <2>1, TreeNames DEF ChildExcluded
<1>2. files = IF ~ChildExcluded /\ Candidate("c") = "none" THEN {"c"} ELSE {}
  <2>1. "c" \in tree.present
    BY DEF TreeFits, Nodes, Files, Directories, Layout
  <2>2. Visited("c") <=> ~ChildExcluded
    BY TreeNames DEF Visited, ChildExcluded
  <2>3. QED
    BY <2>1, <2>2, Admissions DEF Files
<1>3. Cardinality(directories) = IF ChildExcluded THEN 1 ELSE 0
  <2> HIDE DEF directories
  <2> QED
    BY <1>1, FS_EmptySet, FS_Singleton
<1>4. Cardinality(files) = IF ~ChildExcluded /\ Candidate("c") = "none" THEN 1 ELSE 0
  <2> HIDE DEF files
  <2> QED
    BY <1>2, FS_EmptySet, FS_Singleton
<1>5. QED
  BY <1>3, <1>4 DEF Excluded, Owed

\* What the operations of DurableTraversal do with the frames.
InOther(next) == [root |-> 2, frames |-> <<[dir |-> "s", next |-> next, stamp |-> 0]>>]

LEMMA FramesAre ==
  ASSUME NEW k \in Nat, NEW stamp \in Nat
  PROVE  /\ InRoot(k).frames # <<>> /\ Len(InRoot(k).frames) = 1
         /\ InRoot(k).frames[1] = [dir |-> "r", next |-> k, stamp |-> 0]
         /\ InOther(k).frames # <<>> /\ Len(InOther(k).frames) = 1
         /\ InOther(k).frames[1] = [dir |-> "s", next |-> k, stamp |-> 0]
         /\ InChild(k, stamp).frames # <<>> /\ Len(InChild(k, stamp).frames) = 2
         /\ InChild(k, stamp).frames[2] = [dir |-> "d", next |-> k, stamp |-> stamp]
         /\ InChild(k, stamp).frames[1] = [dir |-> "r", next |-> 2, stamp |-> 0]
  BY DEF InRoot, InOther, InChild

LEMMA RootEntered ==
  ASSUME TreeFits, NEW k \in Nat, NEW stamp \in Nat
  PROVE  /\ Entered(AtRoot(1)) = InRoot(0) /\ Entered(AtRoot(2)) = InOther(0)
         /\ Entered(InRoot(k)) = InRoot(k) /\ Entered(InChild(k, stamp)) = InChild(k, stamp)
<1>1. Frame("r") = [dir |-> "r", next |-> 0, stamp |-> 0] /\ Frame("s") = [dir |-> "s", next |-> 0, stamp |-> 0]
  BY DEF Frame, TreeFits
<1>2. Entered(AtRoot(1)) = InRoot(0) /\ Entered(AtRoot(2)) = InOther(0)
  BY <1>1 DEF Entered, AtRoot, InRoot, InOther, Roots
<1>3. QED
  BY <1>2, FramesAre DEF Entered

LEMMA OnTop ==
  ASSUME NEW root, NEW f, NEW g
  PROVE  /\ Pop([root |-> root, frames |-> <<f>>]) = [root |-> root + 1, frames |-> <<>>]
         /\ Pop([root |-> root, frames |-> <<f, g>>]) = [root |-> root, frames |-> <<f>>]
         /\ SkipCurrent([root |-> root, frames |-> <<f, g>>]) = [root |-> root, frames |-> <<f>>]
<1>1. SubSeq(<<f>>, 1, 0) = <<>>
  OBVIOUS
<1>2. SubSeq(<<f, g>>, 1, 1) = <<f>>
  <2>1. PICK one, two : one = SubSeq(<<f, g>>, 1, 1) /\ two = <<f>>
    OBVIOUS
  <2>2. one \in Seq({f, g}) /\ Len(one) = 1 /\ one[1] = f
    BY <2>1
  <2>3. two \in Seq({f, g}) /\ Len(two) = 1 /\ two[1] = f
    BY <2>1
  <2>4. one = two
    BY <2>2, <2>3
  <2>5. QED
    BY <2>1, <2>4
<1>3. <<f>> # <<>> /\ Len(<<f>>) - 1 = 0 /\ Len(<<f, g>>) - 1 = 1
  OBVIOUS
<1>4. Pop([root |-> root, frames |-> <<f>>]) = [root |-> root + 1, frames |-> <<>>]
  BY <1>1, <1>3 DEF Pop
<1>5. Pop([root |-> root, frames |-> <<f, g>>]) = [root |-> root, frames |-> <<f>>]
  BY <1>2, <1>3 DEF Pop
<1>6. SkipCurrent([root |-> root, frames |-> <<f, g>>]) = [root |-> root, frames |-> <<f>>]
  BY <1>2, <1>3 DEF SkipCurrent
<1>7. QED
  BY <1>4, <1>5, <1>6

LEMMA Popped ==
  ASSUME NEW k, NEW stamp
  PROVE  /\ Pop(InRoot(k)) = AtRoot(2) /\ Pop(InOther(k)) = AtRoot(3)
         /\ Pop(InChild(k, stamp)) = InRoot(2) /\ SkipCurrent(InChild(k, stamp)) = InRoot(2)
<1>1. 1 + 1 = 2 /\ 2 + 1 = 3
  OBVIOUS
<1>2. QED
  BY <1>1, OnTop, Zenon DEF InRoot, InOther, InChild, AtRoot

LEMMA TakenNext ==
  ASSUME NEW k \in Nat, NEW stamp
  PROVE  /\ Advanced(InRoot(k)) = InRoot(k + 1) /\ Advanced(InOther(k)) = InOther(k + 1)
         /\ Advanced(InChild(k, stamp)) = InChild(k + 1, stamp)
<1>1. ASSUME NEW root, NEW dir, NEW st
      PROVE  Advanced([root |-> root, frames |-> <<[dir |-> dir, next |-> k, stamp |-> st]>>])
             = [root |-> root, frames |-> <<[dir |-> dir, next |-> k + 1, stamp |-> st]>>]
  <2>1. PICK f, g : f = [dir |-> dir, next |-> k, stamp |-> st] /\ g = [dir |-> dir, next |-> k + 1, stamp |-> st]
    OBVIOUS
  <2>2. [f EXCEPT !.next = f.next + 1] = g
    BY <2>1
  <2>3. [<<f>> EXCEPT ![Len(<<f>>)] = g] = <<g>> /\ <<f>>[Len(<<f>>)] = f
    OBVIOUS
  <2>4. QED
    BY <2>1, <2>2, <2>3 DEF Advanced
<1>2. Advanced(InChild(k, stamp)) = InChild(k + 1, stamp)
  <2>1. PICK e, f, g : /\ f = [dir |-> "d", next |-> k, stamp |-> stamp]
                       /\ g = [dir |-> "d", next |-> k + 1, stamp |-> stamp]
                       /\ e = [dir |-> "r", next |-> 2, stamp |-> 0]
    OBVIOUS
  <2>2. [f EXCEPT !.next = f.next + 1] = g
    BY <2>1
  <2>3. [<<e, f>> EXCEPT ![Len(<<e, f>>)] = g] = <<e, g>> /\ <<e, f>>[Len(<<e, f>>)] = f
    OBVIOUS
  <2>4. QED
    BY <2>1, <2>2, <2>3 DEF Advanced, InChild
<1>3. QED
  BY <1>1, <1>2 DEF InRoot, InOther

LEMMA PlacesDiffer ==
  ASSUME NEW stamp \in Nat, NEW st \in Nat
  PROVE  /\ AtRoot(1) # AtRoot(2) /\ AtRoot(1) # AtRoot(3) /\ AtRoot(2) # AtRoot(3)
         /\ InRoot(1) # InRoot(2) /\ InChild(0, stamp) # InChild(1, st)
         /\ \A k, j \in Nat : InRoot(k) # AtRoot(j) /\ InRoot(k) # InChild(j, stamp) /\ AtRoot(k) # InChild(j, stamp)
<1>1. AtRoot(1) # AtRoot(2) /\ AtRoot(1) # AtRoot(3) /\ AtRoot(2) # AtRoot(3)
  BY DEF AtRoot
<1>2. InRoot(1) # InRoot(2)
  <2>1. /\ InRoot(1).frames[1] = [dir |-> "r", next |-> 1, stamp |-> 0]
        /\ InRoot(2).frames[1] = [dir |-> "r", next |-> 2, stamp |-> 0]
    BY FramesAre
  <2>2. [dir |-> "r", next |-> 1, stamp |-> 0] # [dir |-> "r", next |-> 2, stamp |-> 0]
    OBVIOUS
  <2>3. QED
    BY <2>1, <2>2, Zenon
<1>3. InChild(0, stamp) # InChild(1, st)
  <2>1. /\ InChild(0, stamp).frames[2] = [dir |-> "d", next |-> 0, stamp |-> stamp]
        /\ InChild(1, st).frames[2] = [dir |-> "d", next |-> 1, stamp |-> st]
    BY FramesAre
  <2>2. [dir |-> "d", next |-> 0, stamp |-> stamp] # [dir |-> "d", next |-> 1, stamp |-> st]
    OBVIOUS
  <2>3. QED
    BY <2>1, <2>2, Zenon
<1>4. ASSUME NEW k \in Nat, NEW j \in Nat
      PROVE  InRoot(k) # AtRoot(j) /\ InRoot(k) # InChild(j, stamp) /\ AtRoot(k) # InChild(j, stamp)
  <2>1. Len(InRoot(k).frames) = 1 /\ Len(InChild(j, stamp).frames) = 2
    BY FramesAre
  <2>2. Len(AtRoot(j).frames) = 0 /\ Len(AtRoot(k).frames) = 0
    BY DEF AtRoot
  <2>3. 0 # 1 /\ 0 # 2 /\ 1 # 2
    OBVIOUS
  <2>4. QED
    BY <2>1, <2>2, <2>3, Zenon
<1>5. QED
  BY <1>1, <1>2, <1>3, <1>4

LEMMA BehindPlaces ==
  ASSUME NEW stamp \in Nat
  PROVE  /\ Behind(AtRoot(1)) = {} /\ Behind(InRoot(1)) = {"a"} /\ Behind(InChild(0, stamp)) = {"a"}
         /\ Behind(InChild(1, stamp)) = {"a", "b"} /\ Behind(InRoot(2)) = {"a", "b", "c"}
         /\ Behind(AtRoot(2)) = {"a", "b", "c"} /\ Behind(AtRoot(3)) = Files
<1>1. Behind(AtRoot(1)) = {}
  BY DEF Behind
<1>2. Behind(AtRoot(3)) = Files
  BY PlacesDiffer DEF Behind
<1>3. Behind(InRoot(2)) = {"a", "b", "c"} /\ Behind(AtRoot(2)) = {"a", "b", "c"}
  BY PlacesDiffer DEF Behind
<1>4. Behind(InRoot(1)) = {"a"}
  <2>1. \A st \in Nat : InRoot(1) # InChild(1, st)
    BY PlacesDiffer
  <2>2. InRoot(1) # AtRoot(1) /\ InRoot(1) # AtRoot(2) /\ InRoot(1) # AtRoot(3) /\ InRoot(1) # InRoot(2)
    BY PlacesDiffer
  <2>3. QED
    BY <2>1, <2>2 DEF Behind
<1>5. ASSUME NEW k \in {0, 1}
      PROVE  InChild(k, stamp) \notin {AtRoot(1), AtRoot(2), AtRoot(3), InRoot(2)}
  BY PlacesDiffer
<1>6. Behind(InChild(0, stamp)) = {"a"}
  <2>1. \A st \in Nat : InChild(0, stamp) # InChild(1, st)
    BY PlacesDiffer
  <2>2. QED
    BY <2>1, <1>5 DEF Behind
<1>7. Behind(InChild(1, stamp)) = {"a", "b"}
  BY <1>5 DEF Behind
<1>8. QED
  BY <1>1, <1>2, <1>3, <1>4, <1>6, <1>7

LEMMA OwedPlaces ==
  ASSUME NEW stamp \in Nat
  PROVE  /\ OwedAt(AtRoot(1)) = 0 /\ OwedAt(InRoot(1)) = 0
         /\ OwedAt(InChild(0, stamp)) = 0 /\ OwedAt(InChild(1, stamp)) = 0
         /\ OwedAt(InRoot(2)) = Owed /\ OwedAt(AtRoot(2)) = Owed /\ OwedAt(AtRoot(3)) = Owed
         /\ Owed \in {0, 1}
  BY PlacesDiffer DEF OwedAt, Owed

\* One iteration of next_path takes a call from place to place: what it goes past it has
\* found or it is not to be found, and it counts what is excluded.
Strides(call, next) ==
    /\ next = [call EXCEPT !.walk = next.walk, !.found = next.found, !.excluded = next.excluded]
    /\ Standing(next.walk)
    /\ call.found \subseteq next.found
    /\ \A n \in next.found : n \in call.found \/ (n \in Files /\ AdmissibleFile(n))
    /\ \A n \in Behind(next.walk) :
          n \in Behind(call.walk) \/ n \in next.found \/ n \notin tree.present \/ ~AdmissibleFile(n)
    /\ next.excluded \in Nat
    /\ next.excluded + OwedAt(call.walk) = call.excluded + OwedAt(next.walk)

\* What Walk leaves in the call when the frame on top is valid.
Walked(call) ==
    LET walk == Entered(call.walk)
        top == walk.frames[Len(walk.frames)]
        listed == Entries(top.dir)
    IN IF tree.odd[top.dir] = "unreadable"
       THEN [call EXCEPT !.walk = Pop(walk), !.excluded = @ + 1]
       ELSE IF top.next >= Len(listed)
       THEN [call EXCEPT !.walk = Pop(walk)]
       ELSE IF listed[top.next + 1] \in Directories
       THEN EnterChild([call EXCEPT !.walk = walk], listed[top.next + 1])
       ELSE Collect([call EXCEPT !.walk = walk], listed[top.next + 1])

\* The call with another place, other finds and another count.
At(call, walk, found, excluded) == [call EXCEPT !.walk = walk, !.found = found, !.excluded = excluded]

Top(t) == t.frames[Len(t.frames)]

LEMMA StrideMade ==
  ASSUME NEW call \in CallType, NEW walk, NEW found \in SUBSET Files, NEW excluded \in Nat,
         Standing(walk), call.found \subseteq found,
         \A n \in found : n \in call.found \/ AdmissibleFile(n),
         \A n \in Behind(walk) :
            n \in Behind(call.walk) \/ n \in found \/ n \notin tree.present \/ ~AdmissibleFile(n),
         excluded + OwedAt(call.walk) = call.excluded + OwedAt(walk),
         NEW next, next = At(call, walk, found, excluded)
  PROVE  Strides(call, next)
<1>1. next.walk = walk /\ next.found = found /\ next.excluded = excluded
  BY DEF CallType, At
<1>2. QED
  BY <1>1, Zenon DEF Strides, At

LEMMA CollectedAs ==
  ASSUME NEW call \in CallType, NEW n, NEW walk
  PROVE  Collect([call EXCEPT !.walk = walk], n) =
            IF Candidate(n) = "none"
            THEN [call EXCEPT !.walk = Eager(Advanced(walk)), !.found = call.found, !.excluded = call.excluded + 1]
            ELSE [call EXCEPT !.walk = Eager(Advanced(walk)), !.found = call.found \cup {n}, !.excluded = call.excluded]
<1>1. PICK next : next = Eager(Advanced(walk))
  OBVIOUS
<1>2. [call EXCEPT !.walk = walk].walk = walk
  BY DEF CallType
<1>3. Collect([call EXCEPT !.walk = walk], n) =
        LET in == [call EXCEPT !.walk = walk]
        IN IF Candidate(n) = "none"
           THEN [in EXCEPT !.walk = next, !.excluded = in.excluded + 1]
           ELSE [in EXCEPT !.walk = next, !.found = in.found \cup {n}]
  BY <1>1, <1>2, Zenon DEF Collect
<1>4. QED
  BY <1>1, <1>3 DEF CallType

LEMMA LastFrames ==
  ASSUME NEW k \in Nat, NEW stamp \in Nat
  PROVE  /\ Top(InRoot(k)).dir = "r" /\ Top(InRoot(k)).next = k /\ Top(InRoot(k)).stamp = 0
         /\ Top(InOther(k)).dir = "s" /\ Top(InOther(k)).next = k /\ Top(InOther(k)).stamp = 0
         /\ Top(InChild(k, stamp)).dir = "d" /\ Top(InChild(k, stamp)).next = k
         /\ Top(InChild(k, stamp)).stamp = stamp
<1>1. /\ Top(InRoot(k)) = [dir |-> "r", next |-> k, stamp |-> 0]
      /\ Top(InOther(k)) = [dir |-> "s", next |-> k, stamp |-> 0]
  BY FramesAre DEF Top
<1>2. Top(InChild(k, stamp)) = [dir |-> "d", next |-> k, stamp |-> stamp]
  <2>1. PICK frames : frames = InChild(k, stamp).frames
    OBVIOUS
  <2>2. Len(frames) = 2 /\ frames[2] = [dir |-> "d", next |-> k, stamp |-> stamp]
    BY <2>1, FramesAre
  <2>3. QED
    BY <2>1, <2>2 DEF Top
<1>3. QED
  BY <1>1, <1>2

LEMMA WalkedAs ==
  ASSUME NEW call, NEW walk, NEW dir, NEW next, NEW listed, NEW entry,
         Entered(call.walk) = walk, Top(walk).dir = dir, Top(walk).next = next,
         Entries(dir) = listed, entry = listed[next + 1]
  PROVE  /\ tree.odd[dir] = "unreadable" =>
              Walked(call) = [call EXCEPT !.walk = Pop(walk), !.excluded = @ + 1]
         /\ tree.odd[dir] # "unreadable" =>
              Walked(call) =
               IF next >= Len(listed)
               THEN [call EXCEPT !.walk = Pop(walk)]
               ELSE IF entry \in Directories
               THEN EnterChild([call EXCEPT !.walk = walk], entry)
               ELSE Collect([call EXCEPT !.walk = walk], entry)
  BY Zenon DEF Walked, Top

FileNext(call, walk, dir, next, listed, entry) ==
    /\ Entered(call.walk) = walk /\ Top(walk).dir = dir /\ Top(walk).next = next
    /\ Entries(dir) = listed /\ entry = listed[next + 1]
    /\ tree.odd[dir] # "unreadable" /\ ~(next >= Len(listed)) /\ entry \notin Directories

LEMMA FileWalked ==
  ASSUME NEW call \in CallType, NEW walk, NEW dir, NEW next, NEW listed, NEW entry,
         FileNext(call, walk, dir, next, listed, entry), NEW reached, reached = Eager(Advanced(walk))
  PROVE  /\ Candidate(entry) = "none" => Walked(call) = At(call, reached, call.found, call.excluded + 1)
         /\ Candidate(entry) # "none" => Walked(call) = At(call, reached, call.found \cup {entry}, call.excluded)
<1>1. Walked(call) = Collect([call EXCEPT !.walk = walk], entry)
  <2>1. Walked(call) =
               IF next >= Len(listed)
               THEN [call EXCEPT !.walk = Pop(walk)]
               ELSE IF entry \in Directories
               THEN EnterChild([call EXCEPT !.walk = walk], entry)
               ELSE Collect([call EXCEPT !.walk = walk], entry)
    BY Zenon DEF FileNext, Walked, Top
  <2>2. QED
    BY <2>1 DEF FileNext
<1>2. Collect([call EXCEPT !.walk = walk], entry) =
            IF Candidate(entry) = "none"
            THEN [call EXCEPT !.walk = Eager(Advanced(walk)), !.found = call.found, !.excluded = call.excluded + 1]
            ELSE [call EXCEPT !.walk = Eager(Advanced(walk)), !.found = call.found \cup {entry}, !.excluded = call.excluded]
  BY CollectedAs, Zenon
<1>3. QED
  BY <1>1, <1>2 DEF At

LEMMA EagerAt ==
  ASSUME TreeFits, NEW k \in Nat, NEW stamp \in Nat
  PROVE  /\ Eager(InRoot(1)) = InRoot(1) /\ Eager(InOther(1)) = AtRoot(3)
         /\ Eager(InChild(k, stamp)) = IF k = Len(Entries("d")) THEN InRoot(2) ELSE InChild(k, stamp)
<1>1. ASSUME NEW t PROVE Eager(t) = IF Top(t).next = Len(Entries(Top(t).dir)) THEN Pop(t) ELSE t
  BY DEF Eager, Top
<1>2. Len(Entries("r")) = 2 /\ Len(Entries("s")) = 1
  BY EntriesListed
<1>3. Eager(InRoot(1)) = InRoot(1)
  BY <1>1, <1>2, LastFrames
<1>4. Eager(InOther(1)) = Pop(InOther(1))
  BY <1>1, <1>2, LastFrames, ZenonT(60)
<1>5. Eager(InChild(k, stamp)) = IF k = Len(Entries("d")) THEN Pop(InChild(k, stamp)) ELSE InChild(k, stamp)
  BY <1>1, LastFrames
<1>6. QED
  BY <1>3, <1>4, <1>5, Popped

\* The walk at the top of the first root, and at the second root.
LEMMA RootWalked ==
  ASSUME TreeFits, NEW call \in CallType, call.walk \in {AtRoot(1), AtRoot(2), InRoot(2)}
  PROVE  Strides(call, Walked(call))
<1>0. tree.odd["r"] = "plain" /\ tree.odd["s"] = "plain" /\ "a" \notin Directories /\ "z" \notin Directories
  BY TreeShape, TreeNames DEF Nodes, Files
<1>1. /\ Candidate("a") = "discovered" /\ Candidate("z") = "discovered"
      /\ AdmissibleFile("a") /\ AdmissibleFile("z")
  BY Admissions
<1>2. call.found \in SUBSET Files /\ call.excluded \in Nat
  BY DEF CallType
<1>3. CASE call.walk = AtRoot(1)
  <2>1. PICK walk, taken, next, listed, entry, found, excluded :
          /\ taken = InRoot(0) /\ next = 0 /\ listed = Entries("r") /\ entry = listed[next + 1]
          /\ walk = InRoot(1) /\ found = call.found \cup {"a"} /\ excluded = call.excluded
    BY Zenon
  <2>2. Entered(call.walk) = taken /\ Top(taken).dir = "r" /\ Top(taken).next = next
    BY <1>3, <2>1, RootEntered, LastFrames
  <2>3. ~(next >= Len(listed)) /\ entry = "a" /\ entry \notin Directories /\ tree.odd["r"] # "unreadable"
    BY <2>1, <1>0, EntriesListed
  <2>4. Walked(call) = At(call, walk, found, excluded)
    <3>1. walk = Eager(Advanced(taken))
      BY <2>1, TakenNext, EagerAt
    <3>2. PICK dir : dir = "r"
      OBVIOUS
    <3>3. FileNext(call, taken, dir, next, listed, entry)
      BY <3>2, <2>1, <2>2, <2>3 DEF FileNext
    <3>4. Candidate(entry) # "none" /\ found = call.found \cup {entry} /\ excluded = call.excluded
      BY <2>1, <2>3, <1>1
    <3>5. QED
      BY <3>1, <3>3, <3>4, FileWalked, Zenon
  <2>5. Standing(walk) /\ Behind(walk) = {"a"} /\ OwedAt(call.walk) = 0 /\ OwedAt(walk) = 0
    BY <1>3, <2>1, BehindPlaces, OwedPlaces DEF Standing
  <2>6. /\ found \in SUBSET Files /\ call.found \subseteq found /\ \A n \in found : n \in call.found \/ AdmissibleFile(n)
        /\ \A n \in Behind(walk) : n \in found
        /\ excluded \in Nat /\ excluded + OwedAt(call.walk) = call.excluded + OwedAt(walk)
    BY <2>1, <2>5, <1>1, <1>2 DEF Files
  <2>7. QED
    BY <2>4, <2>5, <2>6, StrideMade, Zenon
<1>4. CASE call.walk = AtRoot(2)
  <2>1. PICK walk, taken, next, listed, entry, found, excluded :
          /\ taken = InOther(0) /\ next = 0 /\ listed = Entries("s") /\ entry = listed[next + 1]
          /\ walk = AtRoot(3) /\ found = call.found \cup {"z"} /\ excluded = call.excluded
    BY Zenon
  <2>2. Entered(call.walk) = taken /\ Top(taken).dir = "s" /\ Top(taken).next = next
    BY <1>4, <2>1, RootEntered, LastFrames
  <2>3. ~(next >= Len(listed)) /\ entry = "z" /\ entry \notin Directories /\ tree.odd["s"] # "unreadable"
    BY <2>1, <1>0, EntriesListed
  <2>4. Walked(call) = At(call, walk, found, excluded)
    <3>1. walk = Eager(Advanced(taken))
      BY <2>1, TakenNext, EagerAt
    <3>2. PICK dir : dir = "s"
      OBVIOUS
    <3>3. FileNext(call, taken, dir, next, listed, entry)
      BY <3>2, <2>1, <2>2, <2>3 DEF FileNext
    <3>4. Candidate(entry) # "none" /\ found = call.found \cup {entry} /\ excluded = call.excluded
      BY <2>1, <2>3, <1>1
    <3>5. QED
      BY <3>1, <3>3, <3>4, FileWalked, Zenon
  <2>5. /\ Standing(walk) /\ Behind(walk) = Files /\ Behind(call.walk) = {"a", "b", "c"}
        /\ OwedAt(call.walk) = Owed /\ OwedAt(walk) = Owed /\ Owed \in {0, 1}
    BY <1>4, <2>1, BehindPlaces, OwedPlaces DEF Standing
  <2>6. /\ found \in SUBSET Files /\ call.found \subseteq found /\ \A n \in found : n \in call.found \/ AdmissibleFile(n)
        /\ \A n \in Behind(walk) : n \in Behind(call.walk) \/ n \in found
        /\ excluded \in Nat /\ excluded + OwedAt(call.walk) = call.excluded + OwedAt(walk)
    BY <2>1, <2>5, <1>1, <1>2 DEF Files
  <2>7. QED
    BY <2>4, <2>5, <2>6, StrideMade, Zenon
<1>5. CASE call.walk = InRoot(2)
  <2>1. Walked(call) = [call EXCEPT !.walk = AtRoot(2)]
    <3>1. PICK walk, next, listed, entry :
            walk = InRoot(2) /\ next = 2 /\ listed = Entries("r") /\ entry = listed[next + 1]
      BY Zenon
    <3>2. Entered(call.walk) = walk /\ Top(walk).dir = "r" /\ Top(walk).next = next
      BY <1>5, <3>1, RootEntered, LastFrames
    <3>3. next >= Len(listed) /\ tree.odd["r"] # "unreadable"
      BY <3>1, <1>0, EntriesListed
    <3>4. Walked(call) = [call EXCEPT !.walk = Pop(walk)]
      BY <3>1, <3>2, <3>3, WalkedAs, ZenonT(60)
    <3>5. QED
      BY <3>1, <3>4, Popped
  <2>2. PICK walk, found, excluded : walk = AtRoot(2) /\ found = call.found /\ excluded = call.excluded
    BY Zenon
  <2>3. Walked(call) = At(call, walk, found, excluded)
    BY <2>1, <2>2 DEF CallType, At
  <2>4. /\ Standing(walk) /\ OwedAt(call.walk) = OwedAt(walk) /\ Behind(walk) = Behind(call.walk)
        /\ OwedAt(walk) \in {0, 1}
    BY <1>5, <2>2, BehindPlaces, OwedPlaces DEF Standing
  <2>5. /\ found \in SUBSET Files /\ call.found \subseteq found /\ \A n \in found : n \in call.found
        /\ excluded \in Nat /\ excluded + OwedAt(call.walk) = call.excluded + OwedAt(walk)
    BY <2>2, <2>4, <1>2
  <2>6. QED
    BY <2>3, <2>4, <2>5, StrideMade, Zenon
<1>6. QED
  BY <1>3, <1>4, <1>5

\* The directory "d": entered when it is allowed, counted when it is not.
LEMMA ChildEntered ==
  ASSUME TreeFits, NEW call \in CallType, call.walk = InRoot(1)
  PROVE  Strides(call, Walked(call))
<1>0. tree.odd["r"] = "plain" /\ "d" \in Directories /\ tree.stamp["d"] \in Nat
  BY TreeShape, TreeNames DEF Nodes, Files, TreeFits
<1>1. Walked(call) = EnterChild([call EXCEPT !.walk = InRoot(1)], "d")
  <2>1. PICK walk, next, listed, entry :
            walk = InRoot(1) /\ next = 1 /\ listed = Entries("r") /\ entry = listed[next + 1]
    BY Zenon
  <2>2. Entered(call.walk) = walk /\ Top(walk).dir = "r" /\ Top(walk).next = next
    BY <2>1, RootEntered, LastFrames
  <2>3. ~(next >= Len(listed)) /\ entry = "d" /\ entry \in Directories /\ tree.odd["r"] # "unreadable"
    BY <2>1, <1>0, EntriesListed
  <2>4. Walked(call) =
               IF next >= Len(listed)
               THEN [call EXCEPT !.walk = Pop(walk)]
               ELSE IF entry \in Directories
               THEN EnterChild([call EXCEPT !.walk = walk], entry)
               ELSE Collect([call EXCEPT !.walk = walk], entry)
    BY <2>1, <2>2, <2>3, Zenon DEF Walked, Top
  <2>5. QED
    BY <2>1, <2>3, <2>4
<1>2. PICK walk, inside : walk = InRoot(1) /\ inside = InChild(0, tree.stamp["d"])
  OBVIOUS
<1>3. [Advanced(walk) EXCEPT !.frames = Append(@, Frame("d"))] = inside
  <2>1. Advanced(walk) = InRoot(2)
    BY <1>2, TakenNext
  <2>2. PICK f, g : f = [dir |-> "r", next |-> 2, stamp |-> 0] /\ g = [dir |-> "d", next |-> 0, stamp |-> tree.stamp["d"]]
    OBVIOUS
  <2>3. Frame("d") = g /\ InRoot(2) = [root |-> 1, frames |-> <<f>>] /\ inside = [root |-> 1, frames |-> <<f, g>>]
    BY <2>2, <1>2 DEF Frame, InRoot, InChild
  <2>4. Append(<<f>>, g) = <<f, g>>
    BY SmallAppends
  <2>5. [InRoot(2) EXCEPT !.frames = Append(@, g)] = [root |-> 1, frames |-> Append(<<f>>, g)]
    BY <2>3, SMTT(60)
  <2>6. QED
    BY <2>1, <2>3, <2>4, <2>5
<1>4. call.found \in SUBSET Files /\ call.excluded \in Nat
  BY DEF CallType
<1>5. Behind(call.walk) = {"a"} /\ OwedAt(call.walk) = 0
  BY BehindPlaces, OwedPlaces, <1>0
<1>6. CASE AllowDirectory("d")
  <2>1. Walked(call) = At(call, inside, call.found, call.excluded)
    <3>1. Walked(call) = [[call EXCEPT !.walk = walk] EXCEPT !.walk = inside]
      <4>1. [call EXCEPT !.walk = walk].walk = walk
        BY DEF CallType
      <4>2. QED
        BY <1>1, <1>2, <1>3, <1>6, <4>1, Zenon DEF EnterChild
    <3>2. QED
      BY <3>1 DEF At, CallType
  <2>2. Standing(inside) /\ Behind(inside) = {"a"} /\ OwedAt(inside) = 0
    <3>1. ChildFits(0, tree.stamp["d"])
      BY <1>0, <1>6 DEF ChildFits
    <3>2. Standing(inside)
      BY <1>0, <1>2, <3>1 DEF Standing
    <3>3. QED
      BY <1>0, <1>2, <3>2, BehindPlaces, OwedPlaces
  <2>3. PICK found, excluded : found = call.found /\ excluded = call.excluded
    OBVIOUS
  <2>4. /\ found \in SUBSET Files /\ call.found \subseteq found /\ \A n \in found : n \in call.found
        /\ \A n \in Behind(inside) : n \in Behind(call.walk)
        /\ excluded \in Nat /\ excluded + OwedAt(call.walk) = call.excluded + OwedAt(inside)
    BY <2>2, <2>3, <1>4, <1>5
  <2>5. Walked(call) = At(call, inside, found, excluded)
    BY <2>1, <2>3
  <2>6. QED
    BY <2>2, <2>4, <2>5, StrideMade, Zenon
<1>7. CASE ~AllowDirectory("d")
  <2>1. PICK out, found, excluded : out = InRoot(2) /\ found = call.found /\ excluded = call.excluded + 1
    OBVIOUS
  <2>2. Walked(call) = At(call, out, found, excluded)
    <3>1. Walked(call) = [[call EXCEPT !.walk = walk] EXCEPT !.walk = SkipCurrent(inside), !.excluded = @ + 1]
      <4>1. [call EXCEPT !.walk = walk].walk = walk
        BY DEF CallType
      <4>2. QED
        BY <1>1, <1>2, <1>3, <1>7, <4>1, Zenon DEF EnterChild
    <3>2. SkipCurrent(inside) = out
      BY <1>2, <2>1, Popped
    <3>3. QED
      BY <3>1, <3>2, <2>1 DEF At, CallType
  <2>3. /\ Standing(out) /\ Behind(out) = {"a", "b", "c"} /\ OwedAt(out) = 1
        /\ ~AdmissibleFile("b") /\ ~AdmissibleFile("c")
    <3>1. Standing(out) /\ Behind(out) = {"a", "b", "c"} /\ OwedAt(out) = Owed
      BY <1>0, <2>1, BehindPlaces, OwedPlaces DEF Standing
    <3>2. ChildExcluded /\ Owed = 1
      BY <1>7 DEF ChildExcluded, Owed
    <3>3. QED
      BY <3>1, <3>2, Admissions
  <2>4. /\ found \in SUBSET Files /\ call.found \subseteq found /\ \A n \in found : n \in call.found
        /\ \A n \in Behind(out) : n \in Behind(call.walk) \/ ~AdmissibleFile(n)
        /\ excluded \in Nat /\ excluded + OwedAt(call.walk) = call.excluded + OwedAt(out)
    BY <2>1, <2>3, <1>4, <1>5
  <2>5. QED
    BY <2>2, <2>3, <2>4, StrideMade, Zenon
<1>8. QED
  BY <1>6, <1>7

\* Inside the directory "d", which has not changed since its frame was made.
LEMMA ChildWalked ==
  ASSUME TreeFits, NEW call \in CallType, NEW k \in {0, 1}, NEW stamp \in Nat,
         call.walk = InChild(k, stamp), ChildFits(k, stamp), stamp = tree.stamp["d"]
  PROVE  Strides(call, Walked(call))
<1>0. "b" \notin Directories /\ "c" \notin Directories /\ {"b", "c"} \subseteq Files /\ AllowDirectory("d")
  BY TreeNames DEF Files, ChildFits
<1>1. call.found \in SUBSET Files /\ call.excluded \in Nat
  BY DEF CallType
<1>2. /\ {"a"} \subseteq Behind(call.walk) /\ (k = 1 => "b" \in Behind(call.walk))
      /\ OwedAt(call.walk) = 0
  BY BehindPlaces, OwedPlaces
<1>3. PICK walk, next, listed, entry :
        walk = InChild(k, stamp) /\ next = k /\ listed = Entries("d") /\ entry = listed[next + 1]
  BY Zenon
<1>4. Entered(call.walk) = walk /\ Top(walk).dir = "d" /\ Top(walk).next = next
  BY <1>3, RootEntered, LastFrames
<1>5. PICK out : out = InRoot(2)
  OBVIOUS
<1>6. Standing(out) /\ Behind(out) = {"a", "b", "c"} /\ OwedAt(out) = Owed /\ Pop(walk) = out
  BY <1>3, <1>5, BehindPlaces, OwedPlaces, Popped DEF Standing
<1>7. CASE tree.odd["d"] = "unreadable"
  <2>1. PICK found, excluded : found = call.found /\ excluded = call.excluded + 1
    OBVIOUS
  <2>2. Walked(call) = At(call, out, found, excluded)
    <3>1. Walked(call) = [call EXCEPT !.walk = Pop(walk), !.excluded = @ + 1]
      BY <1>3, <1>4, <1>7, Zenon DEF Walked, Top
    <3>2. QED
      BY <3>1, <1>6, <2>1 DEF At, CallType
  <2>3. Owed = 1 /\ ~AdmissibleFile("b") /\ ~AdmissibleFile("c")
    <3>1. ChildExcluded /\ Owed = 1
      BY <1>7 DEF ChildExcluded, Owed
    <3>2. QED
      BY <3>1, Admissions
  <2>4. /\ found \in SUBSET Files /\ call.found \subseteq found /\ \A n \in found : n \in call.found
        /\ \A n \in Behind(out) : n \in Behind(call.walk) \/ ~AdmissibleFile(n)
        /\ excluded \in Nat /\ excluded + OwedAt(call.walk) = call.excluded + OwedAt(out)
    BY <2>1, <2>3, <1>1, <1>2, <1>6
  <2>5. QED
    BY <2>2, <2>4, <1>6, StrideMade, Zenon
<1>8. CASE tree.odd["d"] # "unreadable"
  <2>1. ~ChildExcluded
    BY <1>0, <1>8 DEF ChildExcluded
  <2>2. /\ AdmissibleFile("b") /\ Candidate("b") # "none"
        /\ (AdmissibleFile("c") <=> Candidate("c") # "none")
        /\ Owed = IF Candidate("c") = "none" THEN 1 ELSE 0
    BY <2>1, Admissions DEF Owed
  <2>3. PICK reached : reached = Eager(Advanced(walk))
    OBVIOUS
  <2>4. reached = IF k + 1 = Len(Entries("d")) THEN out ELSE InChild(k + 1, stamp)
    <3>1. Advanced(walk) = InChild(k + 1, stamp)
      BY <1>3, TakenNext
    <3>2. k + 1 \in Nat
      OBVIOUS
    <3>3. QED
      BY <2>3, <3>1, <3>2, <1>5, EagerAt
  <2>5. PICK dir : dir = "d"
    OBVIOUS
  <2>6. CASE "b" \in tree.present /\ k = 0
    <3>1. listed = <<"b", "c">>
      BY <1>3, <2>6, EntriesListed
    <3>2. FileNext(call, walk, dir, next, listed, entry) /\ entry = "b"
      BY <3>1, <1>0, <1>3, <1>4, <1>8, <2>5, <2>6 DEF FileNext
    <3>3. reached = InChild(1, stamp)
      BY <3>1, <1>3, <2>4, <2>6
    <3>4. PICK found, excluded : found = call.found \cup {entry} /\ excluded = call.excluded
      OBVIOUS
    <3>5. Walked(call) = At(call, reached, found, excluded)
      <4>1. Candidate(entry) # "none"
        BY <3>2, <2>2
      <4>2. QED
        BY <4>1, <3>2, <3>4, <2>3, FileWalked, Zenon
    <3>6. Standing(reached) /\ Behind(reached) = {"a", "b"} /\ OwedAt(reached) = 0
      <4>1. ChildFits(1, stamp)
        BY <1>8, <2>6 DEF ChildFits
      <4>2. Standing(reached)
        BY <4>1, <3>3 DEF Standing
      <4>3. QED
        BY <4>2, <3>3, BehindPlaces, OwedPlaces
    <3>7. /\ found \in SUBSET Files /\ call.found \subseteq found /\ \A n \in found : n \in call.found \/ AdmissibleFile(n)
          /\ \A n \in Behind(reached) : n \in Behind(call.walk) \/ n \in found
          /\ excluded \in Nat /\ excluded + OwedAt(call.walk) = call.excluded + OwedAt(reached)
      BY <3>2, <3>4, <3>6, <1>0, <1>1, <1>2, <2>2
    <3>8. QED
      BY <3>5, <3>6, <3>7, StrideMade, Zenon
  <2>7. CASE "b" \notin tree.present \/ k = 1
    <3>1. /\ entry = "c" /\ ~(next >= Len(listed)) /\ k + 1 = Len(Entries("d"))
          /\ k = 1 \/ "b" \notin tree.present
      <4>1. CASE "b" \in tree.present
        <5>1. k = 1 /\ listed = <<"b", "c">>
          BY <4>1, <2>7, <1>3, EntriesListed
        <5>2. QED
          BY <5>1, <1>3
      <4>2. CASE "b" \notin tree.present
        <5>1. k = 0 /\ listed = <<"c">>
          BY <4>2, <1>3, EntriesListed DEF ChildFits
        <5>2. QED
          BY <5>1, <1>3, <4>2
      <4>3. QED
        BY <4>1, <4>2
    <3>2. FileNext(call, walk, dir, next, listed, entry)
      BY <3>1, <1>0, <1>3, <1>4, <1>8, <2>5 DEF FileNext
    <3>3. reached = out
      BY <3>1, <2>4
    <3>4. CASE Candidate("c") = "none"
      <4>1. PICK found, excluded : found = call.found /\ excluded = call.excluded + 1
        OBVIOUS
      <4>2. Walked(call) = At(call, out, found, excluded)
        <5>1. Candidate(entry) = "none"
          BY <3>1, <3>4
        <5>2. QED
          BY <5>1, <3>2, <3>3, <4>1, <2>3, FileWalked, Zenon
      <4>3. /\ found \in SUBSET Files /\ call.found \subseteq found /\ \A n \in found : n \in call.found
            /\ \A n \in Behind(out) : n \in Behind(call.walk) \/ n \notin tree.present \/ ~AdmissibleFile(n)
            /\ excluded \in Nat /\ excluded + OwedAt(call.walk) = call.excluded + OwedAt(out)
        BY <3>1, <3>4, <4>1, <1>1, <1>2, <1>6, <2>2
      <4>4. QED
        BY <4>2, <4>3, <1>6, StrideMade, Zenon
    <3>5. CASE Candidate("c") # "none"
      <4>1. PICK found, excluded : found = call.found \cup {entry} /\ excluded = call.excluded
        OBVIOUS
      <4>2. Walked(call) = At(call, out, found, excluded)
        <5>1. Candidate(entry) # "none"
          BY <3>1, <3>5
        <5>2. QED
          BY <5>1, <3>2, <3>3, <4>1, <2>3, FileWalked, Zenon
      <4>3. /\ found \in SUBSET Files /\ call.found \subseteq found /\ \A n \in found : n \in call.found \/ AdmissibleFile(n)
            /\ \A n \in Behind(out) : n \in Behind(call.walk) \/ n \in found \/ n \notin tree.present
            /\ excluded \in Nat /\ excluded + OwedAt(call.walk) = call.excluded + OwedAt(out)
        BY <3>1, <3>5, <4>1, <1>0, <1>1, <1>2, <1>6, <2>2
      <4>4. QED
        BY <4>2, <4>3, <1>6, StrideMade, Zenon
    <3>6. QED
      BY <3>4, <3>5
  <2>8. QED
    BY <2>6, <2>7
<1>9. QED
  BY <1>7, <1>8

\* Every iteration on a valid frame is a stride, from wherever the call stands.
LEMMA WalkStrides ==
  ASSUME TreeFits, NEW call \in CallType, Standing(call.walk), ~TraversalComplete(call.walk),
         FrameValid(Top(Entered(call.walk)))
  PROVE  Strides(call, Walked(call))
<1>1. CASE call.walk \in {AtRoot(1), AtRoot(2), InRoot(2)}
  BY <1>1, RootWalked
<1>2. CASE call.walk = InRoot(1)
  BY <1>2, ChildEntered
<1>3. CASE call.walk = AtRoot(3)
  BY <1>3 DEF TraversalComplete, AtRoot, Roots
<1>4. ASSUME NEW k \in {0, 1}, NEW stamp \in Nat, call.walk = InChild(k, stamp), ChildFits(k, stamp)
      PROVE  Strides(call, Walked(call))
  <2>1. Top(Entered(call.walk)).dir = "d" /\ Top(Entered(call.walk)).stamp = stamp
    BY <1>4, RootEntered, LastFrames
  <2>2. stamp = tree.stamp["d"]
    BY <2>1 DEF FrameValid
  <2>3. QED
    BY <1>4, <2>2, ChildWalked
<1>5. QED
  BY <1>1, <1>2, <1>3, <1>4 DEF Standing

LEMMA StandingType ==
  ASSUME NEW t, Standing(t)
  PROVE  t \in WalkType /\ t.root \in 1 .. 3 /\ (TraversalComplete(t) => t = AtRoot(3))
<1>1. ASSUME NEW f \in [dir : Directories, next : Nat, stamp : Nat],
             NEW g \in [dir : Directories, next : Nat, stamp : Nat]
      PROVE  <<f>> \in Seq([dir : Directories, next : Nat, stamp : Nat])
             /\ <<f, g>> \in Seq([dir : Directories, next : Nat, stamp : Nat])
  OBVIOUS
<1>2. "r" \in Directories /\ "d" \in Directories /\ Len(Roots) = 2
  BY TreeNames DEF Roots
<1>3. ASSUME NEW k \in {1, 2, 3}, t = AtRoot(k)
      PROVE  t \in WalkType /\ t.root \in 1 .. 3 /\ (TraversalComplete(t) => t = AtRoot(3))
  BY <1>2, <1>3 DEF AtRoot, WalkType, TraversalComplete
<1>4. ASSUME NEW k \in {1, 2}, t = InRoot(k)
      PROVE  t \in WalkType /\ t.root = 1
  <2>1. PICK f : f = [dir |-> "r", next |-> k, stamp |-> 0]
    OBVIOUS
  <2>2. f \in [dir : Directories, next : Nat, stamp : Nat]
    BY <2>1, <1>2
  <2>3. t = [root |-> 1, frames |-> <<f>>]
    BY <2>1, <1>4 DEF InRoot
  <2>4. QED
    BY <2>2, <2>3, <1>1 DEF WalkType
<1>5. ASSUME NEW k \in {0, 1}, NEW stamp \in Nat, t = InChild(k, stamp)
      PROVE  t \in WalkType /\ t.root = 1
  <2>1. PICK f, g : f = [dir |-> "r", next |-> 2, stamp |-> 0] /\ g = [dir |-> "d", next |-> k, stamp |-> stamp]
    OBVIOUS
  <2>2. f \in [dir : Directories, next : Nat, stamp : Nat] /\ g \in [dir : Directories, next : Nat, stamp : Nat]
    BY <2>1, <1>2
  <2>3. t = [root |-> 1, frames |-> <<f, g>>]
    BY <2>1, <1>5 DEF InChild
  <2>4. QED
    BY <2>2, <2>3, <1>1 DEF WalkType
<1>6. t.root = 1 => ~TraversalComplete(t)
  BY <1>2 DEF TraversalComplete
<1>7. QED
  BY <1>3, <1>4, <1>5, <1>6 DEF Standing

\* What no step takes back: the tree keeps its peculiarities, an entry that changes is
\* touched and its directory stamped anew, and the tables only grow.
Onward ==
    /\ TreeFits /\ TreeFits' /\ UNCHANGED settings /\ tree'.odd = tree.odd
    /\ \/ UNCHANGED <<tree, touched>>
       \/ /\ tree'.stamp["d"] > tree.stamp["d"] /\ touched' = touched \cup {"b"}
          /\ \A n \in Files \ {"b"} : n \in tree'.present <=> n \in tree.present
    /\ \A x \in Files : catalogue[x] # "absent" => catalogue'[x] # "absent"
    /\ discovery.complete => discovery'.complete
    /\ discovery.excluded \in Nat /\ discovery'.excluded \in Nat
    /\ discovery'.excluded >= discovery.excluded
    /\ DOMAIN discovery.cursors \subseteq DOMAIN discovery'.cursors

LEMMA SameTree ==
  ASSUME UNCHANGED settings, tree'.odd = tree.odd
  PROVE  /\ \A n : (AdmissibleFile(n)' <=> AdmissibleFile(n)) /\ Target(n)' = Target(n)
                   /\ Candidate(n)' = Candidate(n)
         /\ AllowDirectory("d")' <=> AllowDirectory("d")
         /\ ChildExcluded' <=> ChildExcluded
         /\ Owed' = Owed /\ \A t : OwedAt(t)' = OwedAt(t)
<1>1. \A n : ValidPath(n)' <=> ValidPath(n)
  BY DEF ValidPath
<1>2. \A n : AllowDirectory(n)' <=> AllowDirectory(n)
  BY <1>1 DEF AllowDirectory
<1>3. \A n : Candidate(n)' = Candidate(n) /\ Target(n)' = Target(n)
  BY <1>1 DEF Candidate, Target
<1>4. \A n : AdmissibleFile(n)' <=> AdmissibleFile(n)
  BY <1>2, <1>3 DEF AdmissibleFile, Visited
<1>5. (ChildExcluded' <=> ChildExcluded) /\ Owed' = Owed
  BY <1>2, <1>3 DEF ChildExcluded, Owed
<1>6. \A t : OwedAt(t)' = OwedAt(t)
  BY <1>5 DEF OwedAt
<1>7. QED
  BY <1>2, <1>3, <1>4, <1>5, <1>6

LEMMA StillStanding ==
  ASSUME Onward, NEW t, Standing(t) PROVE Standing(t)'
<1>1. AllowDirectory("d")' <=> AllowDirectory("d")
  BY SameTree DEF Onward
<1>2. ASSUME NEW k \in {0, 1}, NEW stamp \in Nat, ChildFits(k, stamp) PROVE ChildFits(k, stamp)'
  <2>1. tree.stamp["d"] \in Nat /\ tree'.stamp["d"] \in Nat
    BY TreeNames DEF Onward, TreeFits
  <2>2. QED
    BY <1>1, <1>2, <2>1 DEF Onward, ChildFits
<1>3. QED
  BY <1>2 DEF Standing

LEMMA StillDue ==
  ASSUME Onward, NEW n \in Files, Due(n)'
  PROVE  Due(n) /\ (Catalogued(n) => Catalogued(n)')
<1>1. Target(n) \in Files
  BY DEF Target, Files
<1>2. QED
  BY <1>1, SameTree DEF Onward, Due, Catalogued

LEMMA CallKept ==
  ASSUME Onward, NEW call \in CallType, CallFits(call) PROVE CallFits(call)'
<1>1. Standing(call.walk)'
  BY StillStanding DEF CallFits
<1>2. \A n \in call.found : AdmissibleFile(n)'
  BY SameTree DEF CallFits, Onward
<1>3. Behind(call.walk) \subseteq Files
  BY DEF Behind, Files
<1>4. \A n \in Behind(call.walk) :
          Due(n)' => Catalogued(n)' \/ (call.pc \in {"walking", "upserting"} /\ n \in call.found)
  BY <1>3, StillDue DEF CallFits
<1>5. discovery'.excluded + Tallied(call) >= OwedAt(call.walk)'
  <2>1. OwedAt(call.walk)' = OwedAt(call.walk) /\ OwedAt(call.walk) \in Nat /\ Tallied(call) \in Nat
    BY SameTree DEF Onward, OwedAt, Owed, Tallied, CallType
  <2>2. QED
    BY <2>1 DEF CallFits, Onward
<1>6. call.pc = "returning" =>
          IF TraversalComplete(call.walk) THEN discovery'.complete
          ELSE call.durable + Cardinality(call.found) \in DOMAIN discovery'.cursors
  BY DEF CallFits, Onward
<1>7. QED
  BY <1>1, <1>2, <1>4, <1>5, <1>6 DEF CallFits

LEMMA CursorKept ==
  ASSUME Onward, NEW t, CursorFits(t) PROVE CursorFits(t)'
<1>1. Standing(t)'
  BY StillStanding DEF CursorFits
<1>2. Behind(t) \subseteq Files
  BY DEF Behind, Files
<1>3. \A n \in Behind(t) : Due(n)' => Catalogued(n)'
  BY <1>2, StillDue DEF CursorFits
<1>4. discovery'.excluded >= OwedAt(t)'
  <2>1. OwedAt(t)' = OwedAt(t) /\ OwedAt(t) \in Nat
    BY SameTree DEF Onward, OwedAt, Owed
  <2>2. QED
    BY <2>1 DEF CursorFits, Onward
<1>5. QED
  BY <1>1, <1>3, <1>4 DEF CursorFits

\* What a call that is under way without a repetition knows: it alone is under way.
LEMMA SoleCall ==
  ASSUME DiscoveryInv, ~repeated, NEW c \in Calls, calls[c].pc # "idle"
  PROVE  /\ job.lease = c /\ \A q \in Calls : q # c => calls[q].pc = "idle"
         /\ discovery.complete => calls[c].pc = "returning" /\ TraversalComplete(calls[c].walk) /\ discovery.excluded = Owed
         /\ ~discovery.complete => discovery.excluded + Tallied(calls[c]) = OwedAt(calls[c].walk)
         /\ ~discovery.complete /\ calls[c].pc = "returning" =>
               discovery.cursors[calls[c].durable + Cardinality(calls[c].found)] = calls[c].walk
         /\ job.lease # NoCall
  BY DiscoveryAssumption DEF DiscoveryInv, CountedOnce, NoCall

LEMMA OnceMoves ==
  ASSUME NEW c \in Calls, NEW next \in CallType, calls \in [Calls -> CallType],
         calls' = [calls EXCEPT ![c] = next], \A q \in Calls : q # c => calls[q].pc = "idle",
         next.pc # "idle" => job'.lease = c,
         next.pc # "idle" /\ discovery'.complete => next.pc = "returning" /\ TraversalComplete(next.walk),
         next.pc # "idle" /\ ~discovery'.complete => discovery'.excluded + Tallied(next) = OwedAt(next.walk)',
         next.pc = "returning" /\ ~discovery'.complete =>
             discovery'.cursors[next.durable + Cardinality(next.found)] = next.walk,
         discovery'.complete => discovery'.excluded = Owed',
         job'.lease = NoCall /\ job'.status = "open" =>
             ~discovery'.complete /\ discovery'.excluded = OwedAt(Resumed)'
  PROVE  CountedOnce'
<1>1. \A q \in Calls : calls'[q] = IF q = c THEN next ELSE calls[q]
  OBVIOUS
<1>2. ASSUME NEW q \in Calls, calls'[q].pc # "idle" PROVE q = c /\ calls'[q] = next
  BY <1>1, <1>2
<1>3. ASSUME NEW q \in Calls, calls'[q].pc # "idle"
      PROVE  /\ job'.lease = q
             /\ IF discovery'.complete THEN calls'[q].pc = "returning" /\ TraversalComplete(calls'[q].walk)
                ELSE /\ discovery'.excluded + Tallied(calls[q])' = OwedAt(calls[q].walk)'
                     /\ calls'[q].pc = "returning" =>
                         discovery'.cursors[calls'[q].durable + Cardinality(calls'[q].found)] = calls'[q].walk
  <2>1. q = c /\ calls'[q] = next
    BY <1>2, <1>3
  <2>2. next.pc # "idle"
    BY <2>1, <1>3
  <2>3. Tallied(calls[q])' = Tallied(next) /\ OwedAt(calls[q].walk)' = OwedAt(next.walk)'
    BY <2>1 DEF Tallied, OwedAt
  <2>4. QED
    BY <2>1, <2>2, <2>3
<1>4. QED
  BY <1>3 DEF CountedOnce

LEMMA DiscoveryMoves ==
  ASSUME DiscoveryInv, Onward, DiscoveryTypes', NEW c \in Calls, NEW next \in CallType,
         calls' = [calls EXCEPT ![c] = next], CallFits(next)',
         \A p \in DOMAIN discovery'.cursors :
            \/ p \in DOMAIN discovery.cursors /\ discovery'.cursors[p] = discovery.cursors[p]
            \/ discovery'.cursors[p] = next.walk,
         CursorFits(next.walk)' \/ \A p \in DOMAIN discovery'.cursors :
                                      p \in DOMAIN discovery.cursors /\ discovery'.cursors[p] = discovery.cursors[p],
         job'.checkpoint # NoCursor => job'.checkpoint \in DOMAIN discovery'.cursors,
         \A x \in Files : catalogue'[x] # "absent" => catalogue[x] # "absent" \/ AdmissibleFile(x),
         discovery'.complete => \/ discovery.complete
                                \/ (\A n \in Files : Due(n)' => Catalogued(n)') /\ discovery'.excluded >= Owed,
         ~repeated' => CountedOnce'
  PROVE  DiscoveryInv'
<1>1. \A q \in Calls : CallFits(calls[q])'
  <2>1. SUFFICES ASSUME NEW q \in Calls PROVE CallFits(calls[q])'
    OBVIOUS
  <2>2. calls'[q] = IF q = c THEN next ELSE calls[q]
    BY DEF DiscoveryInv, DiscoveryTypes
  <2>3. calls[q] \in CallType /\ CallFits(calls[q])
    BY DEF DiscoveryInv, DiscoveryTypes
  <2>4. PICK call \in CallType : call = calls[q]
    BY <2>3
  <2>5. CallFits(call)'
    BY <2>3, <2>4, CallKept
  <2>6. QED
    <3>1. CASE q = c
      <4>1. calls'[q] = next
        BY <2>2, <3>1
      <4>2. QED
        BY <4>1 DEF CallFits, Tallied
    <3>2. CASE q # c
      <4>1. calls'[q] = call
        BY <2>2, <2>4, <3>2
      <4>2. QED
        BY <4>1, <2>5 DEF CallFits, Tallied
    <3>3. QED
      BY <3>1, <3>2
<1>2. \A p \in DOMAIN discovery'.cursors : CursorFits(discovery.cursors[p])'
  <2>1. SUFFICES ASSUME NEW p \in DOMAIN discovery'.cursors PROVE CursorFits(discovery.cursors[p])'
    OBVIOUS
  <2>2. PICK t : t = discovery'.cursors[p]
    OBVIOUS
  <2>3. CursorFits(t)'
    <3>1. CASE p \in DOMAIN discovery.cursors /\ discovery'.cursors[p] = discovery.cursors[p]
      <4>1. CursorFits(t)
        BY <3>1, <2>2 DEF DiscoveryInv
      <4>2. QED
        BY <4>1, CursorKept
    <3>2. CASE ~(p \in DOMAIN discovery.cursors /\ discovery'.cursors[p] = discovery.cursors[p])
      <4>1. t = next.walk /\ CursorFits(next.walk)'
        BY <3>2, <2>1, <2>2
      <4>2. QED
        BY <4>1
    <3>3. QED
      BY <3>1, <3>2
  <2>4. QED
    BY <2>2, <2>3 DEF CursorFits
<1>3. \A x \in Files : catalogue'[x] # "absent" => AdmissibleFile(x)'
  BY SameTree DEF Onward, DiscoveryInv
<1>4. discovery'.complete => (\A n \in Files : Due(n)' => Catalogued(n)') /\ discovery'.excluded >= Owed'
  <2>1. Owed' = Owed /\ Owed \in {0, 1}
    BY SameTree DEF Onward, Owed
  <2>2. CASE discovery.complete
    <3>1. (\A n \in Files : Due(n) => Catalogued(n)) /\ discovery.excluded >= Owed
      BY <2>2 DEF DiscoveryInv
    <3>2. \A n \in Files : Due(n)' => Catalogued(n)'
      BY <3>1, StillDue
    <3>3. QED
      BY <2>1, <3>1, <3>2 DEF Onward
  <2>3. CASE ~discovery.complete
    BY <2>1, <2>3
  <2>4. QED
    BY <2>2, <2>3
<1>5. QED
  BY <1>1, <1>2, <1>3, <1>4 DEF DiscoveryInv, Onward

LEMMA DiscoveryHolds ==
  ASSUME DiscoveryInv, NEW c \in Calls
  PROVE  /\ TreeFits /\ calls \in [Calls -> CallType] /\ calls[c] \in CallType /\ CallFits(calls[c])
         /\ calls[c].found \in SUBSET Files /\ calls[c].excluded \in Nat /\ calls[c].durable \in Nat
         /\ Standing(calls[c].walk) /\ discovery.excluded \in Nat /\ discovery.complete \in BOOLEAN
         /\ job \in JobType /\ catalogue \in [Files -> {"absent", "discovered", "unsupported"}]
         /\ Owed \in {0, 1} /\ \A t : OwedAt(t) \in {0, 1}
<1>1. calls[c] \in CallType /\ CallFits(calls[c])
  BY DEF DiscoveryInv, DiscoveryTypes
<1>2. Owed \in {0, 1} /\ \A t : OwedAt(t) \in {0, 1}
  BY DEF Owed, OwedAt
<1>3. QED
  BY <1>1, <1>2 DEF DiscoveryInv, DiscoveryTypes, CallType, CallFits

LEMMA TreeStays ==
  ASSUME DiscoveryInv, UNCHANGED <<tree, settings, touched>>
  PROVE  TreeFits' /\ \A t : Standing(t)' <=> Standing(t)
  BY DEF DiscoveryInv, TreeFits, Standing, ChildFits, AllowDirectory, ValidPath

\* Steps that change nothing but the call and the job.
LEMMA OnwardOnly ==
  ASSUME DiscoveryInv, UNCHANGED <<tree, settings, touched, catalogue, discovery>>
  PROVE  Onward
  BY TreeStays DEF DiscoveryInv, DiscoveryTypes, Onward

LEMMA CallMoves ==
  ASSUME DiscoveryInv, UNCHANGED <<tree, settings, touched, catalogue, discovery>>,
         NEW c \in Calls, NEW next \in CallType, calls' = [calls EXCEPT ![c] = next], CallFits(next),
         job' \in JobType, job'.checkpoint # NoCursor => job'.checkpoint \in DOMAIN discovery.cursors,
         repeated' \in BOOLEAN, ~repeated' => CountedOnce'
  PROVE  DiscoveryInv'
<1>1. Onward
  BY OnwardOnly
<1>2. CallFits(next)'
  BY <1>1, CallKept
<1>3. DiscoveryTypes'
  <2>1. calls' \in [Calls -> CallType]
    BY DEF DiscoveryInv, DiscoveryTypes
  <2>2. QED
    BY <2>1 DEF DiscoveryInv, DiscoveryTypes
<1>4. QED
  BY <1>1, <1>2, <1>3, DiscoveryMoves

LEMMA IdleCallFits == ASSUME DiscoveryInv PROVE IdleCall \in CallType /\ CallFits(IdleCall) /\ IdleCall.pc = "idle"
<1>1. IdleCall = [pc |-> "idle", walk |-> AtRoot(1), found |-> {}, excluded |-> 0, durable |-> 0]
  BY DEF IdleCall, Start, AtRoot
<1>2. Standing(AtRoot(1)) /\ Behind(AtRoot(1)) = {} /\ OwedAt(AtRoot(1)) = 0
  BY BehindPlaces, OwedPlaces DEF Standing
<1>3. AtRoot(1) \in WalkType
  BY <1>2, StandingType
<1>4. QED
  BY <1>1, <1>2, <1>3 DEF CallType, CallFits, Tallied, DiscoveryInv, DiscoveryTypes

\* The process of a call dies.
LEMMA CallDies ==
  ASSUME DiscoveryInv, NEW c \in Calls, Die(c) PROVE DiscoveryInv'
<1>1. /\ UNCHANGED <<tree, settings, touched, catalogue, discovery, job, repeated>>
      /\ calls[c].pc # "idle" /\ calls' = [calls EXCEPT ![c] = IdleCall]
  BY DEF Die
<1>2. PICK next \in CallType : next = IdleCall
  BY IdleCallFits
<1>3. CallFits(next) /\ next.pc = "idle"
  BY <1>2, IdleCallFits
<1>4. ~repeated' => CountedOnce'
  <2>1. SUFFICES ASSUME ~repeated PROVE CountedOnce'
    BY <1>1
  <2>2. /\ job.lease # NoCall /\ \A q \in Calls : q # c => calls[q].pc = "idle"
        /\ discovery.complete => discovery.excluded = Owed
    BY <2>1, <1>1, SoleCall
  <2>3. Owed' = Owed
    BY <1>1, SameTree
  <2>4. QED
    BY <1>1, <1>2, <1>3, <2>2, <2>3, OnceMoves, DiscoveryHolds
<1>5. job' \in JobType /\ (job'.checkpoint # NoCursor => job'.checkpoint \in DOMAIN discovery.cursors) /\ repeated' \in BOOLEAN
  BY <1>1 DEF DiscoveryInv, DiscoveryTypes
<1>6. QED
  BY <1>1, <1>2, <1>3, <1>4, <1>5, CallMoves

\* The worker stores the checkpoint, or completes the job.
LEMMA CallReturns ==
  ASSUME DiscoveryInv, NEW c \in Calls, Return(c) PROVE DiscoveryInv'
<1>1. /\ UNCHANGED <<tree, settings, touched, catalogue, discovery, repeated>>
      /\ calls[c].pc = "returning" /\ calls' = [calls EXCEPT ![c] = IdleCall]
      /\ job' = IF job.lease # c THEN job
                ELSE IF TraversalComplete(calls[c].walk)
                THEN [job EXCEPT !.status = "done", !.lease = NoCall]
                ELSE [job EXCEPT !.checkpoint = Processed(c), !.lease = NoCall]
  BY DEF Return
<1>2. PICK next \in CallType : next = IdleCall
  BY IdleCallFits
<1>3. CallFits(next) /\ next.pc = "idle"
  BY <1>2, IdleCallFits
<1>4. PICK processed : processed = calls[c].durable + Cardinality(calls[c].found)
  OBVIOUS
<1>5. /\ processed \in Nat
      /\ ~TraversalComplete(calls[c].walk) => processed # 0 /\ processed \in DOMAIN discovery.cursors
  <2>1. IsFiniteSet(Files)
    <3>1. IsFiniteSet({"a"}) /\ IsFiniteSet({"b"}) /\ IsFiniteSet({"c"}) /\ IsFiniteSet({"z"})
      BY FS_Singleton
    <3>2. Files = (({"a"} \cup {"b"}) \cup {"c"}) \cup {"z"}
      BY DEF Files
    <3>3. QED
      BY <3>1, <3>2, FS_Union
  <2>2. IsFiniteSet(calls[c].found)
    BY <2>1, DiscoveryHolds, FS_Subset
  <2>3. Cardinality(calls[c].found) \in Nat /\ (calls[c].found # {} => Cardinality(calls[c].found) # 0)
    BY <2>2, FS_CardinalityType, FS_EmptySet
  <2>4. calls[c].durable \in Nat
    BY DiscoveryHolds
  <2>5. ~TraversalComplete(calls[c].walk) => calls[c].found # {} /\ processed \in DOMAIN discovery.cursors
    BY <1>1, <1>4, DiscoveryHolds DEF CallFits
  <2>6. QED
    BY <2>3, <2>4, <2>5, <1>4
<1>6. /\ job' \in JobType /\ (job'.checkpoint # NoCursor => job'.checkpoint \in DOMAIN discovery.cursors)
  <2>1. Processed(c) = processed
    BY <1>4 DEF Processed
  <2>2. QED
    BY <1>1, <1>5, <2>1 DEF DiscoveryInv, DiscoveryTypes, JobType
<1>7. ~repeated' => CountedOnce'
  <2>1. SUFFICES ASSUME ~repeated PROVE CountedOnce'
    BY <1>1
  <2>2. /\ job.lease = c /\ job.lease # NoCall /\ \A q \in Calls : q # c => calls[q].pc = "idle"
        /\ discovery.complete => discovery.excluded = Owed /\ TraversalComplete(calls[c].walk)
        /\ ~discovery.complete => /\ discovery.excluded + Tallied(calls[c]) = OwedAt(calls[c].walk)
                                  /\ discovery.cursors[processed] = calls[c].walk
    BY <2>1, <1>1, <1>4, SoleCall
  <2>3. Owed' = Owed /\ \A t : OwedAt(t)' = OwedAt(t)
    BY <1>1, SameTree
  <2>4. job'.lease = NoCall /\ job'.status = "open" =>
             ~discovery'.complete /\ discovery'.excluded = OwedAt(Resumed)'
    <3>1. SUFFICES ASSUME job'.status = "open" PROVE ~discovery.complete /\ discovery.excluded = OwedAt(Resumed)'
      BY <1>1
    <3>2. ~TraversalComplete(calls[c].walk)
      BY <3>1, <2>2, <1>1, DiscoveryHolds DEF JobType
    <3>3. job'.checkpoint = processed /\ processed # NoCursor /\ ~discovery.complete
      <4>1. job' = [job EXCEPT !.checkpoint = processed, !.lease = NoCall]
        BY <3>2, <2>2, <1>1, <1>4 DEF Processed
      <4>2. QED
        BY <4>1, <3>2, <2>2, <1>5, DiscoveryHolds DEF JobType, NoCursor
    <3>4. PICK t : t = calls[c].walk
      OBVIOUS
    <3>5. Resumed' = t
      BY <3>3, <3>4, <2>2, <1>1 DEF Resumed
    <3>6. OwedAt(Resumed)' = OwedAt(t)'
      BY <3>5 DEF OwedAt
    <3>7. Tallied(calls[c]) = 0 /\ discovery.excluded \in Nat
      BY <1>1, DiscoveryHolds DEF Tallied
    <3>8. QED
      BY <3>3, <3>4, <3>6, <3>7, <2>2, <2>3
  <2>5. QED
    BY <1>1, <1>2, <1>3, <2>2, <2>3, <2>4, OnceMoves, DiscoveryHolds
<1>8. repeated' \in BOOLEAN
  BY <1>1 DEF DiscoveryInv, DiscoveryTypes
<1>9. QED
  BY <1>1, <1>2, <1>3, <1>6, <1>7, <1>8, CallMoves

\* One iteration of next_path.
LEMMA CallWalks ==
  ASSUME DiscoveryInv, NEW c \in Calls, Walk(c) PROVE DiscoveryInv'
<1>1. PICK call : call = calls[c]
  OBVIOUS
<1>2. /\ UNCHANGED <<tree, settings, touched, catalogue, discovery, repeated>>
      /\ call.pc = "walking" /\ calls[c].pc # "idle"
      /\ \/ /\ TraversalComplete(call.walk) \/ Cardinality(call.found) >= DiscoveryBatch
            /\ calls' = [calls EXCEPT ![c].pc = "upserting"] /\ UNCHANGED job
         \/ calls' = [calls EXCEPT ![c] = IdleCall] /\ FailIfHeld(c)
         \/ /\ ~TraversalComplete(call.walk) /\ FrameValid(Top(Entered(call.walk)))
            /\ UNCHANGED job /\ calls' = [calls EXCEPT ![c] = Walked(call)]
  BY <1>1, Zenon DEF Walk, Walked, Top
<1>3. call \in CallType /\ CallFits(call) /\ TreeFits /\ Standing(call.walk)
  BY <1>1, DiscoveryHolds
<1>4. repeated' \in BOOLEAN /\ job \in JobType /\ (job.checkpoint # NoCursor => job.checkpoint \in DOMAIN discovery.cursors)
  BY <1>2 DEF DiscoveryInv, DiscoveryTypes
<1>5. Owed' = Owed /\ \A t : OwedAt(t)' = OwedAt(t)
  BY <1>2, SameTree
<1>6. ~repeated => /\ job.lease = c /\ job.lease # NoCall /\ \A q \in Calls : q # c => calls[q].pc = "idle"
                   /\ ~discovery.complete /\ discovery.excluded + Tallied(call) = OwedAt(call.walk)
  BY <1>1, <1>2, SoleCall
<1>7. CASE /\ TraversalComplete(call.walk) \/ Cardinality(call.found) >= DiscoveryBatch
           /\ calls' = [calls EXCEPT ![c].pc = "upserting"] /\ UNCHANGED job
  <2>1. PICK next : next = [call EXCEPT !.pc = "upserting"]
    OBVIOUS
  <2>2. /\ calls' = [calls EXCEPT ![c] = next] /\ next \in CallType /\ next.pc = "upserting"
        /\ next.walk = call.walk /\ next.found = call.found /\ next.excluded = call.excluded
    BY <1>1, <1>3, <1>7, <2>1, DiscoveryHolds DEF CallType
  <2>3. TraversalComplete(call.walk) \/ call.found # {}
    <3>1. call.found = {} => Cardinality(call.found) = 0
      BY FS_EmptySet
    <3>2. QED
      BY <3>1, <1>7, DiscoveryAssumption
  <2>4. CallFits(next)
    BY <1>2, <1>3, <2>2, <2>3 DEF CallFits, Tallied
  <2>5. ~repeated' => CountedOnce'
    <3>1. SUFFICES ASSUME ~repeated PROVE CountedOnce'
      BY <1>2
    <3>2. Tallied(next) = Tallied(call)
      BY <2>2, <1>2 DEF Tallied
    <3>3. discovery'.excluded + Tallied(next) = OwedAt(next.walk)'
      BY <3>1, <3>2, <1>2, <1>5, <1>6, <2>2
    <3>4. QED
      BY <3>1, <3>3, <1>2, <1>6, <1>7, <2>2, OnceMoves, DiscoveryHolds
  <2>6. QED
    BY <1>2, <1>4, <1>7, <2>2, <2>4, <2>5, CallMoves
<1>8. CASE calls' = [calls EXCEPT ![c] = IdleCall] /\ FailIfHeld(c)
  <2>1. PICK next \in CallType : next = IdleCall
    BY IdleCallFits
  <2>2. CallFits(next) /\ next.pc = "idle"
    BY <2>1, IdleCallFits
  <2>3. /\ job' \in JobType /\ (job'.checkpoint # NoCursor => job'.checkpoint \in DOMAIN discovery.cursors)
        /\ job.lease = c => job'.status = "failed"
    BY <1>4, <1>8 DEF FailIfHeld, Fail, JobType
  <2>4. ~repeated' => CountedOnce'
    <3>1. SUFFICES ASSUME ~repeated PROVE CountedOnce'
      BY <1>2
    <3>2. QED
      BY <3>1, <1>2, <1>5, <1>6, <1>8, <2>1, <2>2, <2>3, OnceMoves, DiscoveryHolds
  <2>5. QED
    BY <1>2, <1>4, <1>8, <2>1, <2>2, <2>3, <2>4, CallMoves
<1>9. CASE /\ ~TraversalComplete(call.walk) /\ FrameValid(Top(Entered(call.walk)))
           /\ UNCHANGED job /\ calls' = [calls EXCEPT ![c] = Walked(call)]
  <2>1. PICK next : next = Walked(call)
    OBVIOUS
  <2>2. Strides(call, next)
    BY <1>3, <1>9, <2>1, WalkStrides
  <2>3. next.walk \in WalkType /\ next.found \in SUBSET Files /\ next.excluded \in Nat
    BY <1>3, <2>2, StandingType DEF Strides, CallType
  <2>4. next \in CallType /\ next.pc = "walking" /\ next.durable = call.durable
    <3>1. PICK walk \in WalkType, found \in SUBSET Files, excluded \in Nat :
            walk = next.walk /\ found = next.found /\ excluded = next.excluded
      BY <2>3
    <3>2. next = [call EXCEPT !.walk = walk, !.found = found, !.excluded = excluded]
      BY <2>2, <3>1, Zenon DEF Strides
    <3>3. QED
      BY <3>2, <1>2, <1>3 DEF CallType
  <2>5. discovery.excluded + Tallied(next) >= OwedAt(next.walk)
        /\ (discovery.excluded + Tallied(call) = OwedAt(call.walk) =>
              discovery.excluded + Tallied(next) = OwedAt(next.walk))
    <3>1. Tallied(next) = next.excluded /\ Tallied(call) = call.excluded
      BY <1>2, <2>4 DEF Tallied
    <3>2. /\ next.excluded + OwedAt(call.walk) = call.excluded + OwedAt(next.walk)
          /\ discovery.excluded + Tallied(call) >= OwedAt(call.walk)
      BY <2>2, <1>3 DEF Strides, CallFits
    <3>3. /\ OwedAt(call.walk) \in {0, 1} /\ OwedAt(next.walk) \in {0, 1} /\ discovery.excluded \in Nat
          /\ call.excluded \in Nat
      BY <1>1, DiscoveryHolds
    <3>4. QED
      BY <3>1, <3>2, <3>3, <2>3
  <2>6. CallFits(next)
    <3>1. Standing(next.walk) /\ \A n \in next.found : AdmissibleFile(n)
      BY <2>2, <1>3 DEF Strides, CallFits
    <3>2. \A n \in Behind(next.walk) :
            Due(n) => Catalogued(n) \/ (next.pc \in {"walking", "upserting"} /\ n \in next.found)
      BY <2>2, <2>4, <1>2, <1>3 DEF Strides, CallFits, Due
    <3>3. QED
      BY <3>1, <3>2, <2>4, <2>5 DEF CallFits
  <2>7. ~repeated' => CountedOnce'
    <3>1. SUFFICES ASSUME ~repeated PROVE CountedOnce'
      BY <1>2
    <3>2. discovery'.excluded + Tallied(next) = OwedAt(next.walk)'
      BY <3>1, <1>2, <1>5, <1>6, <2>5
    <3>3. QED
      BY <3>1, <3>2, <1>2, <1>6, <1>9, <2>1, <2>4, OnceMoves, DiscoveryHolds
  <2>8. QED
    BY <1>2, <1>4, <1>9, <2>1, <2>4, <2>6, <2>7, CallMoves
<1>10. QED
  BY <1>2, <1>7, <1>8, <1>9

LEMMA ResumedCall ==
  ASSUME DiscoveryInv, NEW walk \in WalkType, NEW durable \in Nat
  PROVE  [IdleCall EXCEPT !.pc = "walking", !.walk = walk, !.durable = durable]
            = [pc |-> "walking", walk |-> walk, found |-> {}, excluded |-> 0, durable |-> durable]
<1>1. IdleCall \in CallType /\ IdleCall.found = {} /\ IdleCall.excluded = 0
  BY IdleCallFits DEF IdleCall
<1>2. PICK one, two : /\ one = [IdleCall EXCEPT !.pc = "walking", !.walk = walk, !.durable = durable]
                      /\ two = [pc |-> "walking", walk |-> walk, found |-> {}, excluded |-> 0, durable |-> durable]
  OBVIOUS
<1>3. /\ one \in CallType /\ one.pc = "walking" /\ one.walk = walk /\ one.durable = durable
      /\ one.found = {} /\ one.excluded = 0
  BY <1>1, <1>2 DEF CallType
<1>4. /\ two \in CallType /\ two.pc = "walking" /\ two.walk = walk /\ two.durable = durable
      /\ two.found = {} /\ two.excluded = 0
  BY <1>2 DEF CallType
<1>5. one = two
  BY <1>3, <1>4 DEF CallType
<1>6. QED
  BY <1>2, <1>5

\* A worker begins, or begins again, from the checkpoint.
LEMMA CallBegins ==
  ASSUME DiscoveryInv, NEW c \in Calls, Begin(c) PROVE DiscoveryInv'
<1>1. /\ UNCHANGED <<tree, settings, catalogue, touched>>
      /\ job.status = "open" /\ calls[c].pc = "idle" /\ Restored(c)
      /\ discovery' = [discovery EXCEPT !.begun = TRUE] /\ repeated' = (repeated \/ job.lease # NoCall)
  BY DEF Begin
<1>2. /\ job \in JobType /\ discovery.complete \in BOOLEAN /\ discovery.excluded \in Nat
      /\ discovery = [begun |-> discovery.begun, complete |-> discovery.complete,
                      excluded |-> discovery.excluded, cursors |-> discovery.cursors]
      /\ calls \in [Calls -> CallType] /\ TreeFits
  BY DEF DiscoveryInv, DiscoveryTypes
<1>3. discovery' = [begun |-> TRUE, complete |-> discovery.complete,
                    excluded |-> discovery.excluded, cursors |-> discovery.cursors]
  BY <1>1, <1>2
<1>4. /\ discovery'.complete = discovery.complete /\ discovery'.excluded = discovery.excluded
      /\ discovery'.cursors = discovery.cursors
      /\ discovery' = [begun |-> discovery'.begun, complete |-> discovery'.complete,
                       excluded |-> discovery'.excluded, cursors |-> discovery'.cursors]
  BY <1>3
<1>5. Onward
  BY <1>1, <1>2, <1>4, TreeStays DEF Onward
<1>6. Owed' = Owed /\ \A t : OwedAt(t)' = OwedAt(t)
  BY <1>1, SameTree
<1>7. job.checkpoint # NoCursor => job.checkpoint \in DOMAIN discovery.cursors
  BY DEF DiscoveryInv
<1>8. ~repeated' => /\ \A q \in Calls : calls[q].pc = "idle"
                    /\ ~discovery.complete /\ discovery.excluded = OwedAt(Resumed)
  BY <1>1, DiscoveryAssumption DEF DiscoveryInv, CountedOnce, NoCall
<1>9. repeated' \in BOOLEAN
  BY <1>1 DEF DiscoveryInv, DiscoveryTypes
<1>10. CASE /\ calls' = [calls EXCEPT ![c] = [IdleCall EXCEPT !.pc = "walking", !.walk = Resumed, !.durable = job.checkpoint]]
            /\ job' = [job EXCEPT !.lease = c, !.attempts = @ + 1]
  <2>1. PICK walk : walk = Resumed
    OBVIOUS
  <2>2. CursorFits(walk)
    <3>1. CASE job.checkpoint = NoCursor
      <4>1. walk = AtRoot(1)
        BY <2>1, <3>1 DEF Resumed, Start, AtRoot
      <4>2. Standing(walk) /\ Behind(walk) = {} /\ OwedAt(walk) = 0
        BY <4>1, BehindPlaces, OwedPlaces DEF Standing
      <4>3. QED
        BY <4>2, <1>2 DEF CursorFits
    <3>2. CASE job.checkpoint # NoCursor
      BY <2>1, <3>2, <1>7 DEF Resumed, DiscoveryInv
    <3>3. QED
      BY <3>1, <3>2
  <2>3. PICK durable, next : /\ durable \in Nat /\ durable = job.checkpoint
                             /\ next = [pc |-> "walking", walk |-> walk, found |-> {}, excluded |-> 0, durable |-> durable]
    BY <1>2 DEF JobType
  <2>4. next \in CallType /\ walk \in WalkType
    <3>1. walk \in WalkType
      BY <2>2, StandingType DEF CursorFits
    <3>2. QED
      BY <2>3, <3>1 DEF CallType
  <2>5. calls' = [calls EXCEPT ![c] = next]
    <3>1. [IdleCall EXCEPT !.pc = "walking", !.walk = walk, !.durable = durable] = next
      BY <2>3, <2>4, ResumedCall
    <3>2. QED
      BY <1>10, <2>1, <2>3, <3>1, Zenon
  <2>6. CallFits(next)
    <3>1. Tallied(next) = 0 /\ next.walk = walk /\ next.found = {} /\ next.pc = "walking"
      BY <2>3 DEF Tallied
    <3>2. QED
      BY <3>1, <2>2, <1>2 DEF CallFits, CursorFits
  <2>7. CallFits(next)'
    BY <2>4, <2>6, <1>5, CallKept
  <2>8. /\ job' \in JobType /\ job'.checkpoint = job.checkpoint /\ job'.lease = c
    <3>1. PICK attempts \in Nat : attempts = job.attempts + 1
      BY <1>2 DEF JobType
    <3>2. job' = [job EXCEPT !.lease = c, !.attempts = attempts]
      BY <3>1, <1>10
    <3>3. QED
      BY <1>2, <3>2 DEF JobType
  <2>9. DiscoveryTypes'
    <3>1. calls' \in [Calls -> CallType] /\ catalogue' \in [Files -> {"absent", "discovered", "unsupported"}]
      BY <2>4, <2>5, <1>1, <1>2 DEF DiscoveryInv, DiscoveryTypes
    <3>2. QED
      BY <3>1, <2>8, <1>2, <1>4, <1>9 DEF DiscoveryTypes
  <2>10. ~repeated' => CountedOnce'
    <3>1. SUFFICES ASSUME ~repeated' PROVE CountedOnce'
      OBVIOUS
    <3>2. next.pc = "walking" /\ discovery'.excluded + Tallied(next) = OwedAt(next.walk)'
      <4>1. Tallied(next) = 0 /\ next.walk = walk /\ next.pc = "walking"
        BY <2>3 DEF Tallied
      <4>2. OwedAt(walk)' = discovery.excluded
        BY <3>1, <1>6, <1>8, <2>1
      <4>3. QED
        BY <4>1, <4>2, <1>2, <1>4
    <3>3. c # NoCall
      BY DiscoveryAssumption DEF NoCall
    <3>4. QED
      BY <3>1, <3>2, <3>3, <1>2, <1>4, <1>8, <2>4, <2>5, <2>8, OnceMoves
  <2>11. QED
    BY <1>1, <1>4, <1>5, <1>7, <2>4, <2>5, <2>7, <2>8, <2>9, <2>10, DiscoveryMoves
<1>11. CASE calls' = calls /\ Fail
  <2>1. PICK next \in CallType : next = calls[c]
    BY <1>2
  <2>2. calls' = [calls EXCEPT ![c] = next]
    BY <1>2, <1>11, <2>1
  <2>3. CallFits(next)'
    <3>1. CallFits(next)
      BY <2>1 DEF DiscoveryInv
    <3>2. QED
      BY <3>1, <1>5, CallKept
  <2>4. /\ job' \in JobType /\ job'.checkpoint = job.checkpoint /\ job'.lease = NoCall /\ job'.status = "failed"
    BY <1>2, <1>11 DEF JobType, Fail
  <2>5. DiscoveryTypes'
    <3>1. calls' \in [Calls -> CallType] /\ catalogue' \in [Files -> {"absent", "discovered", "unsupported"}]
      BY <1>11, <1>1, <1>2 DEF DiscoveryInv, DiscoveryTypes
    <3>2. QED
      BY <3>1, <2>4, <1>2, <1>4, <1>9 DEF DiscoveryTypes
  <2>6. ~repeated' => CountedOnce'
    <3>1. SUFFICES ASSUME ~repeated' PROVE CountedOnce'
      OBVIOUS
    <3>2. next.pc = "idle"
      BY <1>1, <2>1
    <3>3. QED
      BY <3>1, <3>2, <1>2, <1>4, <1>8, <2>2, <2>4, OnceMoves
  <2>7. QED
    BY <1>1, <1>4, <1>5, <1>7, <2>2, <2>3, <2>4, <2>5, <2>6, DiscoveryMoves
<1>12. QED
  <2>1. CASE job.checkpoint = NoCursor
    <3>1. /\ calls' = [calls EXCEPT ![c] = [IdleCall EXCEPT !.pc = "walking"]]
          /\ job' = [job EXCEPT !.lease = c, !.attempts = @ + 1]
      BY <1>1, <2>1 DEF Restored
    <3>2. [IdleCall EXCEPT !.pc = "walking"] = [IdleCall EXCEPT !.pc = "walking", !.walk = Resumed, !.durable = job.checkpoint]
      <4>1. IdleCall.walk = Resumed /\ IdleCall.durable = job.checkpoint
        BY <2>1 DEF Resumed, NoCursor, IdleCall
      <4>2. PICK walk, durable : walk = Resumed /\ durable = job.checkpoint
        OBVIOUS
      <4>3. [IdleCall EXCEPT !.pc = "walking"] = [IdleCall EXCEPT !.pc = "walking", !.walk = walk, !.durable = durable]
        BY <4>1, <4>2, IdleCallFits DEF CallType
      <4>4. QED
        BY <4>2, <4>3, Zenon
    <3>3. QED
      BY <3>1, <3>2, <1>10
  <2>2. CASE job.checkpoint # NoCursor
    <3>1. \/ /\ calls' = [calls EXCEPT ![c] =
                        [IdleCall EXCEPT !.pc = "walking", !.walk = discovery.cursors[job.checkpoint],
                                         !.durable = job.checkpoint]]
             /\ job' = [job EXCEPT !.lease = c, !.attempts = @ + 1]
          \/ calls' = calls /\ Fail
      BY <1>1, <2>2, Zenon DEF Restored
    <3>2. Resumed = discovery.cursors[job.checkpoint]
      BY <2>2 DEF Resumed
    <3>3. QED
      BY <3>1, <3>2, <1>10, <1>11
  <2>3. QED
    BY <2>1, <2>2

\* upsert_many writes a row for every file that was found, and only for admissible ones.
LEMMA FoundCatalogued ==
  ASSUME TreeFits, NEW found \in SUBSET Files, \A n \in found : AdmissibleFile(n),
         catalogue \in [Files -> {"absent", "discovered", "unsupported"}], catalogue' = Upserted(found)
  PROVE  /\ catalogue' \in [Files -> {"absent", "discovered", "unsupported"}]
         /\ \A x \in Files : catalogue[x] # "absent" => catalogue'[x] # "absent"
         /\ \A n \in found : catalogue'[Target(n)] # "absent"
         /\ \A x \in Files : catalogue'[x] # "absent" => catalogue[x] # "absent" \/ AdmissibleFile(x)
<1>1. \A n \in found : Candidate(n) \in {"discovered", "unsupported"} /\ Target(n) \in Files
                       /\ AdmissibleFile(Target(n))
  <2>1. SUFFICES ASSUME NEW n \in found
                 PROVE Candidate(n) \in {"discovered", "unsupported"} /\ Target(n) \in Files
                       /\ AdmissibleFile(Target(n))
    OBVIOUS
  <2>2. n \in Files /\ AdmissibleFile(n)
    OBVIOUS
  <2>3. Candidate(n) \in {"discovered", "unsupported"}
    BY <2>2 DEF AdmissibleFile, Candidate
  <2>4. Target(n) \in {n, "a"} /\ AdmissibleFile("a")
    BY Admissions DEF Target
  <2>5. QED
    BY <2>2, <2>3, <2>4 DEF Files
<1>2. ASSUME NEW x \in Files
      PROVE  \/ (\A n \in found : Target(n) # x) /\ catalogue'[x] = catalogue[x]
             \/ (\E n \in found : Target(n) = x) /\ catalogue'[x] \in {"discovered", "unsupported"}
  <2>1. PICK rows : rows = {n \in found : Target(n) = x}
    OBVIOUS
  <2>2. catalogue'[x] = IF rows = {} THEN catalogue[x] ELSE Candidate(CHOOSE n \in rows : TRUE)
    <3>1. catalogue'[x] = IF {n \in found : Target(n) = x} = {} THEN catalogue[x]
                          ELSE Candidate(CHOOSE m \in {n \in found : Target(n) = x} : TRUE)
      BY DEF Upserted
    <3>2. QED
      BY <2>1, <3>1, Zenon
  <2>3. CASE rows = {}
    BY <2>1, <2>2, <2>3
  <2>4. CASE rows # {}
    <3>1. PICK m : m = CHOOSE n \in rows : TRUE
      OBVIOUS
    <3>2. m \in rows
      BY <2>4, <3>1
    <3>3. m \in found /\ Target(m) = x /\ catalogue'[x] = Candidate(m)
      BY <2>1, <2>2, <2>4, <3>1, <3>2
    <3>4. QED
      BY <3>3, <1>1
  <2>5. QED
    BY <2>3, <2>4
<1>3. catalogue' \in [Files -> {"absent", "discovered", "unsupported"}]
  <2>1. catalogue' = [x \in Files |-> catalogue'[x]]
    BY DEF Upserted
  <2>2. \A x \in Files : catalogue'[x] \in {"absent", "discovered", "unsupported"}
    BY <1>2
  <2>3. QED
    BY <2>1, <2>2
<1>4. QED
  BY <1>1, <1>2, <1>3

LEMMA BatchUpserted ==
  ASSUME DiscoveryInv, NEW c \in Calls, UpsertMany(c) PROVE DiscoveryInv'
<1>1. PICK call : call = calls[c]
  OBVIOUS
<1>2. /\ UNCHANGED <<tree, settings, discovery, job, touched, repeated>>
      /\ call.pc = "upserting" /\ catalogue' = Upserted(call.found)
      /\ calls' = [calls EXCEPT ![c].pc = "counting"]
  BY <1>1 DEF UpsertMany
<1>3. call \in CallType /\ CallFits(call) /\ call.found \in SUBSET Files
  BY <1>1, DiscoveryHolds
<1>4. PICK next : next = [call EXCEPT !.pc = "counting"]
  OBVIOUS
<1>5. /\ calls' = [calls EXCEPT ![c] = next] /\ next \in CallType /\ next.pc = "counting" /\ next.durable = call.durable
      /\ next.walk = call.walk /\ next.found = call.found /\ next.excluded = call.excluded
  BY <1>1, <1>2, <1>3, <1>4, DiscoveryHolds DEF CallType
<1>6. /\ catalogue' \in [Files -> {"absent", "discovered", "unsupported"}]
      /\ \A x \in Files : catalogue[x] # "absent" => catalogue'[x] # "absent"
      /\ \A n \in call.found : catalogue'[Target(n)] # "absent"
      /\ \A x \in Files : catalogue'[x] # "absent" => catalogue[x] # "absent" \/ AdmissibleFile(x)
  <2>1. /\ TreeFits /\ catalogue \in [Files -> {"absent", "discovered", "unsupported"}]
        /\ \A n \in call.found : AdmissibleFile(n)
    BY <1>1, DiscoveryHolds DEF CallFits
  <2>2. QED
    BY <2>1, <1>2, <1>3, FoundCatalogued
<1>7. Onward
  BY <1>2, <1>6, TreeStays DEF DiscoveryInv, DiscoveryTypes, Onward
<1>8. Owed' = Owed /\ (\A t : OwedAt(t)' = OwedAt(t)) /\ \A n : Target(n)' = Target(n)
  BY <1>2, SameTree
<1>9. CallFits(call)'
  BY <1>3, <1>7, CallKept
<1>10. CallFits(next)'
  <2>1. \A n \in Behind(next.walk) : Due(n)' => Catalogued(n)'
    BY <1>5, <1>6, <1>8, <1>9 DEF CallFits, Catalogued
  <2>2. Tallied(next) = Tallied(call)
    BY <1>2, <1>5 DEF Tallied
  <2>3. QED
    BY <2>1, <2>2, <1>2, <1>5, <1>9 DEF CallFits
<1>11. DiscoveryTypes'
  <2>1. calls' \in [Calls -> CallType]
    BY <1>5, DiscoveryHolds
  <2>2. QED
    BY <2>1, <1>2, <1>6 DEF DiscoveryInv, DiscoveryTypes
<1>12. ~repeated' => CountedOnce'
  <2>1. SUFFICES ASSUME ~repeated PROVE CountedOnce'
    BY <1>2
  <2>2. /\ job.lease = c /\ job.lease # NoCall /\ \A q \in Calls : q # c => calls[q].pc = "idle"
        /\ ~discovery.complete /\ discovery.excluded + Tallied(call) = OwedAt(call.walk)
    BY <2>1, <1>1, <1>2, SoleCall
  <2>3. Tallied(next) = Tallied(call)
    BY <1>2, <1>5 DEF Tallied
  <2>4. discovery'.excluded + Tallied(next) = OwedAt(next.walk)'
    BY <1>2, <1>5, <1>8, <2>2, <2>3
  <2>5. QED
    BY <1>2, <1>5, <2>2, <2>4, OnceMoves, DiscoveryHolds
<1>13. /\ \A p \in DOMAIN discovery'.cursors : p \in DOMAIN discovery.cursors /\ discovery'.cursors[p] = discovery.cursors[p]
       /\ job'.checkpoint # NoCursor => job'.checkpoint \in DOMAIN discovery'.cursors
       /\ discovery'.complete => discovery.complete
  BY <1>2 DEF DiscoveryInv
<1>14. QED
  BY <1>5, <1>6, <1>7, <1>10, <1>11, <1>12, <1>13, DiscoveryMoves

\* add_excluded adds what the call counted to the run.
LEMMA ExcludedAdded ==
  ASSUME DiscoveryInv, NEW c \in Calls, AddExcluded(c) PROVE DiscoveryInv'
<1>1. PICK call : call = calls[c]
  OBVIOUS
<1>2. /\ UNCHANGED <<tree, settings, catalogue, job, touched, repeated>>
      /\ call.pc = "counting" /\ discovery' = [discovery EXCEPT !.excluded = @ + call.excluded]
      /\ calls' = [calls EXCEPT ![c].pc = "saving"]
  BY <1>1 DEF AddExcluded
<1>3. call \in CallType /\ CallFits(call) /\ call.excluded \in Nat
  BY <1>1, DiscoveryHolds
<1>4. PICK next : next = [call EXCEPT !.pc = "saving"]
  OBVIOUS
<1>5. /\ calls' = [calls EXCEPT ![c] = next] /\ next \in CallType /\ next.pc = "saving" /\ next.durable = call.durable
      /\ next.walk = call.walk /\ next.found = call.found /\ next.excluded = call.excluded
  BY <1>1, <1>2, <1>3, <1>4, DiscoveryHolds DEF CallType
<1>6. /\ discovery.complete \in BOOLEAN /\ discovery.excluded \in Nat
      /\ discovery = [begun |-> discovery.begun, complete |-> discovery.complete,
                      excluded |-> discovery.excluded, cursors |-> discovery.cursors]
  BY DEF DiscoveryInv, DiscoveryTypes
<1>7. PICK sum \in Nat : sum = discovery.excluded + call.excluded
  BY <1>3, <1>6
<1>8. discovery' = [begun |-> discovery.begun, complete |-> discovery.complete,
                    excluded |-> sum, cursors |-> discovery.cursors]
  BY <1>2, <1>6, <1>7
<1>9. /\ discovery'.complete = discovery.complete /\ discovery'.excluded = sum
      /\ discovery'.cursors = discovery.cursors
      /\ discovery' = [begun |-> discovery'.begun, complete |-> discovery'.complete,
                       excluded |-> discovery'.excluded, cursors |-> discovery'.cursors]
  BY <1>8
<1>10. sum >= discovery.excluded
  BY <1>3, <1>6, <1>7
<1>11. Onward
  BY <1>2, <1>6, <1>9, <1>10, TreeStays DEF DiscoveryInv, Onward
<1>12. Owed' = Owed /\ (\A t : OwedAt(t)' = OwedAt(t))
  BY <1>2, SameTree
<1>13. Tallied(call) = call.excluded /\ Tallied(next) = 0
  BY <1>2, <1>5 DEF Tallied
<1>14. CallFits(next)'
  <2>1. CallFits(call)'
    BY <1>3, <1>11, CallKept
  <2>2. discovery'.excluded + Tallied(next) >= OwedAt(next.walk)'
    <3>1. discovery.excluded + call.excluded >= OwedAt(call.walk)
      BY <1>3, <1>13 DEF CallFits
    <3>2. QED
      BY <3>1, <1>5, <1>7, <1>9, <1>12, <1>13
  <2>3. QED
    BY <2>1, <2>2, <1>2, <1>5 DEF CallFits
<1>15. DiscoveryTypes'
  <2>1. calls' \in [Calls -> CallType]
    BY <1>5, DiscoveryHolds
  <2>2. QED
    BY <2>1, <1>2, <1>6, <1>9 DEF DiscoveryInv, DiscoveryTypes
<1>16. ~repeated' => CountedOnce'
  <2>1. SUFFICES ASSUME ~repeated PROVE CountedOnce'
    BY <1>2
  <2>2. /\ job.lease = c /\ job.lease # NoCall /\ \A q \in Calls : q # c => calls[q].pc = "idle"
        /\ ~discovery.complete /\ discovery.excluded + Tallied(call) = OwedAt(call.walk)
    BY <2>1, <1>1, <1>2, SoleCall
  <2>3. discovery'.excluded + Tallied(next) = OwedAt(next.walk)'
    BY <1>5, <1>7, <1>9, <1>12, <1>13, <2>2
  <2>4. QED
    BY <1>2, <1>5, <1>9, <2>2, <2>3, OnceMoves, DiscoveryHolds
<1>17. /\ \A p \in DOMAIN discovery'.cursors : p \in DOMAIN discovery.cursors /\ discovery'.cursors[p] = discovery.cursors[p]
       /\ job'.checkpoint # NoCursor => job'.checkpoint \in DOMAIN discovery'.cursors
       /\ discovery'.complete => discovery.complete
  BY <1>2, <1>9 DEF DiscoveryInv
<1>18. \A x \in Files : catalogue'[x] # "absent" => catalogue[x] # "absent"
  BY <1>2
<1>19. QED
  BY <1>5, <1>11, <1>14, <1>15, <1>16, <1>17, <1>18, DiscoveryMoves

\* The cursor is saved, or the run is complete.
LEMMA ProgressSaved ==
  ASSUME DiscoveryInv, NEW c \in Calls, SaveProgress(c) PROVE DiscoveryInv'
<1>1. PICK call, processed : call = calls[c] /\ processed = call.durable + Cardinality(call.found)
  OBVIOUS
<1>2. /\ UNCHANGED <<tree, settings, catalogue, job, touched, repeated>>
      /\ call.pc = "saving" /\ calls' = [calls EXCEPT ![c].pc = "returning"]
      /\ discovery' = IF TraversalComplete(call.walk) THEN [discovery EXCEPT !.complete = TRUE]
                      ELSE [discovery EXCEPT !.cursors =
                              [p \in DOMAIN @ \cup {processed} |-> IF p = processed THEN call.walk ELSE @[p]]]
  BY <1>1, Zenon DEF SaveProgress, Processed
<1>3. call \in CallType /\ CallFits(call) /\ Standing(call.walk)
  BY <1>1, DiscoveryHolds
<1>4. PICK next : next = [call EXCEPT !.pc = "returning"]
  OBVIOUS
<1>5. /\ calls' = [calls EXCEPT ![c] = next] /\ next \in CallType /\ next.pc = "returning" /\ next.durable = call.durable
      /\ next.walk = call.walk /\ next.found = call.found /\ next.excluded = call.excluded
  BY <1>1, <1>2, <1>3, <1>4, DiscoveryHolds DEF CallType
<1>6. /\ discovery.complete \in BOOLEAN /\ discovery.excluded \in Nat
      /\ discovery = [begun |-> discovery.begun, complete |-> discovery.complete,
                      excluded |-> discovery.excluded, cursors |-> discovery.cursors]
  BY DEF DiscoveryInv, DiscoveryTypes
<1>7. PICK saved : saved = [p \in DOMAIN discovery.cursors \cup {processed} |->
                              IF p = processed THEN call.walk ELSE discovery.cursors[p]]
  OBVIOUS
<1>8. discovery' = IF TraversalComplete(call.walk)
                   THEN [begun |-> discovery.begun, complete |-> TRUE,
                         excluded |-> discovery.excluded, cursors |-> discovery.cursors]
                   ELSE [begun |-> discovery.begun, complete |-> discovery.complete,
                         excluded |-> discovery.excluded, cursors |-> saved]
  <2>1. CASE TraversalComplete(call.walk)
    <3>1. discovery' = [discovery EXCEPT !.complete = TRUE]
      BY <1>2, <2>1, Zenon
    <3>2. PICK yes : yes = TRUE
      OBVIOUS
    <3>3. discovery' = [begun |-> discovery.begun, complete |-> yes,
                        excluded |-> discovery.excluded, cursors |-> discovery.cursors]
      <4>1. discovery' = [discovery EXCEPT !.complete = yes]
        BY <3>1, <3>2, Zenon
      <4>2. QED
        BY <4>1, <1>6
    <3>4. QED
      BY <2>1, <3>2, <3>3, Zenon
  <2>2. CASE ~TraversalComplete(call.walk)
    <3>1. discovery' = [discovery EXCEPT !.cursors = saved]
      BY <1>2, <1>7, <2>2, Zenon
    <3>2. QED
      BY <1>6, <2>2, <3>1
  <2>3. QED
    BY <2>1, <2>2
<1>9. /\ discovery'.excluded = discovery.excluded
      /\ discovery'.complete = (discovery.complete \/ TraversalComplete(call.walk))
      /\ TraversalComplete(call.walk) => discovery'.cursors = discovery.cursors
      /\ ~TraversalComplete(call.walk) => discovery'.cursors = saved
      /\ discovery' = [begun |-> discovery'.begun, complete |-> discovery'.complete,
                       excluded |-> discovery'.excluded, cursors |-> discovery'.cursors]
  <2>1. CASE TraversalComplete(call.walk)
    BY <1>6, <1>8, <2>1
  <2>2. CASE ~TraversalComplete(call.walk)
    BY <1>6, <1>8, <2>2
  <2>3. QED
    BY <2>1, <2>2
<1>10. /\ DOMAIN discovery.cursors \subseteq DOMAIN discovery'.cursors
       /\ ~TraversalComplete(call.walk) =>
             processed \in DOMAIN discovery'.cursors /\ discovery'.cursors[processed] = call.walk
       /\ \A p \in DOMAIN discovery'.cursors :
            \/ p \in DOMAIN discovery.cursors /\ discovery'.cursors[p] = discovery.cursors[p]
            \/ discovery'.cursors[p] = next.walk
  BY <1>5, <1>7, <1>9
<1>11. Onward
  <2>1. TreeFits /\ TreeFits'
    BY <1>2, TreeStays, DiscoveryHolds
  <2>2. discovery.complete => discovery'.complete
    BY <1>9
  <2>3. QED
    BY <1>2, <1>6, <1>9, <1>10, <2>1, <2>2 DEF Onward
<1>12. Owed' = Owed /\ (\A t : OwedAt(t)' = OwedAt(t))
  BY <1>2, SameTree
<1>13. Tallied(call) = 0 /\ Tallied(next) = 0
  BY <1>2, <1>5 DEF Tallied
<1>14. CallFits(call)'
  BY <1>3, <1>11, CallKept
<1>15. CallFits(next)'
  <2>1. next.pc = "returning" =>
          IF TraversalComplete(next.walk) THEN discovery'.complete
          ELSE next.durable + Cardinality(next.found) \in DOMAIN discovery'.cursors
    BY <1>1, <1>5, <1>9, <1>10
  <2>2. QED
    BY <2>1, <1>2, <1>5, <1>13, <1>14 DEF CallFits
<1>16. CursorFits(next.walk)'
  <2>1. discovery'.excluded >= OwedAt(next.walk)'
    <3>1. discovery'.excluded + Tallied(call) >= OwedAt(next.walk)'
      BY <1>5, <1>14 DEF CallFits
    <3>2. discovery'.excluded \in Nat
      BY <1>6, <1>9
    <3>3. QED
      BY <3>1, <3>2, <1>13
  <2>2. QED
    BY <2>1, <1>2, <1>5, <1>14 DEF CallFits, CursorFits
<1>17. DiscoveryTypes'
  <2>1. calls' \in [Calls -> CallType]
    BY <1>5, DiscoveryHolds
  <2>2. discovery'.complete \in BOOLEAN
    BY <1>6, <1>9
  <2>3. QED
    BY <2>1, <2>2, <1>2, <1>6, <1>9 DEF DiscoveryInv, DiscoveryTypes
<1>18. ~repeated' => CountedOnce'
  <2>1. SUFFICES ASSUME ~repeated PROVE CountedOnce'
    BY <1>2
  <2>2. /\ job.lease = c /\ job.lease # NoCall /\ \A q \in Calls : q # c => calls[q].pc = "idle"
        /\ ~discovery.complete /\ discovery.excluded + Tallied(call) = OwedAt(call.walk)
    BY <2>1, <1>1, <1>2, SoleCall
  <2>3. discovery'.excluded + Tallied(next) = OwedAt(next.walk)'
    BY <1>5, <1>9, <1>12, <1>13, <2>2
  <2>4. discovery'.complete => TraversalComplete(next.walk) /\ discovery'.excluded = Owed'
    <3>1. TraversalComplete(call.walk) => OwedAt(call.walk) = Owed
      BY <1>3, StandingType, OwedPlaces
    <3>2. QED
      BY <3>1, <1>5, <1>6, <1>9, <1>12, <1>13, <2>2
  <2>5. ~discovery'.complete => discovery'.cursors[next.durable + Cardinality(next.found)] = next.walk
    BY <1>1, <1>5, <1>9, <1>10
  <2>6. QED
    BY <1>2, <1>5, <2>2, <2>3, <2>4, <2>5, OnceMoves, DiscoveryHolds, ZenonT(60)
<1>19. discovery'.complete => \/ discovery.complete
                              \/ (\A n \in Files : Due(n)' => Catalogued(n)') /\ discovery'.excluded >= Owed
  <2>1. SUFFICES ASSUME TraversalComplete(call.walk)
                 PROVE  (\A n \in Files : Due(n)' => Catalogued(n)') /\ discovery'.excluded >= Owed
    BY <1>9
  <2>2. call.walk = AtRoot(3)
    BY <2>1, <1>3, StandingType
  <2>3. Behind(call.walk) = Files /\ OwedAt(call.walk) = Owed
    BY <2>2, BehindPlaces, OwedPlaces
  <2>4. QED
    BY <2>3, <1>5, <1>12, <1>16 DEF CursorFits
<1>20. job'.checkpoint # NoCursor => job'.checkpoint \in DOMAIN discovery'.cursors
  BY <1>2, <1>10 DEF DiscoveryInv
<1>21. \A x \in Files : catalogue'[x] # "absent" => catalogue[x] # "absent"
  BY <1>2
<1>22. QED
  BY <1>5, <1>10, <1>11, <1>15, <1>16, <1>17, <1>18, <1>19, <1>20, <1>21, DiscoveryMoves

\* Somebody adds or removes the file "b".
LEMMA TreeChanged ==
  ASSUME DiscoveryInv, ChangeTree("b") PROVE DiscoveryInv'
<1>1. /\ UNCHANGED <<settings, catalogue, discovery, job, calls, repeated>>
      /\ tree' = [tree EXCEPT !.present = IF "b" \in @ THEN @ \ {"b"} ELSE @ \cup {"b"}, !.stamp["d"] = @ + 1]
      /\ touched' = touched \cup {"b"}
  BY TreeNames DEF ChangeTree
<1>2. TreeFits
  BY DEF DiscoveryInv
<1>3. PICK present, stamp : /\ present = (IF "b" \in tree.present THEN tree.present \ {"b"} ELSE tree.present \cup {"b"})
                            /\ stamp = [tree.stamp EXCEPT !["d"] = tree.stamp["d"] + 1]
  OBVIOUS
<1>4. tree' = [odd |-> tree.odd, present |-> present, stamp |-> stamp]
  BY <1>1, <1>2, <1>3 DEF TreeFits
<1>5. tree'.odd = tree.odd /\ tree'.present = present /\ tree'.stamp = stamp
  BY <1>4
<1>6. present \in {Nodes, Nodes \ {"b"}} /\ \A n \in Files \ {"b"} : n \in present <=> n \in tree.present
  <2>1. "b" \in Nodes
    BY DEF Nodes, Files
  <2>2. QED
    BY <1>2, <1>3, <2>1 DEF TreeFits
<1>7. /\ stamp \in [Directories -> Nat] /\ stamp["r"] = 0 /\ stamp["s"] = 0 /\ stamp["d"] > tree.stamp["d"]
  <2>1. tree.stamp \in [Directories -> Nat] /\ tree.stamp["d"] \in Nat /\ tree.stamp["r"] = 0 /\ tree.stamp["s"] = 0
    BY <1>2, TreeNames DEF TreeFits
  <2>2. tree.stamp["d"] + 1 \in Nat /\ tree.stamp["d"] + 1 > tree.stamp["d"]
    BY <2>1
  <2>3. stamp["d"] = tree.stamp["d"] + 1 /\ stamp["r"] = tree.stamp["r"] /\ stamp["s"] = tree.stamp["s"]
    BY <1>3, <2>1, TreeNames
  <2>4. stamp \in [Directories -> Nat]
    BY <1>3, <2>1, <2>2
  <2>5. QED
    BY <2>1, <2>2, <2>3, <2>4
<1>8. TreeFits'
  BY <1>1, <1>2, <1>4, <1>5, <1>6, <1>7 DEF TreeFits
<1>9. Onward
  <2>1. /\ discovery.excluded \in Nat /\ discovery' = discovery /\ catalogue' = catalogue
        /\ discovery.excluded >= discovery.excluded
    BY <1>1 DEF DiscoveryInv, DiscoveryTypes
  <2>2. /\ tree'.stamp["d"] > tree.stamp["d"] /\ touched' = touched \cup {"b"}
        /\ \A n \in Files \ {"b"} : n \in tree'.present <=> n \in tree.present
    BY <1>1, <1>5, <1>6, <1>7
  <2>3. QED
    BY <1>1, <1>2, <1>5, <1>8, <2>1, <2>2 DEF Onward
<1>10. PICK c \in Calls : TRUE
  BY DiscoveryAssumption
<1>11. PICK next \in CallType : next = calls[c]
  BY <1>10, DiscoveryHolds
<1>12. calls' = [calls EXCEPT ![c] = next] /\ CallFits(next)
  BY <1>1, <1>10, <1>11, DiscoveryHolds
<1>13. CallFits(next)'
  BY <1>9, <1>12, CallKept
<1>14. ~repeated' => CountedOnce'
  <2>1. SUFFICES ASSUME ~repeated PROVE CountedOnce'
    BY <1>1
  <2>2. Owed' = Owed /\ \A t : OwedAt(t)' = OwedAt(t)
    BY <1>1, <1>5, SameTree
  <2>3. CountedOnce
    BY <2>1 DEF DiscoveryInv
  <2>4. Resumed' = Resumed
    BY <1>1 DEF Resumed
  <2>5. \A q \in Calls : Tallied(calls[q])' = Tallied(calls[q]) /\ OwedAt(calls[q].walk)' = OwedAt(calls[q].walk)
    BY <1>1, <2>2 DEF Tallied, OwedAt
  <2>6. OwedAt(Resumed)' = OwedAt(Resumed)
    BY <2>2, <2>4 DEF OwedAt
  <2>7. QED
    BY <1>1, <2>2, <2>3, <2>5, <2>6 DEF CountedOnce
<1>15. DiscoveryTypes'
  BY <1>1 DEF DiscoveryInv, DiscoveryTypes
<1>16. /\ \A p \in DOMAIN discovery'.cursors : p \in DOMAIN discovery.cursors /\ discovery'.cursors[p] = discovery.cursors[p]
       /\ job'.checkpoint # NoCursor => job'.checkpoint \in DOMAIN discovery'.cursors
       /\ discovery'.complete => discovery.complete
       /\ \A x \in Files : catalogue'[x] # "absent" => catalogue[x] # "absent"
  BY <1>1 DEF DiscoveryInv
<1>17. QED
  BY <1>9, <1>10, <1>12, <1>13, <1>14, <1>15, <1>16, DiscoveryMoves

LEMMA DiscoveryInitInv == DiscoveryInit => DiscoveryInv
<1> SUFFICES ASSUME DiscoveryInit PROVE DiscoveryInv
  OBVIOUS
<1>1. PICK odd \in OddTrees, missing \in {{}, {"b"}} :
        tree = [odd |-> odd, present |-> Nodes \ missing, stamp |-> [d \in Directories |-> 0]]
  BY DEF DiscoveryInit
<1>2. TreeFits
  <2>1. tree.odd = odd /\ tree.present = Nodes \ missing /\ tree.stamp = [d \in Directories |-> 0]
    BY <1>1
  <2>2. tree.present \in {Nodes, Nodes \ {"b"}}
    BY <2>1
  <2>3. tree.stamp \in [Directories -> Nat] /\ tree.stamp["r"] = 0 /\ tree.stamp["s"] = 0
    BY <2>1, TreeNames
  <2>4. settings \in Configurations
    BY DEF DiscoveryInit
  <2>5. QED
    BY <1>1, <2>1, <2>2, <2>3, <2>4 DEF TreeFits
<1>3. PICK idle : idle = IdleCall
  OBVIOUS
<1>4. idle = [pc |-> "idle", walk |-> AtRoot(1), found |-> {}, excluded |-> 0, durable |-> 0]
  BY <1>3 DEF IdleCall, Start, AtRoot
<1>5. Standing(AtRoot(1)) /\ Behind(AtRoot(1)) = {} /\ OwedAt(AtRoot(1)) = 0 /\ AtRoot(1) \in WalkType
  <2>1. Standing(AtRoot(1)) /\ Behind(AtRoot(1)) = {} /\ OwedAt(AtRoot(1)) = 0
    BY BehindPlaces, OwedPlaces DEF Standing
  <2>2. QED
    BY <2>1, StandingType
<1>6. /\ discovery = [begun |-> FALSE, complete |-> FALSE, excluded |-> 0, cursors |-> <<>>]
      /\ job = [checkpoint |-> NoCursor, lease |-> NoCall, status |-> "open", attempts |-> 0]
      /\ calls = [c \in Calls |-> idle] /\ catalogue = [x \in Files |-> "absent"] /\ repeated = FALSE
  BY <1>3 DEF DiscoveryInit
<1>7. /\ discovery.complete = FALSE /\ discovery.excluded = 0 /\ discovery.cursors = <<>>
      /\ DOMAIN discovery.cursors = {} /\ job.checkpoint = NoCursor
  BY <1>6
<1>8. idle \in CallType /\ CallFits(idle)
  <2>1. idle \in CallType
    BY <1>4, <1>5 DEF CallType
  <2>2. Tallied(idle) = 0 /\ idle.walk = AtRoot(1) /\ idle.found = {} /\ idle.pc = "idle"
    BY <1>4 DEF Tallied
  <2>3. QED
    BY <2>1, <2>2, <1>5, <1>7 DEF CallFits
<1>9. DiscoveryTypes
  <2>1. job \in JobType
    BY <1>6 DEF JobType, NoCursor
  <2>2. discovery = [begun |-> discovery.begun, complete |-> discovery.complete,
                     excluded |-> discovery.excluded, cursors |-> discovery.cursors]
    BY <1>6
  <2>3. QED
    BY <1>6, <1>7, <1>8, <2>1, <2>2 DEF DiscoveryTypes
<1>10. CountedOnce
  <2>1. Resumed = AtRoot(1)
    BY <1>7 DEF Resumed, Start, AtRoot
  <2>2. \A c \in Calls : calls[c].pc = "idle"
    BY <1>4, <1>6
  <2>3. QED
    BY <1>5, <1>7, <2>1, <2>2 DEF CountedOnce
<1>11. QED
  BY <1>2, <1>6, <1>7, <1>8, <1>9, <1>10 DEF DiscoveryInv

LEMMA DiscoveryRests == DiscoveryInv /\ UNCHANGED discoveryVars => DiscoveryInv'
<1> SUFFICES ASSUME DiscoveryInv, UNCHANGED discoveryVars PROVE DiscoveryInv'
  OBVIOUS
<1>1. UNCHANGED <<tree, settings, catalogue, discovery, job, calls, touched, repeated>>
  BY DEF discoveryVars
<1>2. PICK c \in Calls : TRUE
  BY DiscoveryAssumption
<1>3. PICK next \in CallType : next = calls[c]
  BY <1>2, DiscoveryHolds
<1>4. calls' = [calls EXCEPT ![c] = next] /\ CallFits(next)
  BY <1>1, <1>2, <1>3, DiscoveryHolds
<1>5. ~repeated' => CountedOnce'
  <2>1. SUFFICES ASSUME ~repeated PROVE CountedOnce'
    BY <1>1
  <2>2. Owed' = Owed /\ \A t : OwedAt(t)' = OwedAt(t)
    BY <1>1, SameTree
  <2>3. CountedOnce
    BY <2>1 DEF DiscoveryInv
  <2>4. Resumed' = Resumed
    BY <1>1 DEF Resumed
  <2>5. \A q \in Calls : Tallied(calls[q])' = Tallied(calls[q]) /\ OwedAt(calls[q].walk)' = OwedAt(calls[q].walk)
    BY <1>1, <2>2 DEF Tallied, OwedAt
  <2>6. OwedAt(Resumed)' = OwedAt(Resumed)
    BY <2>2, <2>4 DEF OwedAt
  <2>7. QED
    BY <1>1, <2>2, <2>3, <2>5, <2>6 DEF CountedOnce
<1>6. /\ job' \in JobType /\ (job'.checkpoint # NoCursor => job'.checkpoint \in DOMAIN discovery.cursors)
      /\ repeated' \in BOOLEAN
  BY <1>1 DEF DiscoveryInv, DiscoveryTypes
<1>7. QED
  BY <1>1, <1>2, <1>4, <1>5, <1>6, CallMoves

LEMMA DiscoveryStep == DiscoveryInv /\ [DiscoveryNext]_discoveryVars => DiscoveryInv'
  BY CallBegins, CallWalks, BatchUpserted, ExcludedAdded, ProgressSaved, CallReturns, CallDies, TreeChanged,
     DiscoveryRests DEF DiscoveryNext

\* What the invariant says to a reader of the catalogue.
LEMMA DiscoveryPromises == DiscoveryInv => DiscoveryTypeOK /\ DiscoveryComplete /\ ExclusionsCounted
<1> SUFFICES ASSUME DiscoveryInv PROVE DiscoveryTypeOK /\ DiscoveryComplete /\ ExclusionsCounted
  OBVIOUS
<1>1. DiscoveryTypeOK
  <2>1. \A c \in Calls : calls[c].walk.root \in 1 .. Len(Roots) + 1
    <3>1. Len(Roots) + 1 = 3
      BY DEF Roots
    <3>2. \A c \in Calls : calls[c].walk.root \in 1 .. 3
      BY StandingType DEF DiscoveryInv, CallFits
    <3>3. QED
      BY <3>1, <3>2
  <2>2. QED
    BY <2>1 DEF DiscoveryInv, DiscoveryTypes, TreeFits, JobType, DiscoveryTypeOK
<1>2. DiscoveryComplete
  BY DEF DiscoveryInv, DiscoveryComplete, Due, Catalogued
<1>3. ExclusionsCounted
  <2>1. Excluded = Owed
    BY OwedExclusions DEF DiscoveryInv
  <2>2. QED
    BY <2>1 DEF DiscoveryInv, CountedOnce, ExclusionsCounted
<1>4. QED
  BY <1>1, <1>2, <1>3

DiscoverySpec == DiscoveryInit /\ [][DiscoveryNext]_discoveryVars

\* When a discovery run is complete, every admissible file that stayed in place has its
\* row, no row is of a file that is not admitted, and the exclusions are all counted, once
\* each unless a call was repeated (discover, add_excluded, complete_run).
THEOREM DiscoveryStands == DiscoverySpec => [](DiscoveryTypeOK /\ DiscoveryComplete /\ ExclusionsCounted)
<1>1. QED
  BY DiscoveryInitInv, DiscoveryStep, DiscoveryPromises, PTL DEF DiscoverySpec
=============================================================================
