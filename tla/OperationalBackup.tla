-------------------------- MODULE OperationalBackup --------------------------
(***************************************************************************)
(* Backup and restore of operational files                                 *)
(* (src/src/edn/intelligence/backup.py).                                   *)
(*                                                                         *)
(* A backup copies files that their owners go on writing, one after the    *)
(* other, and publishes a manifest of their digests as its last step; a    *)
(* restore verifies a backup, copies it and publishes the same manifest.   *)
(* Processes overlap, fail and die between any two steps, and the files of *)
(* a backup may be damaged at any time.                                    *)
(*                                                                         *)
(* Abstractions: a file's content is the pair of its versions that the two *)
(* halves of a copy saw, a digest is the content itself; a request is what *)
(* the checks of create tell apart.  SQLite's backup API is external.      *)
(***************************************************************************)
EXTENDS Naturals, FiniteSets

CONSTANTS
    BackupProcesses, \* processes that may be under way together
    MaxWrites        \* bound: changes of the operational files

ASSUME BackupAssumption ==
    /\ BackupProcesses # {}
    /\ MaxWrites \in Nat

VARIABLES
    live,            \* the operational files: component -> kind and version
    dirs,            \* destination directories: their files and manifest
    backupProcs      \* what each process holds in memory

backupVars == <<live, dirs, backupProcs>>

BackupItems == 1 .. 2
Destinations == {"backup", "restored"}

\* What a copy holds: the kind of the file, and the versions its halves come from.
Content(kind, head, rest) == [kind |-> kind, head |-> head, rest |-> rest]
NoContent == Content("missing", 0, 0)
Damaged == Content("damaged", 0, 0)

NoFiles == [c \in BackupItems |-> NoContent]
NoManifest == NoFiles
NoDir == [exists |-> FALSE, files |-> NoFiles, manifest |-> NoManifest]

IdleProc == [pc |-> "idle", snapshot |-> [c \in BackupItems |-> FALSE],
             to |-> "backup", at |-> 1, header |-> [kind |-> "plain", version |-> 0],
             manifest |-> NoFiles]

Step(p, new) == backupProcs' = [backupProcs EXCEPT ![p] = new]
Abandon(p) == Step(p, IdleProc)

-----------------------------------------------------------------------------
\* create: names, paths, links and prohibited parts are checked before anything is
\* written, and a component is a SQLite database exactly if it is to be snapshotted.
CreateAdmits(request) ==
    /\ request.names = "portable_unique_permitted"
    /\ request.paths = "regular_unlinked_permitted"
    /\ \A c \in BackupItems : request.snapshot[c] <=> live[c].kind = "sqlite"

CreateRequests ==
    [names : {"portable_unique_permitted", "refused"},
     paths : {"regular_unlinked_permitted", "refused"},
     snapshot : [BackupItems -> BOOLEAN]]

CheckCreate(p, request) ==
    /\ backupProcs[p].pc = "idle" /\ ~dirs["backup"].exists /\ CreateAdmits(request)
    /\ Step(p, [IdleProc EXCEPT !.pc = "mkdir", !.snapshot = request.snapshot])
    /\ UNCHANGED <<live, dirs>>

\* destination.mkdir: of two that saw no destination one fails.
MakeDirectory(p) ==
    LET proc == backupProcs[p]
    IN /\ proc.pc \in {"mkdir", "remkdir"}
       /\ IF dirs[proc.to].exists
          THEN Abandon(p) /\ UNCHANGED dirs
          ELSE /\ dirs' = [dirs EXCEPT ![proc.to].exists = TRUE]
               /\ Step(p, [proc EXCEPT !.pc = IF @ = "mkdir" THEN "copying" ELSE "restoring",
                                       !.at = 1])
       /\ UNCHANGED live

Recorded(proc, content) ==
    [proc EXCEPT !.manifest[proc.at] = content, !.at = @ + 1,
                 !.pc = IF proc.at = Cardinality(BackupItems) THEN "publishing" ELSE "copying"]

\* A mutant: the copy trusts the kind that create has checked.
CopyHeaderUnchecked(p) ==
    LET proc == backupProcs[p]
    IN /\ proc.pc = "copying" /\ ~proc.snapshot[proc.at]
       /\ Step(p, [proc EXCEPT !.pc = "copying_rest", !.header = live[proc.at]])
       /\ UNCHANGED <<live, dirs>>

\* _copy_exclusive opens the file and reads its header: the kind is checked again.
CopyHeader(p) ==
    LET proc == backupProcs[p]
    IN /\ proc.pc = "copying" /\ ~proc.snapshot[proc.at]
       /\ IF live[proc.at].kind = "sqlite" THEN Abandon(p)
          ELSE Step(p, [proc EXCEPT !.pc = "copying_rest", !.header = live[proc.at]])
       /\ UNCHANGED <<live, dirs>>

\* The rest of the open file, and the digest of the copy: a file written meanwhile is
\* torn; one that was replaced is read to its end as it was.
CopyRest(p) ==
    LET proc == backupProcs[p]
        now == live[proc.at]
        rest == IF now.kind = proc.header.kind THEN now.version ELSE proc.header.version
        content == Content(proc.header.kind, proc.header.version, rest)
    IN /\ proc.pc = "copying_rest"
       /\ dirs' = [dirs EXCEPT ![proc.to].files[proc.at] = content]
       /\ Step(p, Recorded(proc, content))
       /\ UNCHANGED live

\* _sqlite_snapshot, a consistent version of a database, or a failure: not a database
\* any more, the time bound, the integrity check.
SnapshotDatabase(p) ==
    LET proc == backupProcs[p]
        now == live[proc.at]
        content == Content("sqlite", now.version, now.version)
    IN /\ proc.pc = "copying" /\ proc.snapshot[proc.at]
       /\ IF now.kind # "sqlite" THEN Abandon(p) /\ UNCHANGED dirs
          ELSE /\ dirs' = [dirs EXCEPT ![proc.to].files[proc.at] = content]
               /\ Step(p, Recorded(proc, content))
       /\ UNCHANGED live

\* _publish_manifest: the hard link is the one visible step, and refuses a manifest
\* that is there.
PublishManifest(p) ==
    LET proc == backupProcs[p]
    IN /\ proc.pc = "publishing"
       /\ dirs' = IF dirs[proc.to].manifest # NoManifest THEN dirs
                  ELSE [dirs EXCEPT ![proc.to].manifest = proc.manifest]
       /\ Abandon(p)
       /\ UNCHANGED live

-----------------------------------------------------------------------------
\* restore: verify reads the manifest, then compares file after file.
BeginRestore(p) ==
    /\ backupProcs[p].pc = "idle" /\ dirs["backup"].manifest # NoManifest
    /\ Step(p, [IdleProc EXCEPT !.pc = "verifying", !.to = "restored",
                                !.manifest = dirs["backup"].manifest])
    /\ UNCHANGED <<live, dirs>>

Intact(proc, d) == dirs[d].files[proc.at] = proc.manifest[proc.at]

VerifyFile(p) ==
    LET proc == backupProcs[p]
    IN /\ proc.pc = "verifying"
       /\ IF ~Intact(proc, "backup") THEN Abandon(p)
          ELSE IF proc.at < Cardinality(BackupItems) THEN Step(p, [proc EXCEPT !.at = @ + 1])
          ELSE IF dirs[proc.to].exists THEN Abandon(p)
          ELSE Step(p, [proc EXCEPT !.pc = "remkdir"])
       /\ UNCHANGED <<live, dirs>>

\* _copy_exclusive from the backup; a missing file is an exception.
RestoreFile(p) ==
    LET proc == backupProcs[p]
        content == dirs["backup"].files[proc.at]
    IN /\ proc.pc = "restoring"
       /\ IF content = NoContent THEN Abandon(p) /\ UNCHANGED dirs
          ELSE /\ dirs' = [dirs EXCEPT ![proc.to].files[proc.at] = content]
               /\ Step(p, [proc EXCEPT !.pc = "checking"])
       /\ UNCHANGED live

\* After the copy its digest is compared with the manifest's.
CheckCopy(p) ==
    LET proc == backupProcs[p]
    IN /\ proc.pc = "checking"
       /\ IF ~Intact(proc, proc.to) THEN Abandon(p)
          ELSE Step(p, [proc EXCEPT !.at = @ + 1,
                   !.pc = IF proc.at = Cardinality(BackupItems) THEN "publishing" ELSE "restoring"])
       /\ UNCHANGED <<live, dirs>>

-----------------------------------------------------------------------------
\* An exception at any step, or the death of the process: the directory stays.
FailBackup(p) ==
    /\ backupProcs[p].pc # "idle"
    /\ Abandon(p)
    /\ UNCHANGED <<live, dirs>>

Writes == live[1].version + live[2].version

\* The owner of an operational file writes it in place.
WriteLive(c) ==
    /\ Writes < MaxWrites
    /\ live' = [live EXCEPT ![c].version = @ + 1]
    /\ UNCHANGED <<dirs, backupProcs>>

\* The owner replaces it by a file of the other kind.
ReplaceLive(c) ==
    /\ Writes < MaxWrites
    /\ live' = [live EXCEPT ![c] = [kind |-> IF @.kind = "plain" THEN "sqlite" ELSE "plain",
                                    version |-> @.version + 1]]
    /\ UNCHANGED <<dirs, backupProcs>>

\* A file of a finished backup is damaged or lost (bound: one).
Damage(c) ==
    /\ dirs["backup"].manifest # NoManifest
    /\ \A i \in BackupItems : dirs["backup"].files[i] \notin {Damaged, NoContent}
    /\ \E content \in {Damaged, NoContent} : dirs' = [dirs EXCEPT !["backup"].files[c] = content]
    /\ UNCHANGED <<live, backupProcs>>

BackupInit ==
    /\ live = [c \in BackupItems |-> [kind |-> IF c = 1 THEN "plain" ELSE "sqlite", version |-> 0]]
    /\ dirs = [d \in Destinations |-> NoDir]
    /\ backupProcs = [p \in BackupProcesses |-> IdleProc]

BackupNext ==
    \/ \E p \in BackupProcesses :
          \/ \E request \in CreateRequests : CheckCreate(p, request)
          \/ BeginRestore(p) \/ MakeDirectory(p) \/ CopyHeader(p) \/ CopyRest(p) \/ SnapshotDatabase(p)
          \/ PublishManifest(p) \/ VerifyFile(p) \/ RestoreFile(p) \/ CheckCopy(p)
          \/ FailBackup(p)
    \/ \E c \in BackupItems : WriteLive(c) \/ ReplaceLive(c) \/ Damage(c)

-----------------------------------------------------------------------------
\* Types of the backup directories and processes.
BackupTypeOK ==
    LET contents == [kind : {"plain", "sqlite", "damaged", "missing"},
                     head : 0 .. MaxWrites, rest : 0 .. MaxWrites]
    IN /\ live \in [BackupItems -> [kind : {"plain", "sqlite"}, version : 0 .. MaxWrites]]
       /\ dirs \in [Destinations -> [exists : BOOLEAN, files : [BackupItems -> contents],
                                      manifest : [BackupItems -> contents]]]
       /\ \A p \in BackupProcesses : backupProcs[p].manifest \in [BackupItems -> contents]

\* A manifest stands only on whole work: every file a backup's manifest lists was
\* copied and is as recorded unless it was damaged since; a database among them is one
\* consistent version, though its owner went on writing; and a restored directory with
\* a manifest holds exactly what the backup recorded, though the backup may have been
\* damaged between its verification and its copy (create, verify, restore).
ManifestWhole ==
    /\ \A d \in Destinations : dirs[d].manifest # NoManifest =>
         \A c \in BackupItems :
            /\ dirs[d].manifest[c].kind \in {"plain", "sqlite"}
            /\ dirs[d].manifest[c].kind = "sqlite" =>
                 dirs[d].manifest[c].head = dirs[d].manifest[c].rest
            /\ dirs[d].files[c] \in {dirs[d].manifest[c]} \cup
                 (IF d = "backup" THEN {Damaged, NoContent} ELSE {})
    /\ dirs["restored"].manifest \in {NoManifest, dirs["backup"].manifest}
=============================================================================
