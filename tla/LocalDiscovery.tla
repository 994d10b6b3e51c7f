--------------------------- MODULE LocalDiscovery ---------------------------
(***************************************************************************)
(* Metadata discovery of the Local Files connector                         *)
(* (src/src/edn/connectors/local_files/connector.py, traversal.py,         *)
(* catalogue.py, config.py).                                               *)
(*                                                                         *)
(* One discovery job walks the approved roots in batches.  A call of       *)
(* discover restores the traversal cursor its checkpoint names, collects   *)
(* at most one batch, and then writes in separate transactions: the        *)
(* candidates, the number of exclusions, and either the next cursor or the *)
(* completion of the run.  The worker stores the returned checkpoint only  *)
(* while it still holds the job's lease, so a call may die at every point, *)
(* be repeated, or overlap the call that replaced it, and the directories  *)
(* may change under the walk.                                              *)
(*                                                                         *)
(* Abstractions: one small tree (Layout) whose nodes are given at most one *)
(* peculiarity each; a directory's device, inode and mtime are one stamp;  *)
(* the stat and the scandir of one loop iteration of next_path are one     *)
(* step; a candidate is the state of its catalogue row.                    *)
(***************************************************************************)
EXTENDS Naturals, Sequences, FiniteSets

CONSTANTS
    Calls,               \* worker calls of discover that may be under way together
    DiscoveryBatch,      \* discovery_batch_size
    MaxAttempts,         \* bound: calls begun for the run
    MaxTreeChanges       \* bound: directory changes during the run

ASSUME DiscoveryAssumption ==
    /\ Calls # {} /\ "no_call" \notin Calls
    /\ DiscoveryBatch \in Nat \ {0}
    /\ MaxAttempts \in Nat
    /\ MaxTreeChanges \in Nat

VARIABLES
    tree,        \* [odd, present, stamp]: peculiarity per node, entries, directory stamps
    settings,    \* the LocalFilesConfig in force
    catalogue,   \* candidates table: resource -> state of its row
    discovery,   \* discovery_runs row and the saved traversal_cursors
    job,         \* the discovery job: checkpoint, lease, status
    calls,       \* what each call of discover holds in memory
    touched,     \* history: entries added or removed since the run began
    repeated     \* history: some call was begun before its predecessor returned

discoveryVars == <<tree, settings, catalogue, discovery, job, calls, touched, repeated>>

-----------------------------------------------------------------------------
\* The tree: directories with their possible entries in name order.

Roots == <<"r", "s">>
Layout == [r |-> <<"a", "d">>, d |-> <<"b", "c">>, s |-> <<"z">>]
Directories == DOMAIN Layout
Files == {"a", "b", "c", "z"}
Nodes == Directories \cup Files
Parent(n) == CHOOSE d \in Directories : \E i \in DOMAIN Layout[d] : Layout[d][i] = n
IsRoot(n) == \E i \in DOMAIN Roots : Roots[i] = n
Depth(n) == IF IsRoot(n) THEN 0 ELSE IF IsRoot(Parent(n)) THEN 1 ELSE 2

\* What os.scandir lists now, sorted by name.
Entries(d) ==
    LET Listed[i \in 0 .. Len(Layout[d])] ==
            IF i = 0 THEN <<>>
            ELSE IF Layout[d][i] \in tree.present THEN Append(Listed[i - 1], Layout[d][i])
            ELSE Listed[i - 1]
    IN Listed[Len(Layout[d])]

FileOddities == {"plain", "excluded_extension", "other_extension", "hidden", "link",
                 "excluded_root", "escapes", "other_device", "special", "unsupported",
                 "oversized"}
DirectoryOddities == {"plain", "hidden", "reparse", "excluded_root", "escapes",
                      "other_device", "unreadable"}

\* A link inside the root resolves to the file "a"; its row is the target's.
Target(n) == IF tree.odd[n] = "link" THEN "a" ELSE n

-----------------------------------------------------------------------------
\* Configuration and admission of paths.

\* The settings LocalFilesConfig accepts: links need stay_on_filesystem.
Configurations ==
    {[hidden |-> FALSE, links |-> FALSE, stay |-> TRUE,  depth |-> 9, allowed |-> TRUE],
     [hidden |-> TRUE,  links |-> TRUE,  stay |-> TRUE,  depth |-> 9, allowed |-> FALSE],
     [hidden |-> FALSE, links |-> FALSE, stay |-> FALSE, depth |-> 0, allowed |-> FALSE]}

ConfigurationAccepted(c) == c.links => c.stay

\* validate_candidate_path: exclusions, containment, links and devices.
ValidPath(n) ==
    /\ tree.odd[n] \notin {"excluded_root", "escapes"}
    /\ tree.odd[n] \in {"link", "reparse"} => settings.links
    /\ tree.odd[n] = "other_device" => ~settings.stay

\* _allow_directory
AllowDirectory(d) ==
    /\ Depth(d) <= settings.depth
    /\ tree.odd[d] = "hidden" => settings.hidden
    /\ tree.odd[d] # "reparse"
    /\ ValidPath(d)

\* _candidate: the row it builds, or "none" when the file is not admitted.
Candidate(n) ==
    IF \/ tree.odd[n] = "excluded_extension"
       \/ tree.odd[n] = "other_extension" /\ settings.allowed
       \/ tree.odd[n] = "unsupported" /\ settings.allowed
       \/ tree.odd[n] = "hidden" /\ ~settings.hidden
       \/ tree.odd[n] = "link" /\ ~settings.links
       \/ ~ValidPath(n)
       \/ tree.odd[n] = "special"
    THEN "none"
    ELSE IF tree.odd[n] \in {"other_extension", "unsupported", "oversized"}
         THEN "unsupported"
         ELSE "discovered"

-----------------------------------------------------------------------------
\* DurableTraversal: the index of the current root and the stack of frames.

Frame(d) == [dir |-> d, next |-> 0, stamp |-> tree.stamp[d]]
Start == [root |-> 1, frames |-> <<>>]
TraversalComplete(t) == t.root > Len(Roots)

\* _validate_frame: the directory is the one the frame was made for, unchanged.
FrameValid(f) == f.stamp = tree.stamp[f.dir]

Pop(t) ==
    LET rest == SubSeq(t.frames, 1, Len(t.frames) - 1)
    IN [root |-> IF rest = <<>> THEN t.root + 1 ELSE t.root, frames |-> rest]

\* skip_current_directory pops the child that was just entered.
SkipCurrent(t) == [t EXCEPT !.frames = SubSeq(@, 1, Len(@) - 1)]

\* The root's frame is pushed when the stack is empty.
Entered(t) ==
    IF t.frames = <<>> THEN [t EXCEPT !.frames = <<Frame(Roots[t.root])>>] ELSE t

\* The next entry of the directory on top of the stack has been taken.
Advanced(t) == [t EXCEPT !.frames[Len(t.frames)].next = @ + 1]

\* next_path pops a directory with its last file.
Eager(t) ==
    LET top == t.frames[Len(t.frames)]
    IN IF top.next = Len(Entries(top.dir)) THEN Pop(t) ELSE t

-----------------------------------------------------------------------------
\* The catalogue, the run and the job.

NoCall == "no_call"
NoCursor == 0          \* no checkpoint yet; cursors are named by the items processed

\* upsert_many: the rows of the batch; a link and its target share one row.
Upserted(found) ==
    [x \in Files |->
        LET rows == {n \in found : Target(n) = x}
        IN IF rows = {} THEN catalogue[x] ELSE Candidate(CHOOSE n \in rows : TRUE)]

IdleCall == [pc |-> "idle", walk |-> Start, found |-> {}, excluded |-> 0, durable |-> 0]

\* Trees with at most one odd node: the file "c" or the directory "d".
OddTrees ==
    {[[n \in Nodes |-> "plain"] EXCEPT !["c"] = f] : f \in FileOddities}
    \cup {[[n \in Nodes |-> "plain"] EXCEPT !["d"] = d] : d \in DirectoryOddities}

DiscoveryInit ==
    /\ settings \in {c \in Configurations : ConfigurationAccepted(c)}
    /\ tree \in {[odd |-> odd, present |-> Nodes \ missing, stamp |-> [d \in Directories |-> 0]] :
                  odd \in OddTrees, missing \in {{}, {"b"}}}
    /\ "b" \notin tree.present => tree.odd = [n \in Nodes |-> "plain"]
    /\ catalogue = [x \in Files |-> "absent"]
    /\ discovery = [begun |-> FALSE, complete |-> FALSE, excluded |-> 0, cursors |-> <<>>]
    /\ job = [checkpoint |-> NoCursor, lease |-> NoCall, status |-> "open", attempts |-> 0]
    /\ calls = [c \in Calls |-> IdleCall]
    /\ touched = {}
    /\ repeated = FALSE

Fail == job' = [job EXCEPT !.status = "failed", !.lease = NoCall]

\* A worker whose lease was taken over cannot fail the job any more.
FailIfHeld(c) == IF job.lease = c THEN Fail ELSE UNCHANGED job

\* traversal_cursor and _restore: every saved frame is validated again.
Restored(c) ==
    LET saved == discovery.cursors[job.checkpoint]
    IN IF job.checkpoint = NoCursor
       THEN calls' = [calls EXCEPT ![c] = [IdleCall EXCEPT !.pc = "walking"]]
            /\ job' = [job EXCEPT !.lease = c, !.attempts = @ + 1]
       ELSE IF \A i \in DOMAIN saved.frames : FrameValid(saved.frames[i])
            THEN /\ calls' = [calls EXCEPT ![c] =
                        [IdleCall EXCEPT !.pc = "walking", !.walk = saved,
                                         !.durable = job.checkpoint]]
                 /\ job' = [job EXCEPT !.lease = c, !.attempts = @ + 1]
            ELSE calls' = calls /\ Fail

\* A worker claims the job, again after the lease ran out, and calls discover.
Begin(c) ==
    /\ job.status = "open" /\ job.attempts < MaxAttempts
    /\ calls[c].pc = "idle"
    /\ Restored(c)
    /\ discovery' = [discovery EXCEPT !.begun = TRUE]
    /\ repeated' = (repeated \/ job.lease # NoCall)
    /\ UNCHANGED <<tree, settings, catalogue, touched>>

\* The file on top is collected or counted as excluded.
Collect(call, n) ==
    IF Candidate(n) = "none"
    THEN [call EXCEPT !.walk = Eager(Advanced(@)), !.excluded = @ + 1]
    ELSE [call EXCEPT !.walk = Eager(Advanced(@)), !.found = @ \cup {n}]

\* A mutant: a directory that is not allowed is left without being counted.
EnterChildUncounted(call, d) ==
    LET inside == [Advanced(call.walk) EXCEPT !.frames = Append(@, Frame(d))]
    IN [call EXCEPT !.walk = IF AllowDirectory(d) THEN inside ELSE SkipCurrent(inside)]

\* The directory on top is entered, and left at once when it is not allowed.
EnterChild(call, d) ==
    LET inside == [Advanced(call.walk) EXCEPT !.frames = Append(@, Frame(d))]
    IN IF AllowDirectory(d) THEN [call EXCEPT !.walk = inside]
       ELSE [call EXCEPT !.walk = SkipCurrent(inside), !.excluded = @ + 1]

\* One iteration of the loop of next_path with what discover does with it.
Walk(c) ==
    LET call == calls[c]
        walk == Entered(call.walk)
        top == walk.frames[Len(walk.frames)]
        listed == Entries(top.dir)
    IN /\ call.pc = "walking"
       /\ IF TraversalComplete(call.walk) \/ Cardinality(call.found) >= DiscoveryBatch
          THEN calls' = [calls EXCEPT ![c].pc = "upserting"] /\ UNCHANGED job
          ELSE IF ~FrameValid(top)
          THEN calls' = [calls EXCEPT ![c] = IdleCall] /\ FailIfHeld(c)
          ELSE /\ UNCHANGED job
               /\ calls' = [calls EXCEPT ![c] =
                    IF tree.odd[top.dir] = "unreadable"
                    THEN [call EXCEPT !.walk = Pop(walk), !.excluded = @ + 1]
                    ELSE IF top.next >= Len(listed)
                    THEN [call EXCEPT !.walk = Pop(walk)]
                    ELSE IF listed[top.next + 1] \in Directories
                    THEN EnterChild([call EXCEPT !.walk = walk], listed[top.next + 1])
                    ELSE Collect([call EXCEPT !.walk = walk], listed[top.next + 1])]
       /\ UNCHANGED <<tree, settings, catalogue, discovery, touched, repeated>>

\* catalogue.upsert_many, in a transaction of its own.
UpsertMany(c) ==
    /\ calls[c].pc = "upserting"
    /\ catalogue' = Upserted(calls[c].found)
    /\ calls' = [calls EXCEPT ![c].pc = "counting"]
    /\ UNCHANGED <<tree, settings, discovery, job, touched, repeated>>

\* catalogue.add_excluded adds to the run's count; it is not idempotent.
AddExcluded(c) ==
    /\ calls[c].pc = "counting"
    /\ discovery' = [discovery EXCEPT !.excluded = @ + calls[c].excluded]
    /\ calls' = [calls EXCEPT ![c].pc = "saving"]
    /\ UNCHANGED <<tree, settings, catalogue, job, touched, repeated>>

Processed(c) == calls[c].durable + Cardinality(calls[c].found)

\* save_traversal_cursor under the id of run and items processed, or complete_run.
SaveProgress(c) ==
    /\ calls[c].pc = "saving"
    /\ discovery' =
         IF TraversalComplete(calls[c].walk)
         THEN [discovery EXCEPT !.complete = TRUE]
         ELSE [discovery EXCEPT !.cursors =
                 [p \in DOMAIN @ \cup {Processed(c)} |->
                    IF p = Processed(c) THEN calls[c].walk ELSE @[p]]]
    /\ calls' = [calls EXCEPT ![c].pc = "returning"]
    /\ UNCHANGED <<tree, settings, catalogue, job, touched, repeated>>

\* The worker stores the checkpoint, or completes the job, under its lease.
Return(c) ==
    /\ calls[c].pc = "returning"
    /\ calls' = [calls EXCEPT ![c] = IdleCall]
    /\ job' = IF job.lease # c THEN job
              ELSE IF TraversalComplete(calls[c].walk)
              THEN [job EXCEPT !.status = "done", !.lease = NoCall]
              ELSE [job EXCEPT !.checkpoint = Processed(c), !.lease = NoCall]
    /\ UNCHANGED <<tree, settings, catalogue, discovery, touched, repeated>>

\* The process of a call dies; its lease runs out later.
Die(c) ==
    /\ calls[c].pc # "idle"
    /\ calls' = [calls EXCEPT ![c] = IdleCall]
    /\ UNCHANGED <<tree, settings, catalogue, discovery, job, touched, repeated>>

\* Somebody adds or removes an entry: the directory gets a new stamp.
ChangeTree(n) ==
    /\ discovery.begun /\ job.status = "open"
    /\ tree.stamp[Parent(n)] < MaxTreeChanges
    /\ tree' = [tree EXCEPT !.present = IF n \in @ THEN @ \ {n} ELSE @ \cup {n},
                            !.stamp[Parent(n)] = @ + 1]
    /\ touched' = touched \cup {n}
    /\ UNCHANGED <<settings, catalogue, discovery, job, calls, repeated>>

DiscoveryNext ==
    \/ \E c \in Calls : \/ Begin(c) \/ Walk(c) \/ UpsertMany(c) \/ AddExcluded(c)
                        \/ SaveProgress(c) \/ Return(c) \/ Die(c)
    \/ ChangeTree("b")

-----------------------------------------------------------------------------
\* What discovery promises.

DiscoveryTypeOK ==
    /\ settings \in Configurations
    /\ catalogue \in [Files -> {"absent", "discovered", "unsupported"}]
    /\ job.lease \in Calls \cup {NoCall} /\ job.status \in {"open", "done", "failed"}
    /\ \A c \in Calls : calls[c].walk.root \in 1 .. Len(Roots) + 1

Visited(n) == /\ IsRoot(Parent(n)) \/ AllowDirectory(Parent(n))
              /\ tree.odd[Parent(n)] # "unreadable"

AdmissibleFile(n) == Visited(n) /\ Candidate(n) # "none"

\* When the run is complete, every admissible file that stayed in place during
\* the run has its row, whatever calls died, were repeated or overlapped; and at
\* no time is there a row of a file the configuration does not admit
\* (discover with the durable traversal cursor).
DiscoveryComplete ==
    /\ discovery.complete =>
         \A n \in Files \ touched :
            n \in tree.present /\ AdmissibleFile(n) => catalogue[Target(n)] # "absent"
    /\ \A x \in Files : catalogue[x] # "absent" => AdmissibleFile(x)

\* The exclusions of an undisturbed tree.
Excluded ==
    Cardinality({n \in tree.present \cap Files : Visited(n) /\ Candidate(n) = "none"})
    + Cardinality({d \in Directories : \/ tree.odd[d] = "unreadable"
                                       \/ ~IsRoot(d) /\ ~AllowDirectory(d)})

\* A complete run never reports fewer exclusions than the walk met, and reports
\* exactly those unless a call was repeated: add_excluded is committed apart from
\* the cursor, so a repeated batch counts its exclusions again.
ExclusionsCounted ==
    discovery.complete /\ touched = {} =>
        /\ discovery.excluded >= Excluded
        /\ ~repeated => discovery.excluded = Excluded

=============================================================================
