-------------------------- MODULE SchemaInspection --------------------------
(***************************************************************************)
(* The one-shot SharePoint schema inspection: launch, authentication,      *)
(* executor, request sequence and HTTP transport                           *)
(* (src/src/edn/connectors/microsoft_sharepoint/schema_launch.py,          *)
(* schema_executor.py, schema_plan.py).                                    *)
(*                                                                         *)
(* The owner launches the inspection; a run directory is prepared, the     *)
(* owner signs in, the storage is checked again, and the executor sends    *)
(* the planned GETs one after the other.  One artifact, opened exclusively *)
(* and rewritten before every GET, is the audit and the durable no-retry   *)
(* marker.  The storage may lose its protection while the browser is open, *)
(* the process may die anywhere, also inside the rewriting of the          *)
(* artifact, and a second executor may be started on the same directory.   *)
(*                                                                         *)
(* Abstractions: a request is its position in the plan; a reply is the     *)
(* peculiarity the guards tell apart, with what it says left out; ACL and  *)
(* path evidence is what check_storage and run find of the directory.      *)
(* Windows, MSAL and Graph are external.                                   *)
(***************************************************************************)
EXTENDS Naturals, Sequences, FiniteSets

CONSTANTS
    Executors,          \* executor processes started on the run directory
    ListCount           \* candidate lists whose schema the full mode reads

ASSUME InspectionAssumption == Executors # {} /\ ListCount \in Nat \ {0}

VARIABLES
    mode,          \* the execution mode: "full" or "projects"
    storage,       \* the run directory: made, its boundary, its artifact
    runners,       \* what each executor process holds: pc, position, last reply
    dispatched,    \* external: the GETs that left, in order
    accepted       \* external: the positions whose reply passed every guard

inspectionVars == <<mode, storage, runners, dispatched, accepted>>

-----------------------------------------------------------------------------
\* The plan: the site, then identity and columns of each list.

Budget == IF mode = "full" THEN 1 + 2 * ListCount ELSE 3
Endpoint(k) == IF k = 1 THEN "site" ELSE IF k % 2 = 0 THEN "list" ELSE "columns"

\* What the sign-in can return; validate_auth accepts only the first.
SignIns == {"valid", "response_error", "consent_required", "claims_missing",
            "tenant_mismatch", "client_mismatch", "account_mismatch", "scope_missing",
            "scope_unexpected", "token_invalid", "browser_failed"}

\* validate_auth with the browser hand-off and SchemaIdentity.
SignInAccepted(signIn) == signIn = "valid"

\* What Graph can answer.
Headers == {"redirect", "encoded", "not_json_media"}
Bodies == {"oversized", "malformed", "duplicate_key", "not_an_object", "unauthorised",
           "error_status", "graph_error", "continuation", "operational_content"}
Contents(k) ==
    CASE Endpoint(k) = "site"    -> {"site_property_missing", "other_site"}
      [] Endpoint(k) = "list"    -> {"other_list", "list_property_missing", "list_elsewhere",
                                     "other_template"}
      [] Endpoint(k) = "columns" -> {"columns_missing", "columns_empty", "columns_too_many",
                                     "column_malformed", "column_ambiguous",
                                     "column_unsupported", "column_repeated"}
Replies(k) == {"good", "lost"} \cup Headers \cup Bodies \cup Contents(k)

\* _decode: size, JSON, status and the content guards.
Decoded(reply) == reply \notin Headers \cup Bodies \cup {"lost"}

\* _SchemaSequence.accept: identity, projection and column guards.
SequenceAccepts(k, reply) == reply \notin Contents(k)

-----------------------------------------------------------------------------
\* The artifact: absent, torn by a death inside a rewrite, or a manifest.

Missing == [kind |-> "missing", state |-> "none", requests |-> <<>>]
Torn == [kind |-> "torn", state |-> "none", requests |-> <<>>]
Saved(state, requests) == [kind |-> "manifest", state |-> state, requests |-> requests]

NoRunner == [pc |-> "new", request |-> 0, entries |-> <<>>, reply |-> "none"]

InspectionInit ==
    /\ mode \in {"full", "projects"}
    /\ storage = [made |-> FALSE, boundary |-> "sound", artifact |-> Missing]
    /\ runners = [e \in Executors |-> NoRunner]
    /\ dispatched = <<>>
    /\ accepted = {}

Halt(e) == runners' = [runners EXCEPT ![e] = [NoRunner EXCEPT !.pc = "stopped"]]

\* prepare_run: a fresh directory under the protected root, checked, probed with
\* a file that is removed again, and checked once more.
PrepareRun(e) ==
    /\ runners[e].pc = "new" /\ ~storage.made /\ storage.boundary = "sound"
    /\ storage' = [storage EXCEPT !.made = TRUE]
    /\ runners' = [runners EXCEPT ![e].pc = "prepared"]
    /\ UNCHANGED <<mode, dispatched, accepted>>

\* authenticate: the owner signs in in the browser, or the launch stops there.
Authenticate(e, signIn) ==
    /\ runners[e].pc = "prepared"
    /\ IF SignInAccepted(signIn) THEN runners' = [runners EXCEPT ![e].pc = "signed_in"]
       ELSE Halt(e)
    /\ UNCHANGED <<mode, storage, dispatched, accepted>>

\* check_storage again after the sign-in: path, ACL and an empty run directory.
RecheckStorage(e) ==
    /\ runners[e].pc = "signed_in"
    /\ IF storage.boundary = "sound" /\ storage.artifact = Missing
       THEN runners' = [runners EXCEPT ![e].pc = "checked"]
       ELSE Halt(e)
    /\ UNCHANGED <<mode, storage, dispatched, accepted>>

\* run looks for links and for a prior attempt; the ACL is its caller's business.
EnterRun(e) ==
    /\ runners[e].pc = "checked"
    /\ IF storage.boundary # "linked" /\ storage.artifact = Missing
       THEN runners' = [runners EXCEPT ![e].pc = "opening"]
       ELSE Halt(e)
    /\ UNCHANGED <<mode, storage, dispatched, accepted>>

\* Another process that holds a token gives run the same directory.
SecondExecutor(e) ==
    /\ runners[e].pc = "new" /\ storage.made
    /\ runners' = [runners EXCEPT ![e].pc = "checked"]
    /\ UNCHANGED <<mode, storage, dispatched, accepted>>

\* A mutant: a prior attempt's artifact is opened for writing again.
OpenArtifactAgain(e) ==
    /\ runners[e].pc = "opening"
    /\ storage' = [storage EXCEPT !.artifact = Saved("started", <<>>)]
    /\ runners' = [runners EXCEPT ![e].pc = "sending", ![e].request = 1]
    /\ UNCHANGED <<mode, dispatched, accepted>>

\* run: the artifact is opened exclusively and the started manifest is saved.
OpenArtifact(e) ==
    /\ runners[e].pc = "opening"
    /\ IF storage.artifact = Missing
       THEN /\ storage' = [storage EXCEPT !.artifact = Saved("started", <<>>)]
            /\ runners' = [runners EXCEPT ![e].pc = "sending", ![e].request = 1]
       ELSE Halt(e) /\ UNCHANGED storage
    /\ UNCHANGED <<mode, dispatched, accepted>>

\* _get appends the attempt and saves the manifest before anything is sent.
RecordAttempt(e) ==
    LET entries == Append(runners[e].entries, "attempted")
    IN /\ runners[e].pc = "sending" /\ runners[e].request <= Budget
       /\ storage' = [storage EXCEPT !.artifact = Saved("started", entries)]
       /\ runners' = [runners EXCEPT ![e].pc = "recorded", ![e].entries = entries]
       /\ UNCHANGED <<mode, dispatched, accepted>>

\* SchemaHttpTransport.get: the URL is consumed, the GET leaves, a reply arrives.
Dispatch(e, reply) ==
    /\ runners[e].pc = "recorded" /\ reply \in Replies(runners[e].request)
    /\ dispatched' = Append(dispatched, runners[e].request)
    /\ runners' = [runners EXCEPT ![e].pc = "replied", ![e].reply = reply]
    /\ UNCHANGED <<mode, storage, accepted>>

\* The request does not leave: the token is unusable, a guard of the transport refuses, or
\* the attempt could not be saved; the run stops with what could be saved of it.
SendFails(e) ==
    LET r == runners[e]
    IN /\ r.pc = "recorded"
       /\ storage' = [storage EXCEPT !.artifact = Saved("stopped", r.entries)]
       /\ Halt(e)
       /\ UNCHANGED <<mode, dispatched, accepted>>

\* The reply passes both guards: the next request, held in memory only.
AcceptReply(e) ==
    LET r == runners[e]
    IN /\ r.pc = "replied" /\ Decoded(r.reply) /\ SequenceAccepts(r.request, r.reply)
       /\ accepted' = accepted \cup {r.request}
       /\ runners' = [runners EXCEPT ![e].pc = "sending", ![e].request = @ + 1,
                                     ![e].entries[Len(r.entries)] = "verified"]
       /\ UNCHANGED <<mode, storage, dispatched>>

\* A guard refuses: the run stops with a saved, content-free failure.
RefuseReply(e) ==
    LET r == runners[e]
    IN /\ r.pc = "replied" /\ ~(Decoded(r.reply) /\ SequenceAccepts(r.request, r.reply))
       /\ storage' = [storage EXCEPT !.artifact = Saved("stopped", r.entries)]
       /\ Halt(e)
       /\ UNCHANGED <<mode, dispatched, accepted>>

\* Every planned request is verified: the complete manifest is saved.
CompleteRun(e) ==
    LET r == runners[e]
    IN /\ r.pc = "sending" /\ r.request > Budget
       /\ storage' = [storage EXCEPT !.artifact = Saved("complete", r.entries)]
       /\ Halt(e)
       /\ UNCHANGED <<mode, dispatched, accepted>>

\* The process dies, or a save fails; the artifact is torn when it was being
\* written (seek, dump, truncate and fsync are not one write).
DieInspecting(e, tearing) ==
    /\ runners[e].pc \notin {"new", "stopped"}
    /\ tearing => \/ runners[e].pc \in {"sending", "replied"}
                  \/ runners[e].pc = "opening" /\ storage.artifact = Missing
    /\ storage' = IF tearing THEN [storage EXCEPT !.artifact = Torn] ELSE storage
    /\ Halt(e)
    /\ UNCHANGED <<mode, dispatched, accepted>>

\* Somebody widens the ACL, syncs the directory or makes it a link.
LoseProtection(boundary) ==
    /\ storage.boundary = "sound"
    /\ storage' = [storage EXCEPT !.boundary = boundary]
    /\ UNCHANGED <<mode, runners, dispatched, accepted>>

InspectionNext ==
    \/ \E e \in Executors :
         \/ PrepareRun(e) \/ SecondExecutor(e) \/ RecheckStorage(e) \/ EnterRun(e)
         \/ OpenArtifact(e) \/ RecordAttempt(e) \/ SendFails(e)
         \/ AcceptReply(e) \/ RefuseReply(e) \/ CompleteRun(e)
         \/ \E signIn \in SignIns : Authenticate(e, signIn)
         \/ \E reply \in Replies(runners[e].request) : Dispatch(e, reply)
         \/ \E tearing \in BOOLEAN : DieInspecting(e, tearing)
    \/ \E boundary \in {"exposed", "linked"} : LoseProtection(boundary)

-----------------------------------------------------------------------------
\* What the inspection promises.

InspectionTypeOK ==
    /\ mode \in {"full", "projects"}
    /\ storage.artifact.kind \in {"missing", "torn", "manifest"}
    /\ \A e \in Executors : runners[e].request \in 0 .. Budget + 1

\* Whatever dies and whoever is started again, the directory sees one attempt: the
\* GETs are the plan's, in order, none twice, and each only after the reply before it
\* passed every guard (SchemaExecutor, "one attempt per object AND output directory,
\* including failure/restart").  The artifact, where it can be read, names every GET
\* that left, saved before it left, and claims completion only of a verified plan.
InspectionAccounted ==
    /\ \A i \in DOMAIN dispatched :
         dispatched[i] = i /\ i <= Budget /\ (i < Len(dispatched) => i \in accepted)
    /\ dispatched # <<>> => storage.artifact # Missing
    /\ storage.artifact.kind = "manifest" =>
         Len(storage.artifact.requests) >= Len(dispatched)
    /\ storage.artifact.state = "complete" => accepted = 1 .. Budget
=============================================================================
