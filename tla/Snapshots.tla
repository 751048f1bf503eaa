----------------------------- MODULE Snapshots -----------------------------
(***************************************************************************)
(* Workspace snapshots: POST /snapshots and POST /snapshots/{id}/restore   *)
(* with the archives and manifests that SnapshotManager writes, together   *)
(* with the destruction of labs, which takes their snapshots along, and    *)
(* the guests that write to workspaces.                                    *)
(*                                                                         *)
(* A session loads, takes its file-system steps one by one and commits, as *)
(* in Governance; it may fail between any two of them.  The labs here are  *)
(* container labs with a storage row: other labs are refused before        *)
(* anything is touched.  A snapshot is named by its lab and a number, for  *)
(* the uuid4 the handler draws.                                            *)
(***************************************************************************)
EXTENDS Naturals

CONSTANTS
  Labs,          \* container labs that exist, with their storage
  Snapshots,     \* <<lab, number>>: snapshots that may be taken of a lab
  Files,         \* what a workspace may hold
  RefusedFiles,  \* files extractall(filter="data") refuses: links out, devices
  RunningLabs,   \* labs whose guest is running
  Sessions       \* concurrent requests

ASSUME SnapshotsAssumption ==
  /\ Snapshots \subseteq Labs \X Nat
  /\ Labs \cap Snapshots = {}
  /\ RefusedFiles \subseteq Files
  /\ RunningLabs \subseteq Labs

VARIABLES
  state,      \* LabRow.state: live or destroyed
  dirs,       \* <<lab, directory>>: the directories of the lab's tree
  content,    \* files in a workspace, or that went into an archive
  archive,    \* {snapshot_id}.tar.gz
  manifest,   \* {snapshot_id}.json
  row,        \* snapshots that have a SnapshotRow
  audit,      \* EventRows, as <<event_type, resource, lab>>
  sess,       \* what each session has loaded and done so far
  history     \* what happened to a lab's tree or a manifest (no program state)

db == <<state, row, audit>>
vars == <<state, dirs, content, archive, manifest, row, audit, sess, history>>

\* The lab in whose tree the archive and the manifest are.
Source(x) == x[1]

ArchiveState == {"absent", "partial", "complete"}

\* torn: truncated by write_text and not written again.  The others are the
\* state the manifest carries.
ManifestState == {"absent", "torn", "created", "restored"}

Directories == {"workspace", "snapshots"}

EventType == {"snapshot.created", "snapshot.restored", "lab.destroyed"}

Idle == [pc |-> "idle"]

\* alone: no other session was active since this one began (history).
SessionState ==
  {Idle}
    \cup [pc: {"create.loaded", "create.opened", "create.archived",
               "create.written"}, snapshot: Snapshots, alone: BOOLEAN]
    \cup [pc: {"restore.checked", "restore.cleared", "restore.extracted",
               "restore.truncated", "restore.written"},
          snapshot: Snapshots, lab: Labs, alone: BOOLEAN]
    \cup [pc: {"destroy.loaded", "destroy.removed"}, lab: Labs, alone: BOOLEAN]

TypeOK ==
  /\ state \in [Labs -> {"live", "destroyed"}]
  /\ dirs \subseteq Labs \X Directories
  /\ content \in [Labs \cup Snapshots -> SUBSET Files]
  /\ archive \in [Snapshots -> ArchiveState]
  /\ manifest \in [Snapshots -> ManifestState]
  /\ row \subseteq Snapshots
  /\ audit \subseteq EventType \X (Labs \cup Snapshots) \X Labs
  /\ sess \in [Sessions -> SessionState]
  /\ history \subseteq {"wiped", "refilled", "interrupted"} \X (Labs \cup Snapshots)

Init ==
  /\ state = [l \in Labs |-> "live"]
  /\ dirs = Labs \X Directories
  /\ \E files \in [Labs -> SUBSET Files] :
       content = [h \in Labs \cup Snapshots |-> IF h \in Labs THEN files[h] ELSE {}]
  /\ archive = [x \in Snapshots |-> "absent"]
  /\ manifest = [x \in Snapshots |-> "absent"]
  /\ row = {}
  /\ audit = {}
  /\ sess = [s \in Sessions |-> Idle]
  /\ history = {}

-----------------------------------------------------------------------------
(* Sessions *)

NoneActive == \A t \in Sessions : sess[t] = Idle

Load(s, record) ==
  /\ sess[s] = Idle
  /\ sess' = [t \in Sessions |->
                CASE t = s -> record
                  [] t # s /\ sess[t] # Idle -> [sess[t] EXCEPT !.alone = FALSE]
                  [] OTHER -> Idle]

GoTo(s, pc) == sess' = [sess EXCEPT ![s].pc = pc]

Finish(s) == sess' = [sess EXCEPT ![s] = Idle]

Record(event) == audit' = audit \cup {event}

At(s, pc) == sess[s].pc = pc

-----------------------------------------------------------------------------
(* POST /snapshots: create_snapshot and SnapshotManager.create_snapshot *)

FreshSnapshot(x) ==
  /\ x \notin row
  /\ archive[x] = "absent" /\ manifest[x] = "absent"
  /\ \A t \in Sessions : sess[t] # Idle /\ "snapshot" \in DOMAIN sess[t]
                           => sess[t].snapshot # x

\* Only the lab's row and its storage row are looked at, not its state.
BeginCreate(s, x) ==
  /\ FreshSnapshot(x)
  /\ Load(s, [pc |-> "create.loaded", snapshot |-> x, alone |-> NoneActive])
  /\ UNCHANGED <<db, dirs, content, archive, manifest, history>>

\* mkdir(parents=True), and tarfile.open for writing.
OpenArchive(s) ==
  LET x == sess[s].snapshot
  IN /\ At(s, "create.loaded")
     /\ dirs' = dirs \cup {<<Source(x), "snapshots">>}
     /\ archive' = [archive EXCEPT ![x] = "partial"]
     /\ GoTo(s, "create.opened")
     /\ UNCHANGED <<db, content, manifest, history>>

\* archive.add and _hash_file: both the workspace and the archive are there.
AddWorkspace(s) ==
  LET x == sess[s].snapshot
  IN /\ At(s, "create.opened")
     /\ <<Source(x), "workspace">> \in dirs
     /\ archive[x] = "partial"
     /\ archive' = [archive EXCEPT ![x] = "complete"]
     /\ content' = [content EXCEPT ![x] = content[Source(x)]]
     /\ GoTo(s, "create.archived")
     /\ UNCHANGED <<db, dirs, manifest, history>>

\* FileNotFoundError: the workspace or the archive is gone.  What was made so
\* far stays.
AddWorkspaceFails(s) ==
  LET x == sess[s].snapshot
  IN /\ At(s, "create.opened")
     /\ <<Source(x), "workspace">> \notin dirs \/ archive[x] = "absent"
     /\ Finish(s)
     /\ UNCHANGED <<db, dirs, content, archive, manifest, history>>

\* Mutant: the manifest starts out in the first state of SnapshotState.
WritePendingManifest(s) ==
  /\ At(s, "create.archived")
  /\ <<Source(sess[s].snapshot), "snapshots">> \in dirs
  /\ manifest' = [manifest EXCEPT ![sess[s].snapshot] = "pending"]
  /\ GoTo(s, "create.written")
  /\ UNCHANGED <<db, dirs, content, archive, history>>

WriteManifest(s) ==
  LET x == sess[s].snapshot
  IN /\ At(s, "create.archived")
     /\ <<Source(x), "snapshots">> \in dirs
     /\ manifest' = [manifest EXCEPT ![x] = "created"]
     /\ GoTo(s, "create.written")
     /\ UNCHANGED <<db, dirs, content, archive, history>>

CommitCreate(s) ==
  LET x == sess[s].snapshot
  IN /\ At(s, "create.written")
     /\ row' = row \cup {x}
     /\ Record(<<"snapshot.created", x, Source(x)>>)
     /\ Finish(s)
     /\ UNCHANGED <<state, dirs, content, archive, manifest, history>>

-----------------------------------------------------------------------------
(* POST /snapshots/{id}/restore: restore_snapshot and                       *)
(* SnapshotManager.restore_snapshot                                         *)

\* Mutant: the archive is not looked for.
ManifestReads(x) == manifest[x] \in {"created", "restored"}

\* load_metadata finds a manifest that parses, and the archive exists;
\* otherwise the request ends in a 409.
Restorable(x) ==
  /\ manifest[x] \in {"created", "restored"}
  /\ archive[x] # "absent"

BeginRestore(s, x, l) ==
  /\ x \in row
  /\ Restorable(x)
  /\ Load(s, [pc |-> "restore.checked", snapshot |-> x, lab |-> l,
              alone |-> NoneActive])
  /\ UNCHANGED <<db, dirs, content, archive, manifest, history>>

\* Mutants: the whole tree is cleared, nothing is.
ClearTree(s) ==
  LET l == sess[s].lab
  IN /\ At(s, "restore.checked")
     /\ dirs' = dirs \cup {<<l, "workspace">>}
     /\ content' = [content EXCEPT ![l] = {}]
     /\ archive' = [x \in Snapshots |-> IF Source(x) = l THEN "absent" ELSE archive[x]]
     /\ GoTo(s, "restore.cleared")
     /\ UNCHANGED <<db, manifest, history>>

ClearNothing(s) ==
  /\ At(s, "restore.checked")
  /\ dirs' = dirs \cup {<<sess[s].lab, "workspace">>}
  /\ GoTo(s, "restore.cleared")
  /\ UNCHANGED <<db, content, archive, manifest, history>>

\* mkdir(parents=True, exist_ok=True) and _clear_directory.
ClearWorkspace(s) ==
  LET l == sess[s].lab
  IN /\ At(s, "restore.checked")
     /\ dirs' = dirs \cup {<<l, "workspace">>}
     /\ content' = [content EXCEPT ![l] = {}]
     /\ GoTo(s, "restore.cleared")
     /\ UNCHANGED <<db, archive, manifest, history>>

\* _clear_directory raises half way.
ClearWorkspaceFails(s) ==
  LET l == sess[s].lab
  IN /\ At(s, "restore.checked")
     /\ dirs' = dirs \cup {<<l, "workspace">>}
     /\ \E kept \in SUBSET content[l] : content' = [content EXCEPT ![l] = kept]
     /\ Finish(s)
     /\ UNCHANGED <<db, archive, manifest, history>>

\* Files are added to what is there; extractall makes missing directories.
Extracted(l, files) ==
  /\ dirs' = dirs \cup {<<l, "workspace">>}
  /\ content' = [content EXCEPT ![l] = @ \cup files]
  /\ history' = history \cup {<<"refilled", l>>}

Extract(s) ==
  LET x == sess[s].snapshot
  IN /\ At(s, "restore.cleared")
     /\ archive[x] = "complete"
     /\ content[x] \cap RefusedFiles = {}
     /\ Extracted(sess[s].lab, content[x])
     /\ GoTo(s, "restore.extracted")
     /\ UNCHANGED <<db, archive, manifest>>

\* Mutant: the manifest is opened for writing before the extraction.
ExtractFailsWithOpenManifest(s) ==
  LET x == sess[s].snapshot
  IN /\ At(s, "restore.cleared")
     /\ archive[x] = "complete"
     /\ Extracted(sess[s].lab, {})
     /\ manifest' = [manifest EXCEPT ![x] = "torn"]
     /\ Finish(s)
     /\ UNCHANGED <<db, archive>>

\* The archive is gone, holds a file that is refused, or writing fails: the
\* request ends and the workspace stays as far as it was filled.
ExtractFails(s) ==
  LET x == sess[s].snapshot
  IN /\ At(s, "restore.cleared")
     /\ \/ /\ archive[x] = "complete"
           /\ \E part \in SUBSET (content[x] \ RefusedFiles) :
                Extracted(sess[s].lab, part)
        \/ /\ archive[x] # "complete"
           /\ UNCHANGED <<dirs, content, history>>
     /\ Finish(s)
     /\ UNCHANGED <<db, archive, manifest>>

\* write_text opens the manifest, which truncates it ...
TruncateManifest(s) ==
  LET x == sess[s].snapshot
  IN /\ At(s, "restore.extracted")
     /\ <<Source(x), "snapshots">> \in dirs
     /\ manifest' = [manifest EXCEPT ![x] = "torn"]
     /\ GoTo(s, "restore.truncated")
     /\ UNCHANGED <<db, dirs, content, archive, history>>

\* ... and then writes it, to a file that may have been unlinked by then.
RewriteManifest(s) ==
  LET x == sess[s].snapshot
  IN /\ At(s, "restore.truncated")
     /\ manifest' = [manifest EXCEPT ![x] = IF @ = "absent" THEN @ ELSE "restored"]
     /\ GoTo(s, "restore.written")
     /\ UNCHANGED <<db, dirs, content, archive, history>>

CommitRestore(s) ==
  /\ At(s, "restore.written")
  /\ Record(<<"snapshot.restored", sess[s].snapshot, sess[s].lab>>)
  /\ Finish(s)
  /\ UNCHANGED <<state, row, dirs, content, archive, manifest, history>>

-----------------------------------------------------------------------------
(* DELETE /labs/{lab_id}: destroy_lab and ManagedStorageAllocator.destroy *)

BeginDestroy(s, l) ==
  /\ state[l] # "destroyed"
  /\ Load(s, [pc |-> "destroy.loaded", lab |-> l, alone |-> NoneActive])
  /\ UNCHANGED <<db, dirs, content, archive, manifest, history>>

\* The tree of l, reduced to the given directories and files.
Reduced(l, keptDirs, keptFiles, keptArchives, keptManifests) ==
  /\ dirs' = {d \in dirs : d[1] = l => d[2] \in keptDirs}
  /\ content' = [content EXCEPT ![l] = @ \cap keptFiles]
  /\ archive' = [x \in Snapshots |->
       IF Source(x) = l /\ x \notin keptArchives THEN "absent" ELSE archive[x]]
  /\ manifest' = [x \in Snapshots |->
       IF Source(x) = l /\ x \notin keptManifests THEN "absent" ELSE manifest[x]]
  /\ history' = history \cup {<<"wiped", l>>}

RemoveTree(s) ==
  /\ At(s, "destroy.loaded")
  /\ Reduced(sess[s].lab, {}, {}, {}, {})
  /\ GoTo(s, "destroy.removed")
  /\ UNCHANGED db

\* Mutant: errors of rmtree are ignored.
RemoveErrorsIgnored(s) ==
  /\ At(s, "destroy.loaded")
  /\ Reduced(sess[s].lab, {"workspace"}, Files, {}, {})
  /\ GoTo(s, "destroy.removed")
  /\ UNCHANGED db

\* rmtree raises half way; a file is only there as long as its directory is.
RemoveTreeFails(s) ==
  /\ At(s, "destroy.loaded")
  /\ \E l \in {sess[s].lab}, keptFiles \in SUBSET content[sess[s].lab] :
     \E keptArchives, keptManifests \in SUBSET {x \in Snapshots : Source(x) = l} :
       \/ Reduced(l, {"workspace", "snapshots"}, keptFiles, keptArchives, keptManifests)
       \/ Reduced(l, {"workspace"}, keptFiles, {}, {})
       \/ Reduced(l, {"snapshots"}, {}, keptArchives, keptManifests)
  /\ Finish(s)
  /\ UNCHANGED db

CommitDestroy(s) ==
  LET l == sess[s].lab
  IN /\ At(s, "destroy.removed")
     /\ state' = [state EXCEPT ![l] = "destroyed"]
     /\ Record(<<"lab.destroyed", l, l>>)
     /\ Finish(s)
     /\ UNCHANGED <<row, dirs, content, archive, manifest, history>>

-----------------------------------------------------------------------------
(* The environment *)

\* A running guest adds or removes a file of its workspace.
GuestWrites(l, f) ==
  /\ l \in RunningLabs
  /\ state[l] = "live"
  /\ <<l, "workspace">> \in dirs
  /\ content' = [content EXCEPT ![l] = IF f \in @ THEN @ \ {f} ELSE @ \cup {f}]
  /\ UNCHANGED <<db, dirs, archive, manifest, sess, history>>

\* An exception or a crash before the next step; an interrupted rewrite leaves
\* the manifest torn.
Abort(s) ==
  /\ sess[s] # Idle
  /\ history' = history \cup
       {<<"interrupted", x>> : x \in {y \in Snapshots : /\ At(s, "restore.truncated")
                                                        /\ sess[s].snapshot = y}}
  /\ Finish(s)
  /\ UNCHANGED <<db, dirs, content, archive, manifest>>

CreateStep(s) ==
  \/ OpenArchive(s)
  \/ AddWorkspace(s) \/ AddWorkspaceFails(s)
  \/ WriteManifest(s)
  \/ CommitCreate(s)

RestoreStep(s) ==
  \/ ClearWorkspace(s) \/ ClearWorkspaceFails(s)
  \/ Extract(s) \/ ExtractFails(s)
  \/ TruncateManifest(s) \/ RewriteManifest(s)
  \/ CommitRestore(s)

DestroyStep(s) == RemoveTree(s) \/ RemoveTreeFails(s) \/ CommitDestroy(s)

Next ==
  \/ \E s \in Sessions :
       \/ \E x \in Snapshots : BeginCreate(s, x)
       \/ \E x \in Snapshots, l \in Labs : BeginRestore(s, x, l)
       \/ \E l \in Labs : BeginDestroy(s, l)
       \/ CreateStep(s) \/ RestoreStep(s) \/ DestroyStep(s)
       \/ Abort(s)
  \/ \E l \in Labs, f \in Files : GuestWrites(l, f)

Spec == Init /\ [][Next]_vars

-----------------------------------------------------------------------------
(* Properties *)

Wiped(l) == <<"wiped", l>> \in history

\* Whatever the sessions do at the same time and wherever they fail, a row of
\* the snapshots table has its complete archive and its manifest for as long
\* as the lab's tree has not been removed: the files are written before the
\* row, and no restore, into whichever lab, touches an archive.
RecordedSnapshotsAreKept ==
  \A x \in row :
    /\ ~Wiped(Source(x)) => archive[x] = "complete" /\ manifest[x] # "absent"
    /\ archive[x] # "partial"

\* restore_snapshot throws a workspace away only when it has the archive to
\* fill it again, also after a removal of the source lab that failed half way
\* and kept the manifest but not the archive.  (Another session may still
\* remove the archive in between.)
ClearedOnlyForAnArchive ==
  \A s \in Sessions :
    At(s, "restore.cleared") /\ sess[s].alone
    => archive[sess[s].snapshot] = "complete"

\* A restore that is not disturbed by another request or by a guest leaves
\* exactly what was archived: nothing of the old workspace, nor of an earlier
\* restore that stopped half way.
RestoresAreExact ==
  \A s \in Sessions :
    /\ sess[s].pc \in {"restore.extracted", "restore.truncated", "restore.written"}
    /\ sess[s].alone
    /\ sess[s].lab \notin RunningLabs
    => content[sess[s].lab] = content[sess[s].snapshot]

\* What a destroyed lab had is gone, however the requests overlapped; only a
\* restore, which does not look at the lab's state, puts files back.
OnlyRestoresRefillDestroyedLabs ==
  \A l \in Labs \ RunningLabs :
    state[l] = "destroyed" /\ content[l] # {} => <<"refilled", l>> \in history

\* A manifest that does not parse, which makes GET /snapshots fail for every
\* snapshot, is being rewritten by a restore or was left by one that died
\* between truncating and writing it.
TornManifestsHaveACause ==
  \A x \in row :
    manifest[x] = "torn" =>
      \/ <<"interrupted", x>> \in history
      \/ \E s \in Sessions : At(s, "restore.truncated") /\ sess[s].snapshot = x

-----------------------------------------------------------------------------
(* Why: what the sessions may rely on *)

Creating(s) == sess[s].pc \in {"create.loaded", "create.opened", "create.archived",
                               "create.written"}

Restoring(s) == sess[s].pc \in {"restore.checked", "restore.cleared",
                                "restore.extracted", "restore.truncated",
                                "restore.written"}

\* A snapshot that is being made is its session's own, and has no row yet; one
\* that is being restored has one.
NamesWellFounded ==
  /\ \A s \in Sessions :
       /\ Creating(s) => /\ sess[s].snapshot \notin row
                         /\ manifest[sess[s].snapshot] # "torn"
       /\ Restoring(s) => sess[s].snapshot \in row
  /\ \A s, t \in Sessions :
       Creating(s) /\ Creating(t) /\ sess[s].snapshot = sess[t].snapshot => s = t

\* The files of a snapshot are complete before its row is written, unless the
\* lab's tree is removed meanwhile.
FilesBeforeRow ==
  \A s \in Sessions :
    /\ sess[s].pc \in {"create.archived", "create.written"} =>
         /\ archive[sess[s].snapshot] # "partial"
         /\ ~Wiped(Source(sess[s].snapshot)) => archive[sess[s].snapshot] = "complete"
    /\ At(s, "create.written") =>
         (~Wiped(Source(sess[s].snapshot)) => manifest[sess[s].snapshot] # "absent")

\* While a session is alone every other one is idle.
AloneIsAlone ==
  \A s, t \in Sessions : sess[s] # Idle /\ sess[s].alone /\ t # s => sess[t] = Idle

\* What a restore that is alone has found and made.
UndisturbedRestores ==
  \A s \in Sessions :
    sess[s].pc \in {"restore.checked", "restore.cleared"} /\ sess[s].alone =>
      /\ archive[sess[s].snapshot] = "complete"
      /\ At(s, "restore.cleared") /\ sess[s].lab \notin RunningLabs =>
           content[sess[s].lab] = {}

\* Between the removal of a tree and its commit only a restore fills it.
OnlyRestoresRefillRemovedTrees ==
  \A s \in Sessions :
    At(s, "destroy.removed") /\ sess[s].lab \notin RunningLabs
      /\ content[sess[s].lab] # {} => <<"refilled", sess[s].lab>> \in history

IndInv ==
  /\ TypeOK
  /\ NamesWellFounded
  /\ FilesBeforeRow
  /\ AloneIsAlone
  /\ UndisturbedRestores
  /\ OnlyRestoresRefillRemovedTrees
  /\ RecordedSnapshotsAreKept
  /\ RestoresAreExact
  /\ OnlyRestoresRefillDestroyedLabs
  /\ TornManifestsHaveACause
=============================================================================
