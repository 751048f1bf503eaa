-------------------------- MODULE SnapshotsProofs ---------------------------
(***************************************************************************)
(* Workspace snapshots for any labs, snapshots, files and sessions: which  *)
(* rows have their files, what a restore throws away and leaves, and where *)
(* torn manifests come from.                                               *)
(*                                                                         *)
(* The first part says who writes what: each of archive, manifest, row,    *)
(* content and history is changed by a few steps only, and a session by    *)
(* its own.  The invariant is then preserved part by part.                 *)
(***************************************************************************)
EXTENDS Snapshots, TLAPS

-----------------------------------------------------------------------------
(* Sessions *)

CreateState ==
  [pc: {"create.loaded", "create.opened", "create.archived", "create.written"},
   snapshot: Snapshots, alone: BOOLEAN]

RestoreState ==
  [pc: {"restore.checked", "restore.cleared", "restore.extracted",
        "restore.truncated", "restore.written"},
   snapshot: Snapshots, lab: Labs, alone: BOOLEAN]

DestroyState ==
  [pc: {"destroy.loaded", "destroy.removed"}, lab: Labs, alone: BOOLEAN]

\* The program counter of a session tells which request it serves.
LEMMA SessionShape ==
  ASSUME TypeOK, NEW s \in Sessions
  PROVE /\ sess[s].pc = "idle" <=> sess[s] = Idle
        /\ Creating(s) <=> sess[s] \in CreateState
        /\ Restoring(s) <=> sess[s] \in RestoreState
        /\ sess[s].pc \in {"destroy.loaded", "destroy.removed"}
             <=> sess[s] \in DestroyState
        /\ \/ sess[s] = Idle \/ sess[s] \in CreateState
           \/ sess[s] \in RestoreState \/ sess[s] \in DestroyState
<1>1. \/ sess[s] = Idle \/ sess[s] \in CreateState
      \/ sess[s] \in RestoreState \/ sess[s] \in DestroyState
  BY DEF TypeOK, SessionState, CreateState, RestoreState, DestroyState
<1> QED
  BY <1>1 DEF Creating, Restoring, Idle, CreateState, RestoreState, DestroyState

\* A snapshot is in the tree of one of the labs.
LEMMA SourceIsLab ==
  ASSUME NEW x \in Snapshots
  PROVE Source(x) \in Labs /\ x \notin Labs
  BY SnapshotsAssumption DEF Source

\* What a session does not do itself leaves it where it was; another request
\* that begins takes its solitude away.
Kept(t) ==
  /\ sess'[t].pc = sess[t].pc
  /\ sess'[t].snapshot = sess[t].snapshot
  /\ sess'[t].lab = sess[t].lab
  /\ sess[t] # Idle /\ sess'[t].alone => sess[t].alone
  /\ sess'[t] = Idle <=> sess[t] = Idle

Begins(s) ==
  \/ \E x \in Snapshots : BeginCreate(s, x)
  \/ \E x \in Snapshots, l \in Labs : BeginRestore(s, x, l)
  \/ \E l \in Labs : BeginDestroy(s, l)

Continues(s) == CreateStep(s) \/ RestoreStep(s) \/ DestroyStep(s) \/ Abort(s)

LEMMA Steps ==
  ASSUME [Next]_vars
  PROVE \/ UNCHANGED vars
        \/ \E s \in Sessions : Begins(s) \/ Continues(s)
        \/ \E l \in Labs, f \in Files : GuestWrites(l, f)
  BY DEF Next, Begins, Continues

\* A session goes on to another step of its request.
LEMMA GoesTo ==
  ASSUME TypeOK, NEW s \in Sessions, NEW p, GoTo(s, p), sess[s] # Idle
  PROVE /\ sess'[s].pc = p
        /\ sess'[s].snapshot = sess[s].snapshot
        /\ sess'[s].lab = sess[s].lab
        /\ sess'[s].alone = sess[s].alone
        /\ \A t \in Sessions \ {s} : sess'[t] = sess[t]
<1>1. sess \in [Sessions -> SessionState]
  BY DEF TypeOK
<1>2. sess'[s] = [sess[s] EXCEPT !.pc = p] /\ \A t \in Sessions \ {s} : sess'[t] = sess[t]
  BY <1>1 DEF GoTo
<1>3. "pc" \in DOMAIN sess[s]
  BY SessionShape DEF CreateState, RestoreState, DestroyState
<1> QED
  BY <1>2, <1>3

\* A session ends.
LEMMA Finishes ==
  ASSUME TypeOK, NEW s \in Sessions, Finish(s)
  PROVE sess'[s] = Idle /\ \A t \in Sessions \ {s} : sess'[t] = sess[t]
  BY DEF TypeOK, Finish

\* A session begins.
LEMMA Loads ==
  ASSUME TypeOK, NEW s \in Sessions, NEW STATE r, Load(s, r)
  PROVE /\ sess[s] = Idle /\ sess'[s] = r
        /\ \A t \in Sessions \ {s} :
             /\ Kept(t)
             /\ sess[t] # Idle => sess'[t].alone = FALSE
<1>1. sess[s] = Idle /\ sess'[s] = r
  BY DEF Load
<1>2. ASSUME NEW t \in Sessions \ {s}, sess[t] = Idle PROVE sess'[t] = Idle
  BY <1>2 DEF Load
<1>3. ASSUME NEW t \in Sessions \ {s}, sess[t] # Idle
      PROVE Kept(t) /\ sess'[t].alone = FALSE
  <2>1. sess'[t] = [sess[t] EXCEPT !.alone = FALSE]
    BY <1>3 DEF Load
  <2>2. /\ sess'[t].pc = sess[t].pc /\ sess'[t].snapshot = sess[t].snapshot
        /\ sess'[t].lab = sess[t].lab /\ sess'[t].alone = FALSE
    BY <1>3, <2>1, SessionShape DEF CreateState, RestoreState, DestroyState
  <2>3. sess[t].pc # "idle"
    BY <1>3, SessionShape
  <2> QED
    BY <1>3, <2>2, <2>3 DEF Kept, Idle
<1> QED
  BY <1>1, <1>2, <1>3 DEF Kept

\* Every step of a session but the first ends it or moves it on, and leaves the
\* other sessions alone.
LEMMA OnlyOwnSession ==
  ASSUME TypeOK, NEW s \in Sessions, Continues(s)
  PROVE /\ sess[s] # Idle
        /\ \A t \in Sessions \ {s} : sess'[t] = sess[t]
<1>1. sess[s] # Idle
  BY DEF Continues, CreateStep, RestoreStep, DestroyStep, OpenArchive, AddWorkspace,
         AddWorkspaceFails, WriteManifest, CommitCreate, ClearWorkspace,
         ClearWorkspaceFails, Extract, ExtractFails, TruncateManifest,
         RewriteManifest, CommitRestore, RemoveTree, RemoveTreeFails, CommitDestroy,
         Abort, At, Idle
<1>2. Finish(s) \/ \E p : GoTo(s, p)
  BY DEF Continues, CreateStep, RestoreStep, DestroyStep, OpenArchive, AddWorkspace,
         AddWorkspaceFails, WriteManifest, CommitCreate, ClearWorkspace,
         ClearWorkspaceFails, Extract, ExtractFails, TruncateManifest,
         RewriteManifest, CommitRestore, RemoveTree, RemoveTreeFails, CommitDestroy,
         Abort
<1> QED
  BY <1>1, <1>2, GoesTo, Finishes

\* A request that begins changes nothing but the sessions.
LEMMA BeginsWritesNothing ==
  ASSUME NEW s \in Sessions, Begins(s)
  PROVE UNCHANGED <<state, dirs, content, archive, manifest, row, audit, history>>
  BY DEF Begins, BeginCreate, BeginRestore, BeginDestroy, db

\* Whatever happens to a session is its own step, or leaves it in place.
LEMMA SessionStep ==
  ASSUME TypeOK, [Next]_vars, NEW t \in Sessions
  PROVE Kept(t) \/ Begins(t) \/ Continues(t)
<1>1. CASE UNCHANGED sess
  BY <1>1 DEF Kept
<1>2. ASSUME NEW s \in Sessions, Begins(s), s # t PROVE Kept(t)
  BY <1>2, Loads DEF Begins, BeginCreate, BeginRestore, BeginDestroy
<1>3. ASSUME NEW s \in Sessions, Continues(s), s # t PROVE Kept(t)
  <2>1. sess'[t] = sess[t]
    BY <1>3, OnlyOwnSession
  <2> QED
    BY <2>1 DEF Kept
<1> QED
  BY <1>1, <1>2, <1>3, Steps DEF vars, GuestWrites

\* Which step has brought a session where it is.
LEMMA PcStep ==
  ASSUME TypeOK, NEW t \in Sessions, Begins(t) \/ Continues(t)
  PROVE /\ sess'[t].pc = "create.loaded" => \E x \in Snapshots : BeginCreate(t, x)
        /\ sess'[t].pc = "create.opened" => OpenArchive(t)
        /\ sess'[t].pc = "create.archived" => AddWorkspace(t)
        /\ sess'[t].pc = "create.written" => WriteManifest(t)
        /\ sess'[t].pc = "restore.checked" =>
             \E x \in Snapshots, l \in Labs : BeginRestore(t, x, l)
        /\ sess'[t].pc = "restore.cleared" => ClearWorkspace(t)
        /\ sess'[t].pc = "restore.extracted" => Extract(t)
        /\ sess'[t].pc = "restore.truncated" => TruncateManifest(t)
        /\ sess'[t].pc = "restore.written" => RewriteManifest(t)
        /\ sess'[t].pc = "destroy.removed" => RemoveTree(t)
<1>1. ASSUME NEW x \in Snapshots, BeginCreate(t, x)
      PROVE sess'[t].pc = "create.loaded"
  BY <1>1 DEF BeginCreate, Load
<1>2. ASSUME NEW x \in Snapshots, NEW l \in Labs, BeginRestore(t, x, l)
      PROVE sess'[t].pc = "restore.checked"
  BY <1>2 DEF BeginRestore, Load
<1>3. ASSUME NEW l \in Labs, BeginDestroy(t, l)
      PROVE sess'[t].pc = "destroy.loaded"
  BY <1>3 DEF BeginDestroy, Load
<1>4. CASE Finish(t)
  BY <1>4, Finishes DEF Idle
<1>5. ASSUME Continues(t)
      PROVE /\ OpenArchive(t) => sess'[t].pc = "create.opened"
            /\ AddWorkspace(t) => sess'[t].pc = "create.archived"
            /\ WriteManifest(t) => sess'[t].pc = "create.written"
            /\ ClearWorkspace(t) => sess'[t].pc = "restore.cleared"
            /\ Extract(t) => sess'[t].pc = "restore.extracted"
            /\ TruncateManifest(t) => sess'[t].pc = "restore.truncated"
            /\ RewriteManifest(t) => sess'[t].pc = "restore.written"
            /\ RemoveTree(t) => sess'[t].pc = "destroy.removed"
  BY <1>5, OnlyOwnSession, GoesTo
  DEF OpenArchive, AddWorkspace, WriteManifest, ClearWorkspace, Extract,
      TruncateManifest, RewriteManifest, RemoveTree
<1>6. ASSUME Continues(t), ~Finish(t)
      PROVE \/ OpenArchive(t) \/ AddWorkspace(t) \/ WriteManifest(t)
            \/ ClearWorkspace(t) \/ Extract(t) \/ TruncateManifest(t)
            \/ RewriteManifest(t) \/ RemoveTree(t)
  BY <1>6 DEF Continues, CreateStep, RestoreStep, DestroyStep, AddWorkspaceFails,
              CommitCreate, ClearWorkspaceFails, ExtractFails, CommitRestore,
              RemoveTreeFails, CommitDestroy, Abort
<1>7. CASE Begins(t)
  BY <1>1, <1>2, <1>3, <1>7 DEF Begins
<1>8. CASE Continues(t)
  BY <1>4, <1>5, <1>6, <1>8
<1> QED
  BY <1>7, <1>8

-----------------------------------------------------------------------------
(* Who writes what *)

\* Of the lab's tree nothing is left but what rmtree kept.
LEMMA Removes ==
  ASSUME TypeOK, NEW s \in Sessions, RemoveTree(s) \/ RemoveTreeFails(s)
  PROVE /\ At(s, "destroy.loaded")
        /\ sess[s].lab \in Labs
        /\ \A x \in Snapshots :
             Source(x) # sess[s].lab =>
               archive'[x] = archive[x] /\ manifest'[x] = manifest[x]
        /\ \A x \in Snapshots : archive'[x] \in {"absent", archive[x]}
        /\ \A x \in Snapshots : manifest'[x] \in {"absent", manifest[x]}
        /\ \A h \in Labs \cup Snapshots :
             h # sess[s].lab => content'[h] = content[h]
        /\ content'[sess[s].lab] \subseteq content[sess[s].lab]
        /\ history' = history \cup {<<"wiped", sess[s].lab>>}
        /\ UNCHANGED <<state, row, audit>>
        /\ Finish(s) \/ content'[sess[s].lab] = {}
<1>1. At(s, "destroy.loaded") /\ sess[s].lab \in Labs
  BY SessionShape DEF RemoveTree, RemoveTreeFails, At, DestroyState
<1>2. \E D, F, A, M : /\ Reduced(sess[s].lab, D, F, A, M)
                      /\ Finish(s) \/ F = {}
  BY DEF RemoveTree, RemoveTreeFails
<1>3. ASSUME NEW D, NEW F, NEW A, NEW M, Reduced(sess[s].lab, D, F, A, M)
      PROVE /\ \A x \in Snapshots :
                 Source(x) # sess[s].lab =>
                   archive'[x] = archive[x] /\ manifest'[x] = manifest[x]
            /\ \A x \in Snapshots : archive'[x] \in {"absent", archive[x]}
            /\ \A x \in Snapshots : manifest'[x] \in {"absent", manifest[x]}
            /\ \A h \in Labs \cup Snapshots :
                 h # sess[s].lab => content'[h] = content[h]
            /\ content'[sess[s].lab] = content[sess[s].lab] \cap F
            /\ history' = history \cup {<<"wiped", sess[s].lab>>}
  BY <1>1, <1>3 DEF Reduced, TypeOK
<1>4. UNCHANGED <<state, row, audit>>
  BY DEF RemoveTree, RemoveTreeFails, db
<1> QED
  BY <1>1, <1>2, <1>3, <1>4

\* The snapshot or the lab of a session, in its set.
LEMMA Holds ==
  ASSUME TypeOK, NEW s \in Sessions
  PROVE /\ Creating(s) => sess[s].snapshot \in Snapshots
        /\ Restoring(s) => sess[s].snapshot \in Snapshots /\ sess[s].lab \in Labs
        /\ sess[s].pc \in {"destroy.loaded", "destroy.removed"} => sess[s].lab \in Labs
        /\ sess[s] # Idle => sess[s].alone \in BOOLEAN
  BY SessionShape DEF CreateState, RestoreState, DestroyState

\* An archive is written by the session that makes the snapshot, and removed
\* with the tree.
LEMMA ArchiveWriters ==
  ASSUME TypeOK, [Next]_vars, NEW x \in Snapshots
  PROVE \/ archive'[x] = archive[x]
        \/ \E s \in Sessions : /\ OpenArchive(s) \/ AddWorkspace(s)
                               /\ sess[s].snapshot = x
        \/ /\ archive'[x] = "absent" /\ <<"wiped", Source(x)>> \in history'
           /\ \E s \in Sessions : RemoveTree(s) \/ RemoveTreeFails(s)
<1>1. CASE UNCHANGED archive
  BY <1>1
<1>2. ASSUME NEW s \in Sessions, OpenArchive(s) \/ AddWorkspace(s)
      PROVE archive'[x] = archive[x] \/ sess[s].snapshot = x
  BY <1>2 DEF OpenArchive, AddWorkspace, TypeOK
<1>3. ASSUME NEW s \in Sessions, RemoveTree(s) \/ RemoveTreeFails(s)
      PROVE \/ archive'[x] = archive[x]
            \/ archive'[x] = "absent" /\ <<"wiped", Source(x)>> \in history'
  BY <1>3, Removes
<1>4. ASSUME NEW s \in Sessions, Continues(s)
      PROVE \/ UNCHANGED archive
            \/ OpenArchive(s) \/ AddWorkspace(s) \/ RemoveTree(s) \/ RemoveTreeFails(s)
  BY <1>4 DEF Continues, CreateStep, RestoreStep, DestroyStep, AddWorkspaceFails,
              WriteManifest, CommitCreate, ClearWorkspace, ClearWorkspaceFails,
              Extract, ExtractFails, TruncateManifest, RewriteManifest,
              CommitRestore, CommitDestroy, Abort
<1> QED
  BY <1>1, <1>2, <1>3, <1>4, Steps, BeginsWritesNothing DEF vars, GuestWrites

\* A manifest is written by the session that makes the snapshot and by its
\* restores, and removed with the tree.
LEMMA ManifestWriters ==
  ASSUME TypeOK, [Next]_vars, NEW x \in Snapshots
  PROVE \/ manifest'[x] = manifest[x]
        \/ \E s \in Sessions :
             /\ sess[s].snapshot = x
             /\ \/ WriteManifest(s) /\ manifest'[x] = "created"
                \/ TruncateManifest(s) /\ manifest'[x] = "torn"
                \/ RewriteManifest(s) /\ manifest'[x] = "restored"
        \/ manifest'[x] = "absent" /\ <<"wiped", Source(x)>> \in history'
<1>1. CASE UNCHANGED manifest
  BY <1>1
<1>2. ASSUME NEW s \in Sessions, WriteManifest(s)
      PROVE \/ manifest'[x] = manifest[x]
            \/ sess[s].snapshot = x /\ manifest'[x] = "created"
  BY <1>2 DEF WriteManifest, TypeOK
<1>3. ASSUME NEW s \in Sessions, TruncateManifest(s)
      PROVE \/ manifest'[x] = manifest[x]
            \/ sess[s].snapshot = x /\ manifest'[x] = "torn"
  BY <1>3 DEF TruncateManifest, TypeOK
<1>4. ASSUME NEW s \in Sessions, RewriteManifest(s)
      PROVE \/ manifest'[x] = manifest[x]
            \/ sess[s].snapshot = x /\ manifest'[x] = "restored"
  BY <1>4 DEF RewriteManifest, TypeOK
<1>5. ASSUME NEW s \in Sessions, RemoveTree(s) \/ RemoveTreeFails(s)
      PROVE \/ manifest'[x] = manifest[x]
            \/ manifest'[x] = "absent" /\ <<"wiped", Source(x)>> \in history'
  BY <1>5, Removes
<1>6. ASSUME NEW s \in Sessions, Continues(s)
      PROVE \/ UNCHANGED manifest
            \/ WriteManifest(s) \/ TruncateManifest(s) \/ RewriteManifest(s)
            \/ RemoveTree(s) \/ RemoveTreeFails(s)
  BY <1>6 DEF Continues, CreateStep, RestoreStep, DestroyStep, AddWorkspaceFails,
              OpenArchive, AddWorkspace, CommitCreate, ClearWorkspace,
              ClearWorkspaceFails, Extract, ExtractFails, CommitRestore,
              CommitDestroy, Abort
<1> QED
  BY <1>1, <1>2, <1>3, <1>4, <1>5, <1>6, Steps, BeginsWritesNothing
  DEF vars, GuestWrites

\* A row is written once its snapshot is, and kept.
LEMMA RowWriters ==
  ASSUME TypeOK, [Next]_vars
  PROVE \/ UNCHANGED row
        \/ \E s \in Sessions : CommitCreate(s) /\ row' = row \cup {sess[s].snapshot}
<1>1. ASSUME NEW s \in Sessions, Continues(s)
      PROVE UNCHANGED row \/ CommitCreate(s)
  BY <1>1 DEF Continues, CreateStep, RestoreStep, DestroyStep, AddWorkspaceFails,
              OpenArchive, AddWorkspace, WriteManifest, ClearWorkspace,
              ClearWorkspaceFails, Extract, ExtractFails, TruncateManifest,
              RewriteManifest, CommitRestore, RemoveTree, RemoveTreeFails,
              CommitDestroy, Abort, db
<1> QED
  BY <1>1, Steps, BeginsWritesNothing DEF vars, GuestWrites, CommitCreate, db

\* The history only grows.
LEMMA HistoryGrows ==
  ASSUME TypeOK, [Next]_vars
  PROVE history \subseteq history'
<1>1. ASSUME NEW s \in Sessions, Continues(s)
      PROVE history \subseteq history'
  BY <1>1, Removes
  DEF Continues, CreateStep, RestoreStep, DestroyStep, AddWorkspaceFails, OpenArchive,
      AddWorkspace, WriteManifest, CommitCreate, ClearWorkspace, ClearWorkspaceFails,
      Extract, ExtractFails, Extracted, TruncateManifest, RewriteManifest,
      CommitRestore, CommitDestroy, Abort
<1> QED
  BY <1>1, Steps, BeginsWritesNothing DEF vars, GuestWrites

\* What went into an archive is written by the session that makes it.
LEMMA ArchivedWriters ==
  ASSUME TypeOK, [Next]_vars, NEW x \in Snapshots
  PROVE \/ content'[x] = content[x]
        \/ \E s \in Sessions : AddWorkspace(s) /\ sess[s].snapshot = x
<1>0. x \notin Labs
  BY SourceIsLab
<1>1. ASSUME NEW s \in Sessions, AddWorkspace(s)
      PROVE content'[x] = content[x] \/ sess[s].snapshot = x
  BY <1>1 DEF AddWorkspace, TypeOK
<1>2. ASSUME NEW s \in Sessions, ClearWorkspace(s) \/ ClearWorkspaceFails(s)
      PROVE content'[x] = content[x]
  <2>1. sess[s].lab \in Labs
    BY <1>2, Holds DEF ClearWorkspace, ClearWorkspaceFails, At, Restoring
  <2> QED
    BY <1>0, <1>2, <2>1 DEF ClearWorkspace, ClearWorkspaceFails, TypeOK
<1>3. ASSUME NEW s \in Sessions, Extract(s) \/ ExtractFails(s)
      PROVE content'[x] = content[x]
  <2>1. sess[s].lab \in Labs
    BY <1>3, Holds DEF Extract, ExtractFails, At, Restoring
  <2> QED
    BY <1>0, <1>3, <2>1 DEF Extract, ExtractFails, Extracted, TypeOK
<1>4. ASSUME NEW s \in Sessions, RemoveTree(s) \/ RemoveTreeFails(s)
      PROVE content'[x] = content[x]
  BY <1>0, <1>4, Removes
<1>5. ASSUME NEW l \in Labs, NEW f \in Files, GuestWrites(l, f)
      PROVE content'[x] = content[x]
  BY <1>0, <1>5 DEF GuestWrites, TypeOK
<1>6. ASSUME NEW s \in Sessions, Continues(s)
      PROVE \/ UNCHANGED content
            \/ AddWorkspace(s) \/ ClearWorkspace(s) \/ ClearWorkspaceFails(s)
            \/ Extract(s) \/ ExtractFails(s) \/ RemoveTree(s) \/ RemoveTreeFails(s)
  BY <1>6 DEF Continues, CreateStep, RestoreStep, DestroyStep, AddWorkspaceFails,
              OpenArchive, WriteManifest, CommitCreate, TruncateManifest,
              RewriteManifest, CommitRestore, CommitDestroy, Abort
<1> QED
  BY <1>1, <1>2, <1>3, <1>4, <1>5, <1>6, Steps, BeginsWritesNothing DEF vars

\* A workspace is filled by a restore or by its running guest only.
LEMMA WorkspaceWriters ==
  ASSUME TypeOK, [Next]_vars, NEW l \in Labs
  PROVE \/ content'[l] = content[l]
        \/ /\ content'[l] \subseteq content[l]
           /\ \E s \in Sessions : \/ ClearWorkspace(s) \/ ClearWorkspaceFails(s)
                                  \/ RemoveTree(s) \/ RemoveTreeFails(s)
        \/ /\ <<"refilled", l>> \in history'
           /\ \E s \in Sessions : Extract(s) \/ ExtractFails(s)
        \/ l \in RunningLabs
<1>1. ASSUME NEW s \in Sessions, AddWorkspace(s)
      PROVE content'[l] = content[l]
  <2>1. sess[s].snapshot \in Snapshots
    BY <1>1, Holds DEF AddWorkspace, At, Creating
  <2>2. sess[s].snapshot # l
    BY <2>1, SourceIsLab
  <2> QED
    BY <1>1, <2>2 DEF AddWorkspace, TypeOK
<1>2. ASSUME NEW s \in Sessions, ClearWorkspace(s) \/ ClearWorkspaceFails(s)
      PROVE content'[l] \subseteq content[l]
  <2>1. sess[s].lab \in Labs
    BY <1>2, Holds DEF ClearWorkspace, ClearWorkspaceFails, At, Restoring
  <2> QED
    BY <1>2, <2>1 DEF ClearWorkspace, ClearWorkspaceFails, TypeOK
<1>3. ASSUME NEW s \in Sessions, Extract(s) \/ ExtractFails(s)
      PROVE content'[l] = content[l] \/ <<"refilled", l>> \in history'
  BY <1>3 DEF Extract, ExtractFails, Extracted, TypeOK
<1>4. ASSUME NEW s \in Sessions, RemoveTree(s) \/ RemoveTreeFails(s)
      PROVE content'[l] \subseteq content[l]
  BY <1>4, Removes
<1>5. ASSUME NEW k \in Labs, NEW f \in Files, GuestWrites(k, f)
      PROVE content'[l] = content[l] \/ l \in RunningLabs
  BY <1>5 DEF GuestWrites, TypeOK
<1>6. ASSUME NEW s \in Sessions, Continues(s)
      PROVE \/ UNCHANGED content
            \/ AddWorkspace(s) \/ ClearWorkspace(s) \/ ClearWorkspaceFails(s)
            \/ Extract(s) \/ ExtractFails(s) \/ RemoveTree(s) \/ RemoveTreeFails(s)
  BY <1>6 DEF Continues, CreateStep, RestoreStep, DestroyStep, AddWorkspaceFails,
              OpenArchive, WriteManifest, CommitCreate, TruncateManifest,
              RewriteManifest, CommitRestore, CommitDestroy, Abort
<1> QED
  BY <1>1, <1>2, <1>3, <1>4, <1>5, <1>6, Steps, BeginsWritesNothing DEF vars

-----------------------------------------------------------------------------
(* Types *)

\* A session that goes on or ends keeps its type.
LEMMA SessionTypes ==
  ASSUME TypeOK, NEW s \in Sessions
  PROVE /\ Finish(s) => sess' \in [Sessions -> SessionState]
        /\ \A p : GoTo(s, p) /\ Creating(s)
                    /\ p \in {"create.opened", "create.archived", "create.written"}
                  => sess' \in [Sessions -> SessionState]
        /\ \A p : GoTo(s, p) /\ Restoring(s)
                    /\ p \in {"restore.cleared", "restore.extracted",
                              "restore.truncated", "restore.written"}
                  => sess' \in [Sessions -> SessionState]
        /\ GoTo(s, "destroy.removed") /\ At(s, "destroy.loaded")
             => sess' \in [Sessions -> SessionState]
<1>0. sess \in [Sessions -> SessionState]
  BY DEF TypeOK
<1>1. Finish(s) => sess' \in [Sessions -> SessionState]
  BY <1>0 DEF Finish, SessionState
<1>2. ASSUME NEW p, GoTo(s, p), [sess[s] EXCEPT !.pc = p] \in SessionState
      PROVE sess' \in [Sessions -> SessionState]
  BY <1>0, <1>2 DEF GoTo
<1>3. ASSUME NEW p \in {"create.opened", "create.archived", "create.written"},
             Creating(s)
      PROVE [sess[s] EXCEPT !.pc = p] \in SessionState
  <2>1. sess[s] \in CreateState
    BY <1>3, SessionShape
  <2> QED
    BY <1>3, <2>1 DEF CreateState, SessionState
<1>4. ASSUME NEW p \in {"restore.cleared", "restore.extracted",
                        "restore.truncated", "restore.written"},
             Restoring(s)
      PROVE [sess[s] EXCEPT !.pc = p] \in SessionState
  <2>1. sess[s] \in RestoreState
    BY <1>4, SessionShape
  <2> QED
    BY <1>4, <2>1 DEF RestoreState, SessionState
<1>5. ASSUME At(s, "destroy.loaded")
      PROVE [sess[s] EXCEPT !.pc = "destroy.removed"] \in SessionState
  <2>1. sess[s] \in DestroyState
    BY <1>5, SessionShape DEF At
  <2> QED
    BY <1>5, <2>1 DEF DestroyState, SessionState
<1> QED
  BY <1>1, <1>2, <1>3, <1>4, <1>5

\* So does one that begins, and the others.
LEMMA LoadTypes ==
  ASSUME TypeOK, NEW s \in Sessions, NEW STATE r, r \in SessionState, Load(s, r)
  PROVE sess' \in [Sessions -> SessionState]
<1>1. ASSUME NEW t \in Sessions, sess[t] # Idle
      PROVE [sess[t] EXCEPT !.alone = FALSE] \in SessionState
  <2>1. CASE sess[t] \in CreateState
    BY <2>1 DEF CreateState, SessionState
  <2>2. CASE sess[t] \in RestoreState
    BY <2>2 DEF RestoreState, SessionState
  <2>3. CASE sess[t] \in DestroyState
    BY <2>3 DEF DestroyState, SessionState
  <2> QED
    BY <1>1, <2>1, <2>2, <2>3, SessionShape
<1>2. Idle \in SessionState
  BY DEF SessionState
<1> QED
  BY <1>1, <1>2 DEF Load

LEMMA TypeStep == TypeOK /\ [Next]_vars => TypeOK'
<1> SUFFICES ASSUME TypeOK, [Next]_vars PROVE TypeOK'
  OBVIOUS
<1>1. ASSUME NEW s \in Sessions, Begins(s) PROVE sess' \in [Sessions -> SessionState]
  <2>0. NoneActive \in BOOLEAN
    BY DEF NoneActive
  <2>1. ASSUME NEW x \in Snapshots, BeginCreate(s, x)
        PROVE sess' \in [Sessions -> SessionState]
    <3>1. [pc |-> "create.loaded", snapshot |-> x, alone |-> NoneActive] \in SessionState
      BY <2>0 DEF SessionState
    <3> QED
      BY <2>1, <3>1, LoadTypes DEF BeginCreate
  <2>2. ASSUME NEW x \in Snapshots, NEW l \in Labs, BeginRestore(s, x, l)
        PROVE sess' \in [Sessions -> SessionState]
    <3>1. [pc |-> "restore.checked", snapshot |-> x, lab |-> l, alone |-> NoneActive]
            \in SessionState
      BY <2>0 DEF SessionState
    <3> QED
      BY <2>2, <3>1, LoadTypes DEF BeginRestore
  <2>3. ASSUME NEW l \in Labs, BeginDestroy(s, l)
        PROVE sess' \in [Sessions -> SessionState]
    <3>1. [pc |-> "destroy.loaded", lab |-> l, alone |-> NoneActive] \in SessionState
      BY <2>0 DEF SessionState
    <3> QED
      BY <2>3, <3>1, LoadTypes DEF BeginDestroy
  <2> QED
    BY <1>1, <2>1, <2>2, <2>3 DEF Begins
<1>2. ASSUME NEW s \in Sessions, Begins(s) PROVE TypeOK'
  BY <1>1, <1>2, BeginsWritesNothing DEF TypeOK
<1>3. ASSUME NEW s \in Sessions, CreateStep(s) PROVE TypeOK'
  <2>1. /\ Creating(s) /\ sess[s].snapshot \in Snapshots
        /\ Source(sess[s].snapshot) \in Labs
    BY <1>3, Holds, SourceIsLab
    DEF CreateStep, OpenArchive, AddWorkspace, AddWorkspaceFails, WriteManifest,
        CommitCreate, At, Creating
  <2>2. sess' \in [Sessions -> SessionState]
    BY <1>3, <2>1, SessionTypes
    DEF CreateStep, OpenArchive, AddWorkspace, AddWorkspaceFails, WriteManifest,
        CommitCreate
  <2>3. CASE OpenArchive(s)
    BY <2>1, <2>2, <2>3 DEF OpenArchive, TypeOK, db, ArchiveState, Directories
  <2>4. CASE AddWorkspace(s)
    BY <2>1, <2>2, <2>4 DEF AddWorkspace, TypeOK, db, ArchiveState
  <2>5. CASE AddWorkspaceFails(s)
    BY <2>2, <2>5 DEF AddWorkspaceFails, TypeOK, db
  <2>6. CASE WriteManifest(s)
    BY <2>1, <2>2, <2>6 DEF WriteManifest, TypeOK, db, ManifestState
  <2>7. CASE CommitCreate(s)
    BY <2>1, <2>2, <2>7 DEF CommitCreate, TypeOK, Record, EventType
  <2> QED
    BY <1>3, <2>3, <2>4, <2>5, <2>6, <2>7 DEF CreateStep
<1>4. ASSUME NEW s \in Sessions, RestoreStep(s) PROVE TypeOK'
  <2>1. Restoring(s) /\ sess[s].snapshot \in Snapshots /\ sess[s].lab \in Labs
    BY <1>4, Holds
    DEF RestoreStep, ClearWorkspace, ClearWorkspaceFails, Extract, ExtractFails,
        TruncateManifest, RewriteManifest, CommitRestore, At, Restoring
  <2>2. sess' \in [Sessions -> SessionState]
    BY <1>4, <2>1, SessionTypes
    DEF RestoreStep, ClearWorkspace, ClearWorkspaceFails, Extract, ExtractFails,
        TruncateManifest, RewriteManifest, CommitRestore
  <2>3. CASE ClearWorkspace(s)
    BY <2>1, <2>2, <2>3 DEF ClearWorkspace, TypeOK, db, Directories
  <2>4. CASE ClearWorkspaceFails(s)
    BY <2>1, <2>2, <2>4 DEF ClearWorkspaceFails, TypeOK, db, Directories
  <2>5. CASE Extract(s)
    BY <2>1, <2>2, <2>5 DEF Extract, Extracted, TypeOK, db, Directories
  <2>6. CASE ExtractFails(s)
    BY <2>1, <2>2, <2>6 DEF ExtractFails, Extracted, TypeOK, db, Directories
  <2>7. CASE TruncateManifest(s)
    BY <2>1, <2>2, <2>7 DEF TruncateManifest, TypeOK, db, ManifestState
  <2>8. CASE RewriteManifest(s)
    BY <2>1, <2>2, <2>8 DEF RewriteManifest, TypeOK, db, ManifestState
  <2>9. CASE CommitRestore(s)
    BY <2>1, <2>2, <2>9 DEF CommitRestore, TypeOK, Record, EventType
  <2> QED
    BY <1>4, <2>3, <2>4, <2>5, <2>6, <2>7, <2>8, <2>9 DEF RestoreStep
<1>5. ASSUME NEW s \in Sessions, DestroyStep(s) PROVE TypeOK'
  <2>1. sess[s].lab \in Labs
    BY <1>5, Holds DEF DestroyStep, RemoveTree, RemoveTreeFails, CommitDestroy, At
  <2>2. sess' \in [Sessions -> SessionState]
    BY <1>5, SessionTypes DEF DestroyStep, RemoveTree, RemoveTreeFails, CommitDestroy
  <2>3. ASSUME NEW D, NEW F, NEW A, NEW M, Reduced(sess[s].lab, D, F, A, M)
        PROVE /\ dirs' \subseteq Labs \X Directories
              /\ content' \in [Labs \cup Snapshots -> SUBSET Files]
              /\ archive' \in [Snapshots -> ArchiveState]
              /\ manifest' \in [Snapshots -> ManifestState]
              /\ history' \subseteq {"wiped", "refilled", "interrupted"}
                                      \X (Labs \cup Snapshots)
    BY <2>1, <2>3 DEF Reduced, TypeOK, ArchiveState, ManifestState
  <2>4. CASE RemoveTree(s)
    BY <2>2, <2>3, <2>4 DEF RemoveTree, TypeOK, db
  <2>5. CASE RemoveTreeFails(s)
    <3>1. \E D, F, A, M : Reduced(sess[s].lab, D, F, A, M)
      BY <2>5 DEF RemoveTreeFails
    <3> QED
      BY <2>2, <2>3, <2>5, <3>1 DEF RemoveTreeFails, TypeOK, db
  <2>6. CASE CommitDestroy(s)
    BY <2>1, <2>2, <2>6 DEF CommitDestroy, TypeOK, Record, EventType
  <2> QED
    BY <1>5, <2>4, <2>5, <2>6 DEF DestroyStep
<1>6. ASSUME NEW s \in Sessions, Abort(s) PROVE TypeOK'
  BY <1>6, SessionTypes DEF Abort, TypeOK, db
<1>7. ASSUME NEW l \in Labs, NEW f \in Files, GuestWrites(l, f) PROVE TypeOK'
  BY <1>7 DEF GuestWrites, TypeOK, db
<1>8. CASE UNCHANGED vars
  BY <1>8 DEF vars, TypeOK
<1> QED
  BY <1>2, <1>3, <1>4, <1>5, <1>6, <1>7, <1>8, Steps DEF Continues

-----------------------------------------------------------------------------
(* Sessions that go on *)

\* A step of a session takes it to another place.
LEMMA Moves ==
  ASSUME TypeOK, NEW s \in Sessions, Continues(s)
  PROVE sess'[s].pc # sess[s].pc
<1>1. CASE Finish(s)
  BY <1>1, OnlyOwnSession, Finishes, SessionShape DEF Idle
<1>2. ASSUME NEW p, GoTo(s, p), sess[s].pc # p PROVE sess'[s].pc # sess[s].pc
  BY <1>2, OnlyOwnSession, GoesTo
<1> QED
  BY <1>1, <1>2
  DEF Continues, CreateStep, RestoreStep, DestroyStep, OpenArchive, AddWorkspace,
      AddWorkspaceFails, WriteManifest, CommitCreate, ClearWorkspace,
      ClearWorkspaceFails, Extract, ExtractFails, TruncateManifest, RewriteManifest,
      CommitRestore, RemoveTree, RemoveTreeFails, CommitDestroy, Abort, At

\* A request keeps its snapshot and its lab until it ends.
LEMMA Carried ==
  ASSUME TypeOK, [Next]_vars, NEW t \in Sessions, Kept(t) \/ Continues(t),
         sess'[t] # Idle
  PROVE /\ sess[t] # Idle
        /\ sess'[t].snapshot = sess[t].snapshot
        /\ sess'[t].lab = sess[t].lab
        /\ sess'[t].alone => sess[t].alone
        /\ Creating(t)' <=> Creating(t)
        /\ Restoring(t)' <=> Restoring(t)
<1>1. CASE Kept(t)
  BY <1>1 DEF Kept, Creating, Restoring
<1>2. CASE Continues(t)
  <2>1. sess[t] # Idle /\ ~Finish(t)
    BY <1>2, OnlyOwnSession, Finishes
  <2>2. ASSUME NEW p, GoTo(t, p),
               \/ Creating(t) /\ p \in {"create.opened", "create.archived",
                                        "create.written"}
               \/ Restoring(t) /\ p \in {"restore.cleared", "restore.extracted",
                                         "restore.truncated", "restore.written"}
               \/ At(t, "destroy.loaded") /\ p = "destroy.removed"
        PROVE /\ sess'[t].snapshot = sess[t].snapshot
              /\ sess'[t].lab = sess[t].lab
              /\ sess'[t].alone => sess[t].alone
              /\ Creating(t)' <=> Creating(t)
              /\ Restoring(t)' <=> Restoring(t)
    BY <2>1, <2>2, GoesTo DEF Creating, Restoring, At
  <2>3. ASSUME OpenArchive(t) \/ AddWorkspace(t) \/ WriteManifest(t)
        PROVE \E p \in {"create.opened", "create.archived", "create.written"} :
                GoTo(t, p) /\ Creating(t)
    BY <2>3 DEF OpenArchive, AddWorkspace, WriteManifest, At, Creating
  <2>4. ASSUME \/ ClearWorkspace(t) \/ Extract(t) \/ TruncateManifest(t)
               \/ RewriteManifest(t)
        PROVE \E p \in {"restore.cleared", "restore.extracted",
                        "restore.truncated", "restore.written"} :
                GoTo(t, p) /\ Restoring(t)
    BY <2>4 DEF ClearWorkspace, Extract, TruncateManifest, RewriteManifest, At,
                Restoring
  <2>5. ASSUME RemoveTree(t)
        PROVE GoTo(t, "destroy.removed") /\ At(t, "destroy.loaded")
    BY <2>5 DEF RemoveTree
  <2>6. \/ OpenArchive(t) \/ AddWorkspace(t) \/ WriteManifest(t)
        \/ ClearWorkspace(t) \/ Extract(t) \/ TruncateManifest(t)
        \/ RewriteManifest(t) \/ RemoveTree(t)
    BY <1>2, <2>1
    DEF Continues, CreateStep, RestoreStep, DestroyStep, AddWorkspaceFails,
        CommitCreate, ClearWorkspaceFails, ExtractFails, CommitRestore,
        RemoveTreeFails, CommitDestroy, Abort
  <2> QED
    BY <2>1, <2>2, <2>3, <2>4, <2>5, <2>6
<1> QED
  BY <1>1, <1>2

\* One request begins at a time.
LEMMA OneBegins ==
  ASSUME TypeOK, NEW s \in Sessions, Begins(s), NEW t \in Sessions, t # s
  PROVE /\ Kept(t)
        /\ sess[t] # Idle => sess'[t].alone = FALSE
        /\ sess[s] = Idle
  BY Loads DEF Begins, BeginCreate, BeginRestore, BeginDestroy

-----------------------------------------------------------------------------
(* The parts of the invariant *)

\* uuid4 draws names that nobody else has.
LEMMA NamesStep ==
  ASSUME TypeOK, NamesWellFounded, [Next]_vars
  PROVE NamesWellFounded'
<1>1. ASSUME NEW s \in Sessions, Creating(s), sess'[s] # Idle,
             Kept(s) \/ Continues(s)
      PROVE sess[s].snapshot \notin row'
  <2>1. ASSUME NEW t \in Sessions, CommitCreate(t), sess[t].snapshot = sess[s].snapshot
        PROVE FALSE
    <3>1. s = t
      BY <1>1, <2>1 DEF NamesWellFounded, CommitCreate, Creating, At
    <3> QED
      BY <1>1, <2>1, <3>1, Finishes DEF CommitCreate
  <2> QED
    BY <1>1, <2>1, RowWriters DEF NamesWellFounded
<1>2. ASSUME NEW s \in Sessions, Creating(s)
      PROVE manifest'[sess[s].snapshot] # "torn"
  <2>1. sess[s].snapshot \in Snapshots /\ sess[s].snapshot \notin row
    BY <1>2, Holds DEF NamesWellFounded
  <2>2. ASSUME NEW t \in Sessions, TruncateManifest(t)
        PROVE sess[t].snapshot \in row
    BY <2>2 DEF NamesWellFounded, TruncateManifest, Restoring, At
  <2> QED
    BY <1>2, <2>1, <2>2, ManifestWriters DEF NamesWellFounded
<1>3. ASSUME NEW s \in Sessions, Begins(s), Creating(s)'
      PROVE /\ sess'[s].snapshot \notin row'
            /\ manifest'[sess'[s].snapshot] # "torn"
            /\ \A t \in Sessions : Creating(t) => sess[t].snapshot # sess'[s].snapshot
  <2>1. PICK x \in Snapshots : BeginCreate(s, x)
    BY <1>3 DEF Begins, BeginRestore, BeginDestroy, Load, Creating
  <2>2. sess'[s].snapshot = x
    BY <2>1 DEF BeginCreate, Load
  <2>3. ASSUME NEW t \in Sessions, Creating(t)
        PROVE sess[t] # Idle /\ "snapshot" \in DOMAIN sess[t]
    BY <2>3, SessionShape DEF CreateState, Idle, Creating
  <2> QED
    BY <2>1, <2>2, <2>3, BeginsWritesNothing, <1>3 DEF BeginCreate, FreshSnapshot
<1>4. ASSUME NEW s \in Sessions
      PROVE /\ Creating(s)' => /\ sess'[s].snapshot \notin row'
                               /\ manifest'[sess'[s].snapshot] # "torn"
            /\ Restoring(s)' => sess'[s].snapshot \in row'
  <2>1. CASE Kept(s) \/ Continues(s)
    <3>1. CASE sess'[s] = Idle
      BY <3>1 DEF Idle, Creating, Restoring
    <3>2. CASE sess'[s] # Idle
      <4>1. row \subseteq row'
        BY RowWriters
      <4> QED
        BY <1>1, <1>2, <2>1, <3>2, <4>1, Carried DEF NamesWellFounded
    <3> QED
      BY <3>1, <3>2
  <2>2. CASE Begins(s)
    <3>1. ASSUME Restoring(s)' PROVE sess'[s].snapshot \in row
      <4>1. PICK x \in Snapshots, l \in Labs : BeginRestore(s, x, l)
        BY <2>2, <3>1 DEF Begins, BeginCreate, BeginDestroy, Load, Restoring
      <4> QED
        BY <4>1 DEF BeginRestore, Load
    <3> QED
      BY <1>3, <2>2, <3>1, BeginsWritesNothing
  <2> QED
    BY <2>1, <2>2, SessionStep
<1>5. ASSUME NEW s \in Sessions, NEW t \in Sessions, Creating(s)', Creating(t)',
             sess'[s].snapshot = sess'[t].snapshot, s # t
      PROVE FALSE
  <2>0. sess'[s] # Idle /\ sess'[t] # Idle
    BY <1>5 DEF Creating, Idle
  <2>1. CASE Begins(s)
    <3>1. Kept(t)
      BY <1>5, <2>1, OneBegins
    <3> QED
      BY <1>3, <1>5, <2>0, <2>1, <3>1, Carried
  <2>2. CASE Begins(t)
    <3>1. Kept(s)
      BY <1>5, <2>2, OneBegins
    <3> QED
      BY <1>3, <1>5, <2>0, <2>2, <3>1, Carried
  <2>3. CASE ~Begins(s) /\ ~Begins(t)
    BY <1>5, <2>0, <2>3, SessionStep, Carried DEF NamesWellFounded
  <2> QED
    BY <2>1, <2>2, <2>3
<1> QED
  BY <1>4, <1>5 DEF NamesWellFounded

\* Nobody but its creator writes the archive of a snapshot, and nobody touches
\* the archive of a snapshot that has a row; a manifest only disappears with
\* the tree.
LEMMA FilesAreKept ==
  ASSUME TypeOK, NamesWellFounded, [Next]_vars, NEW x \in Snapshots
  PROVE /\ x \in row => \/ archive'[x] = archive[x]
                        \/ archive'[x] = "absent" /\ Wiped(Source(x))'
        /\ \A s \in Sessions :
             sess[s].pc \in {"create.archived", "create.written"}
             /\ sess[s].snapshot = x =>
               \/ archive'[x] = archive[x]
               \/ archive'[x] = "absent" /\ Wiped(Source(x))'
        /\ manifest[x] # "absent" /\ manifest'[x] = "absent" => Wiped(Source(x))'
<1>1. ASSUME NEW s \in Sessions, OpenArchive(s) \/ AddWorkspace(s)
      PROVE Creating(s) /\ sess[s].snapshot \notin row
            /\ sess[s].pc \in {"create.loaded", "create.opened"}
  BY <1>1 DEF OpenArchive, AddWorkspace, At, Creating, NamesWellFounded
<1>2. ASSUME NEW s \in Sessions, sess[s].pc \in {"create.archived", "create.written"},
             NEW t \in Sessions, OpenArchive(t) \/ AddWorkspace(t),
             sess[t].snapshot = sess[s].snapshot
      PROVE FALSE
  <2>1. s = t
    BY <1>1, <1>2 DEF NamesWellFounded, Creating
  <2> QED
    BY <1>1, <1>2, <2>1
<1>3. \/ archive'[x] = archive[x]
      \/ \E s \in Sessions : /\ OpenArchive(s) \/ AddWorkspace(s)
                             /\ sess[s].snapshot = x
      \/ archive'[x] = "absent" /\ Wiped(Source(x))'
  BY ArchiveWriters DEF Wiped
<1>4. manifest[x] # "absent" /\ manifest'[x] = "absent" => Wiped(Source(x))'
  BY ManifestWriters DEF Wiped
<1> QED
  BY <1>1, <1>2, <1>3, <1>4

\* create_snapshot writes the archive, then the manifest, then the row.
LEMMA FilesStep ==
  ASSUME TypeOK, NamesWellFounded, FilesBeforeRow, [Next]_vars
  PROVE FilesBeforeRow'
<1> SUFFICES ASSUME NEW s \in Sessions, NEW x, x = sess'[s].snapshot,
                    sess'[s].pc \in {"create.archived", "create.written"}
             PROVE /\ archive'[x] # "partial"
                   /\ ~Wiped(Source(x))' => archive'[x] = "complete"
                   /\ sess'[s].pc = "create.written" =>
                        (~Wiped(Source(x))' => manifest'[x] # "absent")
  BY DEF FilesBeforeRow, At, Wiped, Source
<1>0. sess'[s] # Idle /\ history \subseteq history'
  BY HistoryGrows DEF Idle
<1>1. CASE Kept(s)
  <2>1. x \in Snapshots /\ x = sess[s].snapshot
    BY <1>1, Holds DEF Kept, Creating
  <2>2. sess[s].pc = sess'[s].pc
    BY <1>1 DEF Kept
  <2>3. Wiped(Source(x)) => Wiped(Source(x))'
    BY <1>0 DEF Wiped
  <2>4. /\ archive[x] # "partial"
        /\ ~Wiped(Source(x)) => archive[x] = "complete"
        /\ sess[s].pc = "create.written" => 
             (~Wiped(Source(x)) => manifest[x] # "absent")
    BY <2>1, <2>2 DEF FilesBeforeRow, At
  <2> QED
    BY <2>1, <2>2, <2>3, <2>4, FilesAreKept
<1>2. CASE AddWorkspace(s)
  <2>1. x \in Snapshots /\ x = sess[s].snapshot
    BY <1>2, <1>0, Holds, Carried
    DEF AddWorkspace, At, Creating, Continues, CreateStep
  <2>2. archive'[x] = "complete"
    BY <1>2, <2>1 DEF AddWorkspace, TypeOK
  <2>3. sess'[s].pc = "create.archived"
    BY <1>2, GoesTo DEF AddWorkspace, At, Idle
  <2> QED
    BY <2>1, <2>2, <2>3
<1>3. CASE WriteManifest(s)
  <2>1. x \in Snapshots /\ x = sess[s].snapshot
    BY <1>3, <1>0, Holds, Carried
    DEF WriteManifest, At, Creating, Continues, CreateStep
  <2>2. manifest'[x] = "created" /\ UNCHANGED <<archive, history>>
    BY <1>3, <2>1 DEF WriteManifest, TypeOK
  <2>3. archive[x] # "partial" /\ (~Wiped(Source(x)) => archive[x] = "complete")
    BY <1>3, <2>1 DEF FilesBeforeRow, WriteManifest, At
  <2> QED
    BY <2>1, <2>2, <2>3 DEF Wiped
<1> QED
  BY <1>1, <1>2, <1>3, SessionStep, PcStep

\* A row keeps its files until the tree is removed.
LEMMA RecordedStep ==
  ASSUME TypeOK, NamesWellFounded, FilesBeforeRow, RecordedSnapshotsAreKept,
         [Next]_vars
  PROVE RecordedSnapshotsAreKept'
<1> SUFFICES ASSUME NEW x \in row'
             PROVE /\ ~Wiped(Source(x))' =>
                        archive'[x] = "complete" /\ manifest'[x] # "absent"
                   /\ archive'[x] # "partial"
  BY DEF RecordedSnapshotsAreKept, Wiped, Source
<1>0. row' \subseteq Snapshots /\ history \subseteq history'
  BY HistoryGrows, TypeStep DEF TypeOK
<1>1. CASE x \in row
  <2>1. Wiped(Source(x)) => Wiped(Source(x))'
    BY <1>0 DEF Wiped
  <2> QED
    BY <1>0, <1>1, <2>1, FilesAreKept DEF RecordedSnapshotsAreKept
<1>2. ASSUME NEW s \in Sessions, CommitCreate(s), x = sess[s].snapshot
      PROVE /\ ~Wiped(Source(x))' =>
                 archive'[x] = "complete" /\ manifest'[x] # "absent"
            /\ archive'[x] # "partial"
  BY <1>2 DEF CommitCreate, FilesBeforeRow, At, Wiped
<1> QED
  BY <1>1, <1>2, RowWriters

LEMMA AloneStep ==
  ASSUME TypeOK, AloneIsAlone, [Next]_vars
  PROVE AloneIsAlone'
<1> SUFFICES ASSUME NEW s \in Sessions, NEW t \in Sessions, t # s,
                    sess'[s] # Idle, sess'[s].alone
             PROVE sess'[t] = Idle
  BY DEF AloneIsAlone
<1>1. CASE Begins(s)
  <2>1. NoneActive
    <3>1. ASSUME NEW x \in Snapshots, BeginCreate(s, x) PROVE NoneActive
      BY <3>1 DEF BeginCreate, Load
    <3>2. ASSUME NEW x \in Snapshots, NEW l \in Labs, BeginRestore(s, x, l)
          PROVE NoneActive
      BY <3>2 DEF BeginRestore, Load
    <3>3. ASSUME NEW l \in Labs, BeginDestroy(s, l) PROVE NoneActive
      BY <3>3 DEF BeginDestroy, Load
    <3> QED
      BY <1>1, <3>1, <3>2, <3>3 DEF Begins
  <2>2. sess[t] = Idle
    BY <2>1 DEF NoneActive
  <2> QED
    BY <1>1, <2>2, OneBegins DEF Kept
<1>2. CASE Kept(s) \/ Continues(s)
  <2>1. sess[s] # Idle /\ sess[t] = Idle
    BY <1>2, Carried DEF AloneIsAlone
  <2>2. ~Begins(t) /\ ~Continues(t)
    BY <2>1, OneBegins, OnlyOwnSession
  <2> QED
    BY <2>1, <2>2, SessionStep DEF Kept
<1> QED
  BY <1>1, <1>2, SessionStep

\* While a session is alone and does nothing, only guests change anything.
LEMMA Undisturbed ==
  ASSUME TypeOK, AloneIsAlone, [Next]_vars, NEW s \in Sessions, Kept(s),
         sess'[s] # Idle, sess'[s].alone
  PROVE /\ UNCHANGED archive
        /\ \A h \in Labs \cup Snapshots :
             h \notin RunningLabs => content'[h] = content[h]
<1>1. sess[s] # Idle /\ sess[s].alone
  BY Carried
<1>2. ASSUME NEW t \in Sessions, Begins(t) \/ Continues(t) PROVE FALSE
  <2>1. CASE t = s
    BY <1>1, <1>2, <2>1, Moves, Loads
    DEF Kept, Begins, BeginCreate, BeginRestore, BeginDestroy
  <2>2. CASE t # s
    BY <1>1, <1>2, <2>2, OneBegins, OnlyOwnSession DEF AloneIsAlone
  <2> QED
    BY <2>1, <2>2
<1>3. ASSUME NEW l \in Labs, NEW f \in Files, GuestWrites(l, f)
      PROVE /\ UNCHANGED archive
            /\ \A h \in Labs \cup Snapshots :
                 h \notin RunningLabs => content'[h] = content[h]
  BY <1>3 DEF GuestWrites, TypeOK
<1> QED
  BY <1>2, <1>3, Steps DEF vars

\* A restore that is alone finds the archive it checked for and the workspace
\* it cleared.
LEMMA RestoresStep ==
  ASSUME TypeOK, NamesWellFounded, AloneIsAlone, UndisturbedRestores,
         RecordedSnapshotsAreKept, [Next]_vars
  PROVE UndisturbedRestores'
<1> SUFFICES ASSUME NEW s \in Sessions, sess'[s].alone,
                    sess'[s].pc \in {"restore.checked", "restore.cleared"}
             PROVE /\ archive'[sess'[s].snapshot] = "complete"
                   /\ sess'[s].pc = "restore.cleared" /\ sess'[s].lab \notin RunningLabs
                        => content'[sess'[s].lab] = {}
  BY DEF UndisturbedRestores, At
<1>0. sess'[s] # Idle
  BY DEF Idle
<1>1. CASE Kept(s)
  <2>1. /\ sess[s].pc = sess'[s].pc /\ sess'[s].snapshot = sess[s].snapshot
        /\ sess'[s].lab = sess[s].lab /\ sess[s].alone
    BY <1>0, <1>1, Carried DEF Kept
  <2>2. sess[s].lab \in Labs
    BY <2>1, Holds DEF Restoring
  <2> QED
    BY <1>0, <1>1, <2>1, <2>2, Undisturbed DEF UndisturbedRestores, At
<1>2. ASSUME NEW x \in Snapshots, NEW l \in Labs, BeginRestore(s, x, l)
      PROVE /\ archive'[sess'[s].snapshot] = "complete"
            /\ sess'[s].pc = "restore.checked"
  <2>1. archive[x] = "complete" /\ UNCHANGED archive
    BY <1>2 DEF BeginRestore, Restorable, RecordedSnapshotsAreKept, TypeOK, ArchiveState
  <2> QED
    BY <1>2, <2>1 DEF BeginRestore, Load
<1>3. CASE ClearWorkspace(s)
  <2>1. Continues(s)
    BY <1>3 DEF Continues, RestoreStep
  <2>2. /\ sess'[s].snapshot = sess[s].snapshot /\ sess'[s].lab = sess[s].lab
        /\ sess[s].alone
    BY <1>0, <2>1, Carried
  <2>3. archive[sess[s].snapshot] = "complete"
    BY <1>3, <2>2 DEF UndisturbedRestores, ClearWorkspace, At
  <2>4. sess[s].lab \in Labs
    BY <1>3, Holds DEF ClearWorkspace, At, Restoring
  <2> QED
    BY <1>3, <2>2, <2>3, <2>4 DEF ClearWorkspace, TypeOK
<1> QED
  BY <1>1, <1>2, <1>3, SessionStep, PcStep

\* extractall adds to an empty workspace what the archive holds.
LEMMA ExactStep ==
  ASSUME TypeOK, NamesWellFounded, AloneIsAlone, UndisturbedRestores,
         RestoresAreExact, [Next]_vars
  PROVE RestoresAreExact'
<1> SUFFICES ASSUME NEW s \in Sessions, sess'[s].alone,
                    sess'[s].pc \in {"restore.extracted", "restore.truncated",
                                     "restore.written"},
                    sess'[s].lab \notin RunningLabs
             PROVE content'[sess'[s].lab] = content'[sess'[s].snapshot]
  BY DEF RestoresAreExact
<1>0. sess'[s] # Idle
  BY DEF Idle
<1>1. CASE Kept(s)
  <2>1. /\ sess[s].pc = sess'[s].pc /\ sess'[s].snapshot = sess[s].snapshot
        /\ sess'[s].lab = sess[s].lab /\ sess[s].alone
    BY <1>0, <1>1, Carried DEF Kept
  <2>2. /\ sess[s].lab \in Labs /\ sess[s].snapshot \in Snapshots
        /\ sess[s].snapshot \notin RunningLabs
    BY <2>1, Holds, SourceIsLab, SnapshotsAssumption DEF Restoring
  <2> QED
    BY <1>0, <1>1, <2>1, <2>2, Undisturbed DEF RestoresAreExact
<1>2. ASSUME Extract(s) \/ TruncateManifest(s) \/ RewriteManifest(s)
      PROVE /\ sess'[s].snapshot = sess[s].snapshot /\ sess'[s].lab = sess[s].lab
            /\ sess[s].alone /\ sess[s].lab \in Labs /\ sess[s].snapshot \in Snapshots
            /\ sess[s].snapshot # sess[s].lab
  <2>1. Continues(s)
    BY <1>2 DEF Continues, RestoreStep
  <2>2. Restoring(s)
    BY <1>2 DEF Extract, TruncateManifest, RewriteManifest, At, Restoring
  <2> QED
    BY <1>0, <2>1, <2>2, Carried, Holds, SourceIsLab
<1>3. CASE Extract(s)
  <2>1. content[sess[s].lab] = {}
    BY <1>2, <1>3 DEF UndisturbedRestores, Extract, At
  <2>2. content' = [content EXCEPT ![sess[s].lab] =
                      content[sess[s].lab] \cup content[sess[s].snapshot]]
    BY <1>2, <1>3 DEF Extract, Extracted, TypeOK
  <2> QED
    BY <1>2, <1>3, <2>1, <2>2 DEF TypeOK
<1>4. CASE TruncateManifest(s) \/ RewriteManifest(s)
  <2>1. UNCHANGED content /\ sess[s].pc \in {"restore.extracted", "restore.truncated"}
    BY <1>4 DEF TruncateManifest, RewriteManifest, At
  <2> QED
    BY <1>2, <1>4, <2>1 DEF RestoresAreExact
<1> QED
  BY <1>1, <1>3, <1>4, SessionStep, PcStep

\* Only a restore or a guest fills a workspace that was removed.
LEMMA RefillStep ==
  ASSUME TypeOK, OnlyRestoresRefillRemovedTrees, OnlyRestoresRefillDestroyedLabs,
         [Next]_vars
  PROVE OnlyRestoresRefillRemovedTrees' /\ OnlyRestoresRefillDestroyedLabs'
<1>0. ASSUME NEW l \in Labs, l \notin RunningLabs, content'[l] # {},
             content[l] # {} => <<"refilled", l>> \in history
      PROVE <<"refilled", l>> \in history'
  BY <1>0, WorkspaceWriters, HistoryGrows
<1>1. ASSUME NEW s \in Sessions, sess'[s].pc = "destroy.removed",
             sess'[s].lab \notin RunningLabs, content'[sess'[s].lab] # {}
      PROVE <<"refilled", sess'[s].lab>> \in history'
  <2>0. sess'[s] # Idle
    BY <1>1 DEF Idle
  <2>1. CASE Kept(s)
    <3>1. sess[s].pc = "destroy.removed" /\ sess'[s].lab = sess[s].lab
      BY <1>1, <2>1 DEF Kept
    <3>2. sess[s].lab \in Labs
      BY <3>1, Holds
    <3> QED
      BY <1>0, <1>1, <3>1, <3>2 DEF OnlyRestoresRefillRemovedTrees, At
  <2>2. CASE RemoveTree(s)
    <3>1. Continues(s) /\ ~Finish(s)
      BY <2>0, <2>2, Finishes DEF Continues, DestroyStep
    <3> QED
      BY <1>1, <2>0, <2>2, <3>1, Removes, Carried
  <2> QED
    BY <1>1, <2>1, <2>2, SessionStep, PcStep
<1>2. ASSUME NEW l \in Labs \ RunningLabs, state'[l] = "destroyed", content'[l] # {}
      PROVE <<"refilled", l>> \in history'
  <2>1. CASE state[l] = "destroyed"
    BY <1>0, <1>2, <2>1 DEF OnlyRestoresRefillDestroyedLabs
  <2>2. ASSUME NEW s \in Sessions, CommitDestroy(s), state[l] # "destroyed"
        PROVE <<"refilled", l>> \in history'
    <3>1. sess[s].lab = l
      BY <1>2, <2>2 DEF CommitDestroy, TypeOK
    <3> QED
      BY <1>0, <1>2, <2>2, <3>1 DEF OnlyRestoresRefillRemovedTrees, CommitDestroy
  <2>3. ASSUME NEW s \in Sessions, Continues(s) PROVE UNCHANGED state \/ CommitDestroy(s)
    BY <2>3 DEF Continues, CreateStep, RestoreStep, DestroyStep, AddWorkspaceFails,
                OpenArchive, AddWorkspace, WriteManifest, CommitCreate,
                ClearWorkspace, ClearWorkspaceFails, Extract, ExtractFails,
                TruncateManifest, RewriteManifest, CommitRestore, RemoveTree,
                RemoveTreeFails, Abort, db
  <2>4. UNCHANGED state \/ \E s \in Sessions : CommitDestroy(s)
    BY <2>3, Steps, BeginsWritesNothing DEF vars, GuestWrites, db
  <2> QED
    BY <1>2, <2>1, <2>2, <2>4
<1> QED
  BY <1>1, <1>2 DEF OnlyRestoresRefillRemovedTrees, OnlyRestoresRefillDestroyedLabs, At

\* Whoever truncated a manifest writes it again or is interrupted.
LEMMA TornStep ==
  ASSUME TypeOK, NamesWellFounded, TornManifestsHaveACause, [Next]_vars
  PROVE TornManifestsHaveACause'
<1> SUFFICES ASSUME NEW x \in row', manifest'[x] = "torn",
                    <<"interrupted", x>> \notin history'
             PROVE \E s \in Sessions :
                     sess'[s].pc = "restore.truncated" /\ sess'[s].snapshot = x
  BY DEF TornManifestsHaveACause, At
<1>0. x \in Snapshots /\ <<"interrupted", x>> \notin history
  BY TypeStep, HistoryGrows DEF TypeOK
<1>1. ASSUME NEW s \in Sessions, TruncateManifest(s), sess[s].snapshot = x
      PROVE sess'[s].pc = "restore.truncated" /\ sess'[s].snapshot = x
  BY <1>1, GoesTo DEF TruncateManifest, At, Idle
<1>2. CASE manifest[x] = "torn" /\ x \in row
  <2>1. PICK s \in Sessions : At(s, "restore.truncated") /\ sess[s].snapshot = x
    BY <1>0, <1>2 DEF TornManifestsHaveACause
  <2>2. ~RewriteManifest(s)
    BY <1>0, <2>1 DEF RewriteManifest, TypeOK
  <2>3. ~Abort(s)
    BY <1>0, <2>1 DEF Abort
  <2>4. ~Continues(s)
    BY <2>1, <2>2, <2>3
    DEF Continues, CreateStep, RestoreStep, DestroyStep, AddWorkspaceFails,
        OpenArchive, AddWorkspace, WriteManifest, CommitCreate, ClearWorkspace,
        ClearWorkspaceFails, Extract, ExtractFails, TruncateManifest, CommitRestore,
        RemoveTree, RemoveTreeFails, CommitDestroy, At
  <2>5. ~Begins(s)
    BY <2>1 DEF Begins, BeginCreate, BeginRestore, BeginDestroy, Load, At, Idle
  <2> QED
    BY <2>1, <2>4, <2>5, SessionStep DEF Kept, At
<1>3. CASE x \notin row
  <2>1. PICK s \in Sessions : CommitCreate(s) /\ sess[s].snapshot = x
    BY <1>3, RowWriters
  <2> QED
    BY <2>1 DEF CommitCreate, NamesWellFounded, Creating, At
<1> QED
  BY <1>0, <1>1, <1>2, <1>3, ManifestWriters

LEMMA IndInvStep == IndInv /\ [Next]_vars => IndInv'
  BY TypeStep, NamesStep, FilesStep, AloneStep, RestoresStep, RefillStep,
     RecordedStep, ExactStep, TornStep DEF IndInv

LEMMA IndInvInit == Init => IndInv
<1> SUFFICES ASSUME Init PROVE IndInv
  OBVIOUS
<1>1. TypeOK
  BY DEF Init, TypeOK, ArchiveState, ManifestState, Directories, SessionState
<1>2. \A s \in Sessions : sess[s] = Idle /\ sess[s].pc = "idle"
  BY DEF Init, Idle
<1>3. /\ NamesWellFounded /\ FilesBeforeRow /\ AloneIsAlone /\ UndisturbedRestores
      /\ OnlyRestoresRefillRemovedTrees /\ RestoresAreExact
  BY <1>2 DEF NamesWellFounded, FilesBeforeRow, AloneIsAlone, UndisturbedRestores,
              OnlyRestoresRefillRemovedTrees, RestoresAreExact, Creating, Restoring, At
<1>4. /\ RecordedSnapshotsAreKept /\ TornManifestsHaveACause
      /\ OnlyRestoresRefillDestroyedLabs
  BY DEF Init, RecordedSnapshotsAreKept, TornManifestsHaveACause,
         OnlyRestoresRefillDestroyedLabs
<1> QED
  BY <1>1, <1>3, <1>4 DEF IndInv

-----------------------------------------------------------------------------
(* The theorems *)

\* Every reachable state satisfies the invariant.
THEOREM Inductive == Spec => []IndInv
  BY IndInvInit, IndInvStep, PTL DEF Spec

\* The rows, the directories, the files and the sessions keep their types.
THEOREM TypeCorrect == Spec => []TypeOK
<1>1. IndInv => TypeOK
  BY DEF IndInv
<1> QED
  BY <1>1, Inductive, PTL

\* A row of the snapshots table has its complete archive and its manifest until
\* the lab's tree is removed, whatever else runs or fails.
THEOREM RowsKeepTheirArchives == Spec => []RecordedSnapshotsAreKept
<1>1. IndInv => RecordedSnapshotsAreKept
  BY DEF IndInv
<1> QED
  BY <1>1, Inductive, PTL

\* restore_snapshot clears a workspace only with the archive at hand.
THEOREM ClearsWithAnArchive == Spec => []ClearedOnlyForAnArchive
<1>1. IndInv => ClearedOnlyForAnArchive
  BY DEF IndInv, UndisturbedRestores, ClearedOnlyForAnArchive, At
<1> QED
  BY <1>1, Inductive, PTL

\* An undisturbed restore_snapshot leaves exactly what was archived.
THEOREM RestoresLeaveTheArchive == Spec => []RestoresAreExact
<1>1. IndInv => RestoresAreExact
  BY DEF IndInv
<1> QED
  BY <1>1, Inductive, PTL

\* Nothing but a restore puts files into the workspace of a destroyed lab.
THEOREM DestroyedLabsStayEmpty == Spec => []OnlyRestoresRefillDestroyedLabs
<1>1. IndInv => OnlyRestoresRefillDestroyedLabs
  BY DEF IndInv
<1> QED
  BY <1>1, Inductive, PTL

\* A manifest that does not parse is being rewritten, or its rewriting was
\* interrupted.
THEOREM TornManifestsAreExplained == Spec => []TornManifestsHaveACause
<1>1. IndInv => TornManifestsHaveACause
  BY DEF IndInv
<1> QED
  BY <1>1, Inductive, PTL
=============================================================================
