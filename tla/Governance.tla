----------------------------- MODULE Governance -----------------------------
(***************************************************************************)
(* The governed control plane: labs, approvals and exports, as the API     *)
(* handlers of labos/api/app.py and ReconciliationService.reconcile of     *)
(* labos/workers/reconciler.py read and write them.                        *)
(*                                                                         *)
(* A handler runs in one database session.  Its SELECTs take no lock and   *)
(* are not repeated, so it works with the rows as it loaded them; its      *)
(* writes are flushed and committed together.  A request is therefore a    *)
(* Begin action (what it loads and checks), the file-system steps it takes *)
(* while nothing is committed yet, and a Commit action.  Other sessions    *)
(* may take steps in between, and the session may fail in between (Abort:  *)
(* an exception, a locked database, a crash), which rolls the database     *)
(* back and leaves the file system as it is.  With one session the module  *)
(* is the serial program, with two it is the threaded server.              *)
(*                                                                         *)
(* A request that a check refuses before it changes anything is not an     *)
(* action.  At most one approval row is ever written for a lab or an       *)
(* export, together with it, so an approval is named by its resource.      *)
(***************************************************************************)
EXTENDS Lifecycle, Policy, FiniteSets

CONSTANTS
  Labs,       \* lab ids a request may draw (uuid4: never drawn twice)
  Exports,    \* export ids
  Sessions,   \* concurrent requests the server handles
  None        \* the lab or profile that a row which does not exist refers to

ASSUME GovernanceAssumption ==
  /\ Labs \cap Exports = {}
  /\ None \notin Labs \cup ProfileNames

VARIABLES
  labRow,      \* LabRow and its LabStorageRow, by id
  exRow,       \* ExportRow, by id
  apRow,       \* ApprovalRow, by the resource it guards
  overdue,     \* resources whose approval's expires_at has passed
  tree,        \* what the lab's managed storage root is on disk
  quarantine,  \* <<lab, export>>: quarantined copies on disk
  released,    \* <<lab, export>>: released copies on disk
  audit,       \* the EventRows, as <<event_type, resource>>
  sess         \* what each session has loaded and done so far

db == <<labRow, exRow, apRow, audit>>
disk == <<tree, quarantine, released>>
vars == <<labRow, exRow, apRow, overdue, tree, quarantine, released, audit, sess>>

Resources == Labs \cup Exports

Row(states) == states \cup {"none"}

LabRow == [state: Row(LabState), profile_name: ProfileNames \cup {None}]

ApprovalRow == [state: Row(ApprovalState), approved: BOOLEAN]

\* released_path and denial_reason: whether the nullable column holds a value.
ExportRow == [lab: Labs \cup {None}, state: Row(ExportState),
              approval_required: BOOLEAN, released_path: BOOLEAN,
              denial_reason: BOOLEAN]

\* absent: nothing there; allocated: as ManagedStorageAllocator.allocate made
\* it; partial: what an interrupted rmtree leaves; bare: only what
\* mkdir(parents=True) made again after the tree was removed.
TreeState == {"absent", "allocated", "partial", "bare"}

EventType == {"lab.requested", "lab.destroyed", "lab.reconciliation_failed",
              "approval.requested", "approval.approved", "approval.denied",
              "approval.expired", "export.requested", "export.staged",
              "export.release_blocked", "export.released", "export.denied"}

Decision == {"approved", "rejected"}

Idle == [pc |-> "idle"]

SessionState ==
  {Idle}
    \cup [pc: {"lab.allocated"}, lab: Labs, profile_name: ProfileNames,
          approval_required: BOOLEAN]
    \cup [pc: {"destroy.loaded", "destroy.removed"}, lab: Labs]
    \cup [pc: {"export.checked", "export.copied"}, lab: Labs, export: Exports]
    \cup [pc: {"release.checked", "release.copied", "deny.loaded"},
          export: Exports, old: ExportRow]
    \cup [pc: {"decision.loaded"}, resource: Resources, decision: Decision]
    \cup [pc: {"reconcile.loaded"}, labs: [Labs -> Row(LabState)],
          stale: SUBSET Resources]

TypeOK ==
  /\ labRow \in [Labs -> LabRow]
  /\ exRow \in [Exports -> ExportRow]
  /\ apRow \in [Resources -> ApprovalRow]
  /\ overdue \subseteq Resources
  /\ tree \in [Labs -> TreeState]
  /\ quarantine \subseteq Labs \X Exports
  /\ released \subseteq Labs \X Exports
  /\ audit \subseteq EventType \X Resources
  /\ sess \in [Sessions -> SessionState]

Init ==
  /\ labRow = [l \in Labs |-> [state |-> "none", profile_name |-> None]]
  /\ exRow = [e \in Exports |->
                [lab |-> None, state |-> "none", approval_required |-> FALSE,
                 released_path |-> FALSE, denial_reason |-> FALSE]]
  /\ apRow = [r \in Resources |-> [state |-> "none", approved |-> FALSE]]
  /\ overdue = {}
  /\ tree = [l \in Labs |-> "absent"]
  /\ quarantine = {}
  /\ released = {}
  /\ audit = {}
  /\ sess = [s \in Sessions |-> Idle]

-----------------------------------------------------------------------------
(* Sessions *)

IsIdle(s) == sess[s] = Idle

Load(s, record) == IsIdle(s) /\ sess' = [sess EXCEPT ![s] = record]

GoTo(s, pc) == sess' = [sess EXCEPT ![s].pc = pc]

Finish(s) == sess' = [sess EXCEPT ![s] = Idle]

Record(events) == audit' = audit \cup events

\* SQLAlchemy writes a column only when its new value differs from the one the
\* session loaded; otherwise whatever is committed by then stays.
Net(current, loaded, new) == IF new = loaded THEN current ELSE new

\* _record_approval_request, and the events that go with it.
RequestApproval(r) ==
  apRow' = [apRow EXCEPT ![r] = [state |-> "requested", approved |-> FALSE]]

ApprovalEvents(r, required) ==
  {event \in {<<"approval.requested", r>>} : required}

-----------------------------------------------------------------------------
(* POST /labs, and the scheduler's create_lab: _create_lab_record *)

FreshLab(l) ==
  /\ labRow[l].state = "none"
  /\ tree[l] = "absent"

BeginCreateLab(s, l, profile, requester) ==
  /\ FreshLab(l)
  /\ Load(s, [pc |-> "lab.allocated", lab |-> l, profile_name |-> profile,
              approval_required |->
                ApprovalRequired(Registry[profile], requester)])
  /\ tree' = [tree EXCEPT ![l] = "allocated"]
  /\ UNCHANGED <<db, overdue, quarantine, released>>

CommitCreateLab(s) ==
  LET l == sess[s].lab
      gated == sess[s].approval_required
  IN /\ sess[s].pc = "lab.allocated"
     /\ labRow' = [labRow EXCEPT ![l] =
                    [state |-> IF gated THEN "pending_approval" ELSE "approved",
                     profile_name |-> sess[s].profile_name]]
     /\ IF gated THEN RequestApproval(l) ELSE UNCHANGED apRow
     /\ Record({<<"lab.requested", l>>} \cup ApprovalEvents(l, gated))
     /\ Finish(s)
     /\ UNCHANGED <<exRow, overdue, disk>>

-----------------------------------------------------------------------------
(* DELETE /labs/{lab_id}: destroy_lab *)

BeginDestroy(s, l) ==
  /\ labRow[l].state \notin {"none", "destroyed"}
  /\ Load(s, [pc |-> "destroy.loaded", lab |-> l])
  /\ UNCHANGED <<db, overdue, disk>>

OfOtherLabs(copies, l) == {c \in copies : c[1] # l}

\* ManagedStorageAllocator.destroy
RemoveTree(s) ==
  LET l == sess[s].lab
  IN /\ sess[s].pc = "destroy.loaded"
     /\ tree' = [tree EXCEPT ![l] = "absent"]
     /\ quarantine' = OfOtherLabs(quarantine, l)
     /\ released' = OfOtherLabs(released, l)
     /\ GoTo(s, "destroy.removed")
     /\ UNCHANGED <<db, overdue>>

\* Mutant: errors of rmtree are ignored.
RemoveErrorsIgnored(s) ==
  /\ sess[s].pc = "destroy.loaded"
  /\ tree[sess[s].lab] # "absent"
  /\ tree' = [tree EXCEPT ![sess[s].lab] = "partial"]
  /\ GoTo(s, "destroy.removed")
  /\ UNCHANGED <<db, overdue, quarantine, released>>

\* rmtree raises half way: some files are gone, the request ends in a 500.
RemoveTreeFails(s) ==
  LET l == sess[s].lab
  IN /\ sess[s].pc = "destroy.loaded"
     /\ tree[l] # "absent"
     /\ tree' = [tree EXCEPT ![l] = "partial"]
     /\ \E kept \in SUBSET quarantine :
          /\ OfOtherLabs(quarantine, l) \subseteq kept
          /\ quarantine' = kept
     /\ \E kept \in SUBSET released :
          /\ OfOtherLabs(released, l) \subseteq kept
          /\ released' = kept
     /\ Finish(s)
     /\ UNCHANGED <<db, overdue>>

CommitDestroy(s) ==
  LET l == sess[s].lab
  IN /\ sess[s].pc = "destroy.removed"
     /\ labRow' = [labRow EXCEPT ![l].state = "destroyed"]
     /\ Record({<<"lab.destroyed", l>>})
     /\ Finish(s)
     /\ UNCHANGED <<exRow, apRow, overdue, disk>>

-----------------------------------------------------------------------------
(* POST /exports: create_export and ExportGate.stage_export *)

ProfileOf(l) == Registry[labRow[l].profile_name]

\* An id no other request works with and that has left no trace.
FreshExport(e) ==
  /\ exRow[e].state = "none"
  /\ \A c \in quarantine : c[2] # e
  /\ \A t \in Sessions :
       sess[t].pc \in {"export.checked", "export.copied"} => sess[t].export # e

\* The exported file is there as long as the tree is (the guest wrote it).
SourceExists(l) == tree[l] \in {"allocated", "partial"}

BeginExport(s, e, l, path) ==
  /\ FreshExport(e)
  /\ labRow[l].state # "none"
  /\ ExportPathAccepted(ProfileOf(l), path)
  /\ SourceExists(l)
  /\ Load(s, [pc |-> "export.checked", lab |-> l, export |-> e])
  /\ UNCHANGED <<db, overdue, disk>>

CopyToQuarantine(s) ==
  /\ sess[s].pc = "export.checked"
  /\ SourceExists(sess[s].lab)
  /\ quarantine' = quarantine \cup {<<sess[s].lab, sess[s].export>>}
  /\ GoTo(s, "export.copied")
  /\ UNCHANGED <<db, overdue, tree, released>>

\* Mutant: the tree is allocated anew.
ReallocateTree(l) == tree' = [tree EXCEPT ![l] = "allocated"]

\* mkdir(parents=True, exist_ok=True) before a copy that fails.
MakeParents(l) ==
  tree' = [tree EXCEPT ![l] = IF @ = "absent" THEN "bare" ELSE @]

\* The source is gone since it was checked: copy2 raises, the request ends.
CopyToQuarantineFails(s) ==
  /\ sess[s].pc = "export.checked"
  /\ tree[sess[s].lab] # "allocated"
  /\ MakeParents(sess[s].lab)
  /\ Finish(s)
  /\ UNCHANGED <<db, overdue, quarantine, released>>

CommitExport(s) ==
  LET l == sess[s].lab
      e == sess[s].export
      gated == ExportDecision(ProfileOf(l), "lab_exports").approval_required
  IN /\ sess[s].pc = "export.copied"
     /\ exRow' = [exRow EXCEPT ![e] =
                   [lab |-> l, state |-> "quarantined",
                    approval_required |-> gated,
                    released_path |-> FALSE, denial_reason |-> FALSE]]
     /\ IF gated THEN RequestApproval(e) ELSE UNCHANGED apRow
     /\ Record({<<"export.requested", e>>, <<"export.staged", e>>}
                 \cup ApprovalEvents(e, gated))
     /\ Finish(s)
     /\ UNCHANGED <<labRow, overdue, disk>>

-----------------------------------------------------------------------------
(* POST /exports/{export_id}/release and ExportGate.release_export *)

Undecided(e) == exRow[e].state \notin {"none", "rejected", "released"}

Copy(e) == <<exRow[e].lab, e>>

ReleaseBlocked(s, e) ==
  /\ IsIdle(s)
  /\ Undecided(e)
  /\ exRow[e].approval_required
  /\ Record({<<"export.release_blocked", e>>})
  /\ UNCHANGED <<labRow, exRow, apRow, overdue, disk, sess>>

BeginRelease(s, e) ==
  /\ Undecided(e)
  /\ ~exRow[e].approval_required
  /\ Copy(e) \in quarantine
  /\ Load(s, [pc |-> "release.checked", export |-> e, old |-> exRow[e]])
  /\ UNCHANGED <<db, overdue, disk>>

CopyToReleased(s) ==
  LET copy == Copy(sess[s].export)
  IN /\ sess[s].pc = "release.checked"
     /\ copy \in quarantine
     /\ released' = released \cup {copy}
     /\ GoTo(s, "release.copied")
     /\ UNCHANGED <<db, overdue, tree, quarantine>>

CopyToReleasedFails(s) ==
  LET copy == Copy(sess[s].export)
  IN /\ sess[s].pc = "release.checked"
     /\ copy \notin quarantine
     /\ MakeParents(copy[1])
     /\ Finish(s)
     /\ UNCHANGED <<db, overdue, quarantine, released>>

CommitRelease(s) ==
  LET e == sess[s].export
      old == sess[s].old
  IN /\ sess[s].pc = "release.copied"
     /\ exRow' = [exRow EXCEPT
          ![e].state = "released",
          ![e].released_path = Net(@, old.released_path, TRUE),
          ![e].denial_reason = Net(@, old.denial_reason, FALSE)]
     /\ Record({<<"export.released", e>>})
     /\ Finish(s)
     /\ UNCHANGED <<labRow, apRow, overdue, disk>>

-----------------------------------------------------------------------------
(* POST /exports/{export_id}/deny and ExportGate.deny_export *)

BeginDeny(s, e) ==
  /\ Undecided(e)
  /\ Load(s, [pc |-> "deny.loaded", export |-> e, old |-> exRow[e]])
  /\ UNCHANGED <<db, overdue, disk>>

CommitDeny(s) ==
  LET e == sess[s].export
      old == sess[s].old
  IN /\ sess[s].pc = "deny.loaded"
     /\ exRow' = [exRow EXCEPT
          ![e].state = "rejected",
          ![e].released_path = Net(@, old.released_path, FALSE),
          ![e].denial_reason = Net(@, old.denial_reason, TRUE)]
     /\ Record({<<"export.denied", e>>})
     /\ Finish(s)
     /\ UNCHANGED <<labRow, apRow, overdue, disk>>

-----------------------------------------------------------------------------
(* POST /approvals/{approval_id}/approve and /deny *)

\* Mutant: the approval is not required to be pending.
BeginAnyDecision(s, r, decision) ==
  /\ apRow[r].state # "none"
  /\ r \notin overdue
  /\ Load(s, [pc |-> "decision.loaded", resource |-> r, decision |-> decision])
  /\ UNCHANGED <<db, overdue, disk>>

\* _ensure_approval_pending.  An overdue request is refused with a 409 and the
\* row it has just marked expired is rolled back.
BeginDecision(s, r, decision) ==
  /\ apRow[r].state = "requested"
  /\ r \notin overdue
  /\ Load(s, [pc |-> "decision.loaded", resource |-> r, decision |-> decision])
  /\ UNCHANGED <<db, overdue, disk>>

\* _apply_approval_decision.  The approval is the row as loaded (so a denial
\* does not write approved, which was False already); the lab or the export is
\* read in the transaction that writes it.
CommitDecision(s) ==
  LET r == sess[s].resource
      decision == sess[s].decision
      granted == decision = "approved"
  IN /\ sess[s].pc = "decision.loaded"
     /\ apRow' = [apRow EXCEPT ![r].state = decision,
                               ![r].approved = Net(@, FALSE, granted)]
     /\ \/ /\ r \in Labs
           /\ labRow' = [labRow EXCEPT
                ![r].state = IF granted THEN "approved" ELSE "failed"]
           /\ UNCHANGED exRow
        \/ /\ r \in Exports
           /\ exRow' = [exRow EXCEPT
                ![r].state = decision,
                ![r].approval_required = @ /\ ~granted,
                ![r].denial_reason = ~granted]
           /\ UNCHANGED labRow
     /\ Record({<<IF granted THEN "approval.approved" ELSE "approval.denied", r>>})
     /\ Finish(s)
     /\ UNCHANGED <<overdue, disk>>

-----------------------------------------------------------------------------
(* ReconciliationService.reconcile, and its caller's commit *)

BeginReconcile(s) ==
  /\ Load(s, [pc |-> "reconcile.loaded",
              labs |-> [l \in Labs |-> labRow[l].state],
              stale |-> {r \in overdue : apRow[r].state = "requested"}])
  /\ UNCHANGED <<db, overdue, disk>>

\* Mutant: labs that wait to be provisioned are skipped.
MissingRootOfStarted(labs) ==
  {l \in Labs : /\ labs[l] \notin {"none", "destroyed", "approved"}
                /\ tree[l] = "absent"}

\* Loaded labs whose storage root is missing.
MissingRoot(labs) ==
  {l \in Labs : labs[l] \notin {"none", "destroyed"} /\ tree[l] = "absent"}

\* Mutants: an expired request counts as granted, every pending lab is failed,
\* the lab of an expired approval is forgotten.
ExpiryGrants(labs, stale, l) ==
  IF l \in stale /\ labs[l] = "pending_approval" THEN "approved" ELSE labs[l]

PendingFails(labs, stale, l) ==
  IF l \in MissingRoot(labs) \/ labs[l] = "pending_approval"
  THEN "failed" ELSE labs[l]

ExpiryForgetsLab(labs, stale, l) ==
  IF l \in MissingRoot(labs) THEN "failed" ELSE labs[l]

\* The state the pass leaves in the lab row it holds: labs are not read again.
ReconciledState(labs, stale, l) ==
  IF \/ l \in MissingRoot(labs)
     \/ l \in stale /\ labs[l] = "pending_approval"
  THEN "failed"
  ELSE labs[l]

\* Mutants: the approval's state is written to the export, the flag is cleared
\* but the export not rejected, only the reason is written, no reason is.
ExpiredExportState(row) == [row EXCEPT !.state = "expired"]

ExpiryUnblocks(row) ==
  [row EXCEPT !.denial_reason = TRUE, !.approval_required = FALSE]

ExpiryOnlyExplains(row) == [row EXCEPT !.denial_reason = TRUE]

ExpiryUnexplained(row) ==
  [row EXCEPT !.state = "rejected", !.approval_required = FALSE]

\* _expire_stale_approvals: the export is read in the writing transaction.
ExpiredExport(row) ==
  [row EXCEPT !.state = "rejected", !.denial_reason = TRUE,
              !.approval_required = FALSE]

CommitReconcile(s) ==
  LET labs == sess[s].labs
      stale == sess[s].stale
  IN /\ sess[s].pc = "reconcile.loaded"
     /\ apRow' = [r \in Resources |->
                   IF r \in stale THEN [apRow[r] EXCEPT !.state = "expired"]
                                  ELSE apRow[r]]
     /\ labRow' = [l \in Labs |->
                    [labRow[l] EXCEPT !.state =
                       Net(@, labs[l], ReconciledState(labs, stale, l))]]
     /\ exRow' = [e \in Exports |->
                   IF e \in stale THEN ExpiredExport(exRow[e]) ELSE exRow[e]]
     /\ Record({<<"approval.expired", r>> : r \in stale} \cup
               {<<"lab.reconciliation_failed", l>> : l \in MissingRoot(labs)})
     /\ Finish(s)
     /\ UNCHANGED <<overdue, disk>>

-----------------------------------------------------------------------------
(* The environment *)

\* expires_at (24 hours after the request) passes.
ExpiryPasses(r) ==
  /\ apRow[r].state = "requested"
  /\ r \notin overdue
  /\ overdue' = overdue \cup {r}
  /\ UNCHANGED <<db, disk, sess>>

\* An exception, a database error or a crash before the commit.
Abort(s) ==
  /\ ~IsIdle(s)
  /\ Finish(s)
  /\ UNCHANGED <<db, overdue, disk>>

Begin(s) ==
  \/ \E l \in Labs, p \in ProfileNames, q \in RequesterType :
       BeginCreateLab(s, l, p, q)
  \/ \E l \in Labs : BeginDestroy(s, l)
  \/ \E e \in Exports, l \in Labs, path \in ExportPath : BeginExport(s, e, l, path)
  \/ \E e \in Exports : BeginRelease(s, e) \/ ReleaseBlocked(s, e) \/ BeginDeny(s, e)
  \/ \E r \in Resources, d \in Decision : BeginDecision(s, r, d)
  \/ BeginReconcile(s)

Continue(s) ==
  \/ CommitCreateLab(s)
  \/ RemoveTree(s) \/ RemoveTreeFails(s) \/ CommitDestroy(s)
  \/ CopyToQuarantine(s) \/ CopyToQuarantineFails(s) \/ CommitExport(s)
  \/ CopyToReleased(s) \/ CopyToReleasedFails(s) \/ CommitRelease(s)
  \/ CommitDeny(s)
  \/ CommitDecision(s)
  \/ CommitReconcile(s)

Next ==
  \/ \E s \in Sessions : Begin(s) \/ Continue(s) \/ Abort(s)
  \/ \E r \in Resources : ExpiryPasses(r)

Spec == Init /\ [][Next]_vars

\* Somebody keeps running the reconciler (nothing in the repository does), its
\* passes do not all fail, requests come to an end, and time goes on.
Fairness ==
  /\ SF_vars(\E s \in Sessions : BeginReconcile(s))
  /\ SF_vars(\E s \in Sessions : CommitReconcile(s))
  /\ \A s \in Sessions : WF_vars(Continue(s))
  /\ \A r \in Resources : WF_vars(ExpiryPasses(r))

FairSpec == Spec /\ Fairness

-----------------------------------------------------------------------------
(* What holds however the sessions interleave and fail *)

Approved(r) == <<"approval.approved", r>> \in audit

\* The export's profile asks for an approval before anything leaves the lab.
NeedsApproval(e) ==
  exRow[e].state # "none" /\ ProfileOf(exRow[e].lab).approval_on_export

\* An export of a profile with approval_on_export (every high or critical risk
\* profile) is neither marked released nor copied out of quarantine unless
\* somebody approved it: release_export acts on a row it loaded before it
\* copies and commits, while approvals are decided, denied and expired.
ReleaseRequiresApproval ==
  \A e \in Exports :
    /\ NeedsApproval(e)
    /\ exRow[e].state = "released" \/ Copy(e) \in released
    => Approved(e)

\* A lab that had to wait for an approval (one was requested, or its profile
\* says approval_on_start, as every microVM profile does) is approved only by
\* a recorded decision: not by the creation, the reconciler or a stale write.
GatedLabsNeedApproval ==
  \A l \in Labs :
    /\ labRow[l].state = "approved"
    /\ apRow[l].state # "none" \/ ProfileOf(l).approval_on_start
    => Approved(l)

Blocked(r) ==
  \/ r \in Labs /\ labRow[r].state = "pending_approval"
  \/ /\ r \in Exports
     /\ exRow[r].state = "quarantined"
     /\ exRow[r].approval_required

\* Nothing is left waiting for a decision that can no longer be made: as long
\* as a lab or an export is blocked, its approval is still open.  The decision
\* and the reconciler update the approval and its resource from different
\* reads.
BlockedResourcesHaveOpenApproval ==
  \A r \in Resources : Blocked(r) => apRow[r].state = "requested"

Outcome(r) ==
  CASE r \in Labs -> labRow[r].state
    [] r \in Exports -> exRow[r].state

\* The events that account for a lab or an export being in a state.
Evidence(r) ==
  CASE Outcome(r) = "destroyed" -> {"lab.destroyed"}
    [] Outcome(r) = "failed" -> {"approval.denied", "approval.expired",
                                 "lab.reconciliation_failed"}
    [] Outcome(r) = "released" -> {"export.released"}
    [] Outcome(r) = "rejected" -> {"export.denied", "approval.denied",
                                   "approval.expired"}
    [] Outcome(r) = "approved" -> {"approval.approved"} \cup
                                  {t \in {"lab.requested"} : r \in Labs}
    [] OTHER -> {"lab.requested", "export.staged"}

\* The audit trail explains every row: whichever of two racing sessions wrote
\* last, an event that leads to the state the row is in was recorded.
EveryOutcomeIsAudited ==
  \A r \in Resources :
    Outcome(r) # "none" => \E type \in Evidence(r) : <<type, r>> \in audit

\* While a lab's tree is intact, every export row that is waiting or released
\* has the file it speaks of: requests that fail between the copy and the
\* commit may leave a file without a row, never a row without its file.
RecordedCopiesExist ==
  \A e \in Exports :
    /\ exRow[e].state # "none"
    /\ tree[exRow[e].lab] = "allocated"
    => /\ Copy(e) \in quarantine
       /\ exRow[e].state = "released" => Copy(e) \in released

-----------------------------------------------------------------------------
(* The inductive invariant behind the four properties above that             *)
(* GovernanceProofs proves: what a session may still rely on of what it      *)
(* loaded when it comes to write it.                                         *)

LabExists(l) == labRow[l].state # "none"
ExportExists(e) == exRow[e].state # "none"

Exists(r) ==
  /\ r \in Labs => LabExists(r)
  /\ r \in Exports => ExportExists(r)

\* Rows refer to rows that exist.
RowsWellFounded ==
  /\ \A l \in Labs : LabExists(l) => labRow[l].profile_name \in ProfileNames
  /\ \A e \in Exports :
       ExportExists(e) => exRow[e].lab \in Labs /\ LabExists(exRow[e].lab)
  /\ \A r \in Resources : apRow[r].state # "none" => Exists(r)
  /\ \A c \in released : ExportExists(c[2])

CreatingLab(s) == sess[s].pc = "lab.allocated"
Destroying(s) == sess[s].pc \in {"destroy.loaded", "destroy.removed"}
CreatingExport(s) == sess[s].pc \in {"export.checked", "export.copied"}
Releasing(s) == sess[s].pc \in {"release.checked", "release.copied"}
Reconciling(s) == sess[s].pc = "reconcile.loaded"

\* A request that creates a lab is the only one with its id, which has no row
\* yet, and has not lost the profile's demand for an approval.
OwnsNewLab(s) ==
  CreatingLab(s) =>
    /\ ~LabExists(sess[s].lab)
    /\ tree[sess[s].lab] = "allocated"
    /\ \A t \in Sessions : CreatingLab(t) /\ sess[t].lab = sess[s].lab => t = s
    /\ Registry[sess[s].profile_name].approval_on_start
         => sess[s].approval_required

DestroysExistingLab(s) == Destroying(s) => LabExists(sess[s].lab)

\* Likewise for a request that creates an export.
OwnsNewExport(s) ==
  CreatingExport(s) =>
    /\ LabExists(sess[s].lab)
    /\ ~ExportExists(sess[s].export)
    /\ \A t \in Sessions :
         CreatingExport(t) /\ sess[t].export = sess[s].export => t = s

ActsOnExistingExport(s) ==
  Releasing(s) \/ sess[s].pc = "deny.loaded" => ExportExists(sess[s].export)

Requested(r) == Exists(r) /\ apRow[r].state # "none"

DecidesRequestedApproval(s) ==
  sess[s].pc = "decision.loaded" => Requested(sess[s].resource)

\* However stale, a reconciliation pass holds the labs of all the approvals it
\* is about to expire, and no lab has become pending since it was loaded.
HoldsComparableLabs(s) ==
  Reconciling(s) =>
    /\ \A l \in Labs :
         /\ sess[s].labs[l] # "none" => LabExists(l)
         /\ sess[s].labs[l] \notin {"none", "pending_approval"}
              => labRow[l].state # "pending_approval"
         /\ l \in sess[s].stale => sess[s].labs[l] # "none"
    /\ \A r \in sess[s].stale : Requested(r)

SessionsWellFounded ==
  \A s \in Sessions :
    /\ OwnsNewLab(s)
    /\ DestroysExistingLab(s)
    /\ OwnsNewExport(s)
    /\ ActsOnExistingExport(s)
    /\ DecidesRequestedApproval(s)
    /\ HoldsComparableLabs(s)

\* A gated export loses its approval_required flag only to an approval, or
\* together with its chance of a release; a release that has passed its check
\* acts on an approval however stale the row it loaded.
GateInv ==
  /\ \A e \in Exports :
       NeedsApproval(e) /\ ~exRow[e].approval_required
       => Approved(e) \/ exRow[e].state = "rejected"
  /\ \A s \in Sessions :
       Releasing(s) /\ NeedsApproval(sess[s].export) => Approved(sess[s].export)

\* Copies made by a request that has not committed yet.
CopiesInv ==
  \A s \in Sessions :
    /\ sess[s].pc = "export.copied" /\ tree[sess[s].lab] = "allocated"
       => <<sess[s].lab, sess[s].export>> \in quarantine
    /\ /\ sess[s].pc = "release.copied"
       /\ tree[exRow[sess[s].export].lab] = "allocated"
       => Copy(sess[s].export) \in released

\* Inductive: no step of any session, however its steps interleave with those
\* of the others, leaves it.
IndInv ==
  /\ TypeOK
  /\ RowsWellFounded
  /\ SessionsWellFounded
  /\ GateInv
  /\ CopiesInv
  /\ ReleaseRequiresApproval
  /\ GatedLabsNeedApproval
  /\ BlockedResourcesHaveOpenApproval
  /\ RecordedCopiesExist

-----------------------------------------------------------------------------
(* What holds as long as requests are served one at a time *)

\* The columns of a decided row tell one story.  Each is written by several
\* handlers and the reconciler, and only where it differs from what was
\* loaded: an approval is marked approved exactly when the decision was to
\* approve, exactly the rejected exports carry a denial reason and exactly the
\* released ones a released path.
RecordsAgree ==
  /\ \A r \in Resources : apRow[r].approved <=> apRow[r].state = "approved"
  /\ \A e \in Exports :
       /\ exRow[e].denial_reason <=> exRow[e].state = "rejected"
       /\ exRow[e].released_path <=> exRow[e].state = "released"

\* A lab is not marked destroyed while anything of it is left on disk, however
\* many of the steps of destroying it, staging or releasing its exports fail
\* half way.
DestroyLeavesNothing ==
  [][\A l \in Labs :
       labRow[l].state # "destroyed" /\ labRow'[l].state = "destroyed"
       => tree'[l] = "absent"]_vars

\* An approval changes state only the way APPROVAL_TRANSITIONS allows: a decided
\* or expired one never changes again, whoever decides next.
DecisionsAreFinal ==
  [][\A r \in Resources :
       apRow[r].state \notin {"none", apRow'[r].state}
       => CanTransition(APPROVAL_TRANSITIONS, apRow[r].state, apRow'[r].state)]_vars

\* No handler takes an export out of a state EXPORT_TRANSITIONS has no way out
\* of.
ExportTerminalStatesAreFinal ==
  [][\A e \in Exports :
       exRow[e].state \in Terminal(EXPORT_TRANSITIONS)
       => exRow'[e].state = exRow[e].state]_vars

\* One request at a time.
Serial == \A s, t \in Sessions : s = t

\* What a request that nobody races with still holds of what it loaded: the
\* approval it decides or expires is open, the export it releases or denies is
\* the one it read, the tree it removed is gone.
LoadedIsCurrent(s) ==
  /\ sess[s].pc = "decision.loaded" => apRow[sess[s].resource].state = "requested"
  /\ Reconciling(s) => \A r \in sess[s].stale : apRow[r].state = "requested"
  /\ Releasing(s) \/ sess[s].pc = "deny.loaded" =>
       exRow[sess[s].export] = sess[s].old /\ Undecided(sess[s].export)
  /\ Releasing(s) => ~sess[s].old.approval_required
  /\ sess[s].pc = "destroy.removed" => tree[sess[s].lab] = "absent"

\* Inductive for one session, together with IndInv: an export whose approval is
\* open is still blocked, so that its decision meets no released export.
SerialInv ==
  /\ \A s \in Sessions : LoadedIsCurrent(s)
  /\ \A e \in Exports :
       apRow[e].state = "requested" =>
         exRow[e].approval_required /\ exRow[e].state # "released"
  /\ RecordsAgree

-----------------------------------------------------------------------------
(* What happens in the end, if the reconciler keeps running *)

\* No lab or export waits for ever: it is decided, or its approval expires and
\* the reconciler closes both.
BlockedResourcesResolve ==
  \A r \in Resources : Blocked(r) ~> ~Blocked(r)

Broken(l) ==
  /\ labRow[l].state \notin {"none", "failed", "destroyed"}
  /\ tree[l] = "absent"

\* A live lab whose storage root is gone (a destroy that failed before its
\* commit, an approval granted after it) does not keep that state.
BrokenLabsAreFlagged ==
  \A l \in Labs : Broken(l) ~> ~Broken(l)
=============================================================================
