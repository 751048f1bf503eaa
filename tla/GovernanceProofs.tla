-------------------------- MODULE GovernanceProofs --------------------------
(***************************************************************************)
(* Proofs that Governance keeps its type invariant and, for any number of  *)
(* labs, exports and concurrent sessions and any well-formed registry,     *)
(* that no export escapes its approval, no gated lab is approved without   *)
(* one, nothing is left blocked on a closed approval, and recorded copies  *)
(* exist.                                                                  *)
(***************************************************************************)
EXTENDS Governance, TLAPS

\* What a session holds is determined by where its request stands.
LEMMA SessionShape ==
  ASSUME NEW x \in SessionState
  PROVE
    /\ x.pc = "lab.allocated" =>
         x \in [pc: {"lab.allocated"}, lab: Labs, profile_name: ProfileNames,
                approval_required: BOOLEAN]
    /\ x.pc \in {"destroy.loaded", "destroy.removed"} =>
         x \in [pc: {"destroy.loaded", "destroy.removed"}, lab: Labs]
    /\ x.pc \in {"export.checked", "export.copied"} =>
         x \in [pc: {"export.checked", "export.copied"}, lab: Labs,
                export: Exports]
    /\ x.pc \in {"release.checked", "release.copied", "deny.loaded"} =>
         x \in [pc: {"release.checked", "release.copied", "deny.loaded"},
                export: Exports, old: ExportRow]
    /\ x.pc = "decision.loaded" =>
         x \in [pc: {"decision.loaded"}, resource: Resources, decision: Decision]
    /\ x.pc = "reconcile.loaded" =>
         x \in [pc: {"reconcile.loaded"}, labs: [Labs -> Row(LabState)],
                stale: SUBSET Resources]
  BY DEF SessionState, Idle

\* A session that ends or is aborted is idle again.
LEMMA FinishType ==
  ASSUME TypeOK, NEW s \in Sessions, Finish(s)
  PROVE sess' \in [Sessions -> SessionState]
  BY DEF TypeOK, Finish, SessionState

\* Every step, of every handler, keeps the type invariant.
LEMMA TypeStep == TypeOK /\ [Next]_vars => TypeOK'
<1> SUFFICES ASSUME TypeOK, [Next]_vars PROVE TypeOK'
  OBVIOUS
<1> USE DEF TypeOK
<1>1. ASSUME NEW s \in Sessions, NEW l \in Labs, NEW p \in ProfileNames,
             NEW q \in RequesterType, BeginCreateLab(s, l, p, q)
      PROVE TypeOK'
  <2>1. [pc |-> "lab.allocated", lab |-> l, profile_name |-> p,
         approval_required |-> ApprovalRequired(Registry[p], q)] \in SessionState
    BY DEF SessionState, ApprovalRequired
  <2>2. sess' \in [Sessions -> SessionState]
    BY <1>1, <2>1 DEF BeginCreateLab, Load
  <2> QED
    BY <1>1, <2>2 DEF BeginCreateLab, db, TreeState
<1>2. ASSUME NEW s \in Sessions, CommitCreateLab(s) PROVE TypeOK'
  <2>1. /\ sess[s].lab \in Labs
        /\ sess[s].profile_name \in ProfileNames
        /\ sess[s].approval_required \in BOOLEAN
    BY <1>2, SessionShape DEF CommitCreateLab
  <2>2. labRow' \in [Labs -> LabRow]
    BY <1>2, <2>1 DEF CommitCreateLab, LabRow, Row, LabState
  <2>3. apRow' \in [Resources -> ApprovalRow]
    <3>1. [state |-> "requested", approved |-> FALSE] \in ApprovalRow
      BY DEF ApprovalRow, Row, ApprovalState
    <3> QED
      BY <1>2, <2>1, <3>1 DEF CommitCreateLab, RequestApproval, Resources
  <2>4. audit' \subseteq EventType \X Resources
    BY <1>2, <2>1 DEF CommitCreateLab, Record, ApprovalEvents, EventType, Resources
  <2> QED
    BY <1>2, <2>2, <2>3, <2>4, FinishType DEF CommitCreateLab, disk
<1>3. ASSUME NEW s \in Sessions, NEW l \in Labs, BeginDestroy(s, l) PROVE TypeOK'
  <2>1. [pc |-> "destroy.loaded", lab |-> l] \in SessionState
    BY DEF SessionState
  <2> QED
    BY <1>3, <2>1 DEF BeginDestroy, Load, db, disk
<1>4. ASSUME NEW s \in Sessions, RemoveTree(s) PROVE TypeOK'
  <2>1. [sess[s] EXCEPT !.pc = "destroy.removed"] \in SessionState
    BY <1>4, SessionShape DEF RemoveTree, SessionState
  <2>2. sess' \in [Sessions -> SessionState]
    BY <1>4, <2>1 DEF RemoveTree, GoTo
  <2> QED
    BY <1>4, <2>2 DEF RemoveTree, OfOtherLabs, db, TreeState
<1>5. ASSUME NEW s \in Sessions, RemoveTreeFails(s) PROVE TypeOK'
  BY <1>5, FinishType DEF RemoveTreeFails, db, TreeState
<1>6. ASSUME NEW s \in Sessions, CommitDestroy(s) PROVE TypeOK'
  <2>1. sess[s].lab \in Labs
    BY <1>6, SessionShape DEF CommitDestroy
  <2>2. labRow' \in [Labs -> LabRow]
    BY <1>6, <2>1 DEF CommitDestroy, LabRow, Row, LabState
  <2>3. audit' \subseteq EventType \X Resources
    BY <1>6, <2>1 DEF CommitDestroy, Record, EventType, Resources
  <2> QED
    BY <1>6, <2>2, <2>3, FinishType DEF CommitDestroy, disk
<1>7. ASSUME NEW s \in Sessions, NEW e \in Exports, NEW l \in Labs,
             NEW path \in ExportPath, BeginExport(s, e, l, path)
      PROVE TypeOK'
  <2>1. [pc |-> "export.checked", lab |-> l, export |-> e] \in SessionState
    BY DEF SessionState
  <2> QED
    BY <1>7, <2>1 DEF BeginExport, Load, db, disk
<1>8. ASSUME NEW s \in Sessions, CopyToQuarantine(s) PROVE TypeOK'
  <2>1. /\ [sess[s] EXCEPT !.pc = "export.copied"] \in SessionState
        /\ <<sess[s].lab, sess[s].export>> \in Labs \X Exports
    BY <1>8, SessionShape DEF CopyToQuarantine, SessionState
  <2>2. sess' \in [Sessions -> SessionState]
    BY <1>8, <2>1 DEF CopyToQuarantine, GoTo
  <2> QED
    BY <1>8, <2>1, <2>2 DEF CopyToQuarantine, db
<1>9. ASSUME NEW s \in Sessions, CopyToQuarantineFails(s) PROVE TypeOK'
  BY <1>9, FinishType DEF CopyToQuarantineFails, MakeParents, db, TreeState
<1>10. ASSUME NEW s \in Sessions, CommitExport(s) PROVE TypeOK'
  <2> DEFINE l == sess[s].lab
             e == sess[s].export
             gated == ExportDecision(ProfileOf(l), "lab_exports").approval_required
  <2>1. l \in Labs /\ e \in Exports
    BY <1>10, SessionShape DEF CommitExport
  <2>2. gated \in BOOLEAN
    BY DEF ExportDecision, PrefixManaged
  <2> HIDE DEF gated
  <2>3. exRow' \in [Exports -> ExportRow]
    <3>1. [lab |-> l, state |-> "quarantined", approval_required |-> gated,
           released_path |-> FALSE, denial_reason |-> FALSE] \in ExportRow
      BY <2>1, <2>2 DEF ExportRow, Row, ExportState
    <3> QED
      BY <1>10, <2>1, <3>1 DEF CommitExport, gated
  <2>4. apRow' \in [Resources -> ApprovalRow]
    <3>1. [state |-> "requested", approved |-> FALSE] \in ApprovalRow
      BY DEF ApprovalRow, Row, ApprovalState
    <3>2. RequestApproval(e) \/ UNCHANGED apRow
      BY <1>10 DEF CommitExport
    <3> QED
      BY <2>1, <3>1, <3>2 DEF RequestApproval, Resources
  <2>5. audit' \subseteq EventType \X Resources
    BY <1>10, <2>1 DEF CommitExport, Record, ApprovalEvents, EventType, Resources
  <2> QED
    BY <1>10, <2>3, <2>4, <2>5, FinishType DEF CommitExport, disk
<1>11. ASSUME NEW s \in Sessions, NEW e \in Exports, ReleaseBlocked(s, e)
       PROVE TypeOK'
  BY <1>11 DEF ReleaseBlocked, Record, EventType, Resources, disk
<1>12. ASSUME NEW s \in Sessions, NEW e \in Exports, BeginRelease(s, e)
       PROVE TypeOK'
  <2>1. [pc |-> "release.checked", export |-> e, old |-> exRow[e]] \in SessionState
    BY DEF SessionState
  <2> QED
    BY <1>12, <2>1 DEF BeginRelease, Load, db, disk
<1>13. ASSUME NEW s \in Sessions, CopyToReleased(s) PROVE TypeOK'
  <2>1. [sess[s] EXCEPT !.pc = "release.copied"] \in SessionState
    BY <1>13, SessionShape DEF CopyToReleased, SessionState
  <2>2. sess' \in [Sessions -> SessionState]
    BY <1>13, <2>1 DEF CopyToReleased, GoTo
  <2> QED
    BY <1>13, <2>2 DEF CopyToReleased, db
<1>14. ASSUME NEW s \in Sessions, CopyToReleasedFails(s) PROVE TypeOK'
  BY <1>14, FinishType DEF CopyToReleasedFails, MakeParents, db, TreeState
<1>15. ASSUME NEW s \in Sessions, CommitRelease(s) PROVE TypeOK'
  <2>1. sess[s].export \in Exports
    BY <1>15, SessionShape DEF CommitRelease
  <2>2. exRow' \in [Exports -> ExportRow]
    BY <1>15, <2>1 DEF CommitRelease, Net, ExportRow, Row, ExportState
  <2>3. audit' \subseteq EventType \X Resources
    BY <1>15, <2>1 DEF CommitRelease, Record, EventType, Resources
  <2> QED
    BY <1>15, <2>2, <2>3, FinishType DEF CommitRelease, disk
<1>16. ASSUME NEW s \in Sessions, NEW e \in Exports, BeginDeny(s, e) PROVE TypeOK'
  <2>1. [pc |-> "deny.loaded", export |-> e, old |-> exRow[e]] \in SessionState
    BY DEF SessionState
  <2> QED
    BY <1>16, <2>1 DEF BeginDeny, Load, db, disk
<1>17. ASSUME NEW s \in Sessions, CommitDeny(s) PROVE TypeOK'
  <2>1. sess[s].export \in Exports
    BY <1>17, SessionShape DEF CommitDeny
  <2>2. exRow' \in [Exports -> ExportRow]
    BY <1>17, <2>1 DEF CommitDeny, Net, ExportRow, Row, ExportState
  <2>3. audit' \subseteq EventType \X Resources
    BY <1>17, <2>1 DEF CommitDeny, Record, EventType, Resources
  <2> QED
    BY <1>17, <2>2, <2>3, FinishType DEF CommitDeny, disk
<1>18. ASSUME NEW s \in Sessions, NEW r \in Resources, NEW d \in Decision,
              BeginDecision(s, r, d)
       PROVE TypeOK'
  <2>1. [pc |-> "decision.loaded", resource |-> r, decision |-> d] \in SessionState
    BY DEF SessionState
  <2> QED
    BY <1>18, <2>1 DEF BeginDecision, Load, db, disk
<1>19. ASSUME NEW s \in Sessions, CommitDecision(s) PROVE TypeOK'
  <2>1. sess[s].resource \in Resources /\ sess[s].decision \in Decision
    BY <1>19, SessionShape DEF CommitDecision
  <2>2. apRow' \in [Resources -> ApprovalRow]
    BY <1>19, <2>1 DEF CommitDecision, Decision, Net, ApprovalRow, Row, ApprovalState
  <2>3. labRow' \in [Labs -> LabRow]
    BY <1>19, <2>1 DEF CommitDecision, LabRow, Row, LabState
  <2>4. exRow' \in [Exports -> ExportRow]
    BY <1>19, <2>1 DEF CommitDecision, Decision, ExportRow, Row, ExportState
  <2>5. audit' \subseteq EventType \X Resources
    BY <1>19, <2>1 DEF CommitDecision, Record, EventType
  <2> QED
    BY <1>19, <2>2, <2>3, <2>4, <2>5, FinishType DEF CommitDecision, disk
<1>20. ASSUME NEW s \in Sessions, BeginReconcile(s) PROVE TypeOK'
  <2>1. [pc |-> "reconcile.loaded",
         labs |-> [l \in Labs |-> labRow[l].state],
         stale |-> {r \in overdue : apRow[r].state = "requested"}] \in SessionState
    BY DEF SessionState, LabRow
  <2> QED
    BY <1>20, <2>1 DEF BeginReconcile, Load, db, disk
<1>21. ASSUME NEW s \in Sessions, CommitReconcile(s) PROVE TypeOK'
  <2>1. /\ sess[s].labs \in [Labs -> Row(LabState)]
        /\ sess[s].stale \subseteq Resources
    BY <1>21, SessionShape DEF CommitReconcile
  <2>2. apRow' \in [Resources -> ApprovalRow]
    BY <1>21 DEF CommitReconcile, ApprovalRow, Row, ApprovalState
  <2>3. labRow' \in [Labs -> LabRow]
    BY <1>21, <2>1 DEF CommitReconcile, Net, ReconciledState, LabRow, Row, LabState
  <2>4. exRow' \in [Exports -> ExportRow]
    BY <1>21 DEF CommitReconcile, ExpiredExport, ExportRow, Row, ExportState
  <2>5. audit' \subseteq EventType \X Resources
    BY <1>21, <2>1 DEF CommitReconcile, MissingRoot, Record, EventType, Resources
  <2> QED
    BY <1>21, <2>2, <2>3, <2>4, <2>5, FinishType DEF CommitReconcile, disk
<1>22. ASSUME NEW r \in Resources, ExpiryPasses(r) PROVE TypeOK'
  BY <1>22 DEF ExpiryPasses, db, disk
<1>23. ASSUME NEW s \in Sessions, Abort(s) PROVE TypeOK'
  BY <1>23, FinishType DEF Abort, db, disk
<1>24. CASE UNCHANGED vars
  BY <1>24 DEF vars
<1> QED
  BY <1>1, <1>2, <1>3, <1>4, <1>5, <1>6, <1>7, <1>8, <1>9, <1>10, <1>11, <1>12,
     <1>13, <1>14, <1>15, <1>16, <1>17, <1>18, <1>19, <1>20, <1>21, <1>22, <1>23,
     <1>24
  DEF Next, Begin, Continue

-----------------------------------------------------------------------------
(* Which steps write what *)

\* The handlers that write each table or directory.
LEMMA Writers ==
  ASSUME [Next]_vars
  PROVE /\ \/ UNCHANGED labRow
           \/ \E s \in Sessions : CommitCreateLab(s) \/ CommitDestroy(s)
                                    \/ CommitDecision(s) \/ CommitReconcile(s)
        /\ \/ UNCHANGED exRow
           \/ \E s \in Sessions : CommitExport(s) \/ CommitRelease(s) \/ CommitDeny(s)
                                    \/ CommitDecision(s) \/ CommitReconcile(s)
        /\ \/ UNCHANGED apRow
           \/ \E s \in Sessions : CommitCreateLab(s) \/ CommitExport(s)
                                    \/ CommitDecision(s) \/ CommitReconcile(s)
        /\ audit \subseteq audit'
        /\ \/ UNCHANGED tree
           \/ \E s \in Sessions :
                \/ \E l \in Labs, p \in ProfileNames, q \in RequesterType :
                     BeginCreateLab(s, l, p, q)
                \/ RemoveTree(s) \/ RemoveTreeFails(s)
                \/ CopyToQuarantineFails(s) \/ CopyToReleasedFails(s)
        /\ \/ UNCHANGED quarantine
           \/ \E s \in Sessions :
                RemoveTree(s) \/ RemoveTreeFails(s) \/ CopyToQuarantine(s)
        /\ \/ UNCHANGED released
           \/ \E s \in Sessions :
                RemoveTree(s) \/ RemoveTreeFails(s) \/ CopyToReleased(s)
<1>1. CASE UNCHANGED vars
  BY <1>1 DEF vars
<1>2. ASSUME NEW s \in Sessions, Begin(s)
      PROVE /\ UNCHANGED <<labRow, exRow, apRow, quarantine, released>>
            /\ audit \subseteq audit'
            /\ \/ UNCHANGED tree
               \/ \E l \in Labs, p \in ProfileNames, q \in RequesterType :
                    BeginCreateLab(s, l, p, q)
  BY <1>2 DEF Begin, BeginCreateLab, BeginDestroy, BeginExport, BeginRelease,
              ReleaseBlocked, BeginDeny, BeginDecision, BeginReconcile, Record,
              db, disk
<1>3. ASSUME NEW s \in Sessions, Abort(s) PROVE UNCHANGED <<db, disk>>
  BY <1>3 DEF Abort
<1>4. ASSUME NEW r \in Resources, ExpiryPasses(r) PROVE UNCHANGED <<db, disk>>
  BY <1>4 DEF ExpiryPasses
<1>5. ASSUME NEW s \in Sessions, CommitCreateLab(s)
      PROVE UNCHANGED <<exRow, disk>> /\ audit \subseteq audit'
  BY <1>5 DEF CommitCreateLab, Record
<1>6. ASSUME NEW s \in Sessions, RemoveTree(s) \/ RemoveTreeFails(s)
      PROVE UNCHANGED db
  BY <1>6 DEF RemoveTree, RemoveTreeFails
<1>7. ASSUME NEW s \in Sessions, CommitDestroy(s)
      PROVE UNCHANGED <<exRow, apRow, disk>> /\ audit \subseteq audit'
  BY <1>7 DEF CommitDestroy, Record
<1>8. ASSUME NEW s \in Sessions, CopyToQuarantine(s)
      PROVE UNCHANGED <<db, tree, released>>
  BY <1>8 DEF CopyToQuarantine
<1>9. ASSUME NEW s \in Sessions, CopyToQuarantineFails(s) \/ CopyToReleasedFails(s)
      PROVE UNCHANGED <<db, quarantine, released>>
  BY <1>9 DEF CopyToQuarantineFails, CopyToReleasedFails
<1>10. ASSUME NEW s \in Sessions, CommitExport(s)
       PROVE UNCHANGED <<labRow, disk>> /\ audit \subseteq audit'
  BY <1>10 DEF CommitExport, Record
<1>11. ASSUME NEW s \in Sessions, CopyToReleased(s)
       PROVE UNCHANGED <<db, tree, quarantine>>
  BY <1>11 DEF CopyToReleased
<1>12. ASSUME NEW s \in Sessions, CommitRelease(s) \/ CommitDeny(s)
       PROVE UNCHANGED <<labRow, apRow, disk>> /\ audit \subseteq audit'
  BY <1>12 DEF CommitRelease, CommitDeny, Record
<1>13. ASSUME NEW s \in Sessions, CommitDecision(s) \/ CommitReconcile(s)
       PROVE UNCHANGED disk /\ audit \subseteq audit'
  BY <1>13 DEF CommitDecision, CommitReconcile, Record
<1> QED
  BY <1>1, <1>2, <1>3, <1>4, <1>5, <1>6, <1>7, <1>8, <1>9, <1>10, <1>11, <1>12,
     <1>13
  DEF Next, Continue, db, disk

\* What a step may do to a lab row: create it, or overwrite its state with
\* destroyed, failed or, on an approval, approved.
LEMMA LabStep ==
  ASSUME TypeOK, SessionsWellFounded, [Next]_vars, NEW l \in Labs
  PROVE \/ labRow'[l] = labRow[l]
        \/ \E s \in Sessions : CommitCreateLab(s) /\ sess[s].lab = l
        \/ /\ LabExists(l)
           /\ labRow'[l].profile_name = labRow[l].profile_name
           /\ \/ labRow'[l].state \in {"destroyed", "failed"}
              \/ labRow'[l].state = "approved" /\ Approved(l)'
<1> USE DEF TypeOK
<1>1. CASE UNCHANGED labRow
  BY <1>1
<1>2. ASSUME NEW s \in Sessions, CommitCreateLab(s), sess[s].lab # l
      PROVE labRow'[l] = labRow[l]
  BY <1>2 DEF CommitCreateLab
<1>3. ASSUME NEW s \in Sessions, CommitDestroy(s), labRow'[l] # labRow[l]
      PROVE /\ LabExists(l)
            /\ labRow'[l].profile_name = labRow[l].profile_name
            /\ labRow'[l].state = "destroyed"
  <2>1. sess[s].lab = l
    BY <1>3 DEF CommitDestroy
  <2>2. LabExists(l)
    BY <1>3, <2>1 DEF CommitDestroy, SessionsWellFounded, DestroysExistingLab, Destroying
  <2> QED
    BY <1>3, <2>1, <2>2 DEF CommitDestroy, LabRow
<1>4. ASSUME NEW s \in Sessions, CommitDecision(s), labRow'[l] # labRow[l]
      PROVE /\ LabExists(l)
            /\ labRow'[l].profile_name = labRow[l].profile_name
            /\ \/ labRow'[l].state = "failed"
               \/ labRow'[l].state = "approved" /\ Approved(l)'
  <2>1. sess[s].resource = l
    BY <1>4 DEF CommitDecision
  <2>2. LabExists(l)
    BY <1>4, <2>1 DEF CommitDecision, SessionsWellFounded, DecidesRequestedApproval, Requested,
           Exists
  <2> QED
    BY <1>4, <2>1, <2>2 DEF CommitDecision, LabRow, Approved, Record
<1>5. ASSUME NEW s \in Sessions, CommitReconcile(s), labRow'[l] # labRow[l]
      PROVE /\ LabExists(l)
            /\ labRow'[l].profile_name = labRow[l].profile_name
            /\ labRow'[l].state = "failed"
  <2>1. sess[s].labs[l] # "none"
    BY <1>5 DEF CommitReconcile, Net, ReconciledState, MissingRoot, LabRow
  <2>2. LabExists(l)
    BY <1>5, <2>1 DEF CommitReconcile, SessionsWellFounded, HoldsComparableLabs, Reconciling
  <2> QED
    BY <1>5, <2>2 DEF CommitReconcile, Net, ReconciledState, LabRow
<1> QED
  BY <1>1, <1>2, <1>3, <1>4, <1>5, Writers

\* What a step may do to an export row: create it, release it on behalf of a
\* request that has copied it, reject it or, on an approval, approve it.
LEMMA ExportStep ==
  ASSUME TypeOK, SessionsWellFounded, [Next]_vars, NEW e \in Exports
  PROVE \/ exRow'[e] = exRow[e]
        \/ \E s \in Sessions : CommitExport(s) /\ sess[s].export = e
        \/ /\ ExportExists(e)
           /\ exRow'[e].lab = exRow[e].lab
           /\ \/ /\ exRow'[e].state = "released"
                 /\ \E s \in Sessions :
                      sess[s].pc = "release.copied" /\ sess[s].export = e
              \/ exRow'[e].state = "rejected"
              \/ exRow'[e].state = "approved" /\ Approved(e)'
<1> USE DEF TypeOK
<1>1. CASE UNCHANGED exRow
  BY <1>1
<1>2. ASSUME NEW s \in Sessions, CommitExport(s), sess[s].export # e
      PROVE exRow'[e] = exRow[e]
  BY <1>2 DEF CommitExport
<1>3. ASSUME NEW s \in Sessions, CommitRelease(s), exRow'[e] # exRow[e]
      PROVE /\ ExportExists(e)
            /\ exRow'[e].lab = exRow[e].lab
            /\ exRow'[e].state = "released"
            /\ sess[s].pc = "release.copied" /\ sess[s].export = e
  <2>1. sess[s].export = e
    BY <1>3 DEF CommitRelease
  <2>2. ExportExists(e)
    BY <1>3, <2>1 DEF CommitRelease, SessionsWellFounded, ActsOnExistingExport, Releasing
  <2> QED
    BY <1>3, <2>1, <2>2 DEF CommitRelease, ExportRow
<1>4. ASSUME NEW s \in Sessions, CommitDeny(s), exRow'[e] # exRow[e]
      PROVE /\ ExportExists(e)
            /\ exRow'[e].lab = exRow[e].lab
            /\ exRow'[e].state = "rejected"
  <2>1. sess[s].export = e
    BY <1>4 DEF CommitDeny
  <2>2. ExportExists(e)
    BY <1>4, <2>1 DEF CommitDeny, SessionsWellFounded, ActsOnExistingExport
  <2> QED
    BY <1>4, <2>1, <2>2 DEF CommitDeny, ExportRow
<1>5. ASSUME NEW s \in Sessions, CommitDecision(s), exRow'[e] # exRow[e]
      PROVE /\ ExportExists(e)
            /\ exRow'[e].lab = exRow[e].lab
            /\ \/ exRow'[e].state = "rejected"
               \/ exRow'[e].state = "approved" /\ Approved(e)'
  <2>1. sess[s].resource = e
    BY <1>5 DEF CommitDecision
  <2>2. ExportExists(e)
    BY <1>5, <2>1 DEF CommitDecision, SessionsWellFounded, DecidesRequestedApproval, Requested,
           Exists
  <2>3. sess[s].decision \in Decision
    BY <1>5, SessionShape DEF CommitDecision
  <2> QED
    BY <1>5, <2>1, <2>2, <2>3
    DEF CommitDecision, Decision, ExportRow, Approved, Record
<1>6. ASSUME NEW s \in Sessions, CommitReconcile(s), exRow'[e] # exRow[e]
      PROVE /\ ExportExists(e)
            /\ exRow'[e].lab = exRow[e].lab
            /\ exRow'[e].state = "rejected"
  <2>1. e \in sess[s].stale
    BY <1>6 DEF CommitReconcile
  <2>2. ExportExists(e)
    BY <1>6, <2>1 DEF CommitReconcile, SessionsWellFounded, HoldsComparableLabs, Reconciling,
           Requested, Exists
  <2> QED
    BY <1>6, <2>1, <2>2 DEF CommitReconcile, ExpiredExport, ExportRow
<1> QED
  BY <1>1, <1>2, <1>3, <1>4, <1>5, <1>6, Writers

\* What a step may do to an approval row: open it together with its resource,
\* or close it in a step that leaves the resource unblocked.
LEMMA ApprovalStep ==
  ASSUME TypeOK, SessionsWellFounded, [Next]_vars, NEW r \in Resources
  PROVE \/ apRow'[r] = apRow[r]
        \/ \E s \in Sessions : CommitCreateLab(s) /\ sess[s].lab = r
        \/ \E s \in Sessions : CommitExport(s) /\ sess[s].export = r
        \/ Requested(r) /\ apRow'[r].state # "none" /\ ~Blocked(r)'
<1> USE DEF TypeOK
<1>1. CASE UNCHANGED apRow
  BY <1>1
<1>2. ASSUME NEW s \in Sessions, CommitCreateLab(s), sess[s].lab # r
      PROVE apRow'[r] = apRow[r]
  BY <1>2, SessionShape DEF CommitCreateLab, RequestApproval
<1>3. ASSUME NEW s \in Sessions, CommitExport(s), sess[s].export # r
      PROVE apRow'[r] = apRow[r]
  BY <1>3 DEF CommitExport, RequestApproval
<1>4. ASSUME NEW s \in Sessions, CommitDecision(s), apRow'[r] # apRow[r]
      PROVE Requested(r) /\ apRow'[r].state # "none" /\ ~Blocked(r)'
  <2>1. sess[s].resource = r
    BY <1>4 DEF CommitDecision
  <2>2. Requested(r)
    BY <1>4, <2>1 DEF CommitDecision, SessionsWellFounded, DecidesRequestedApproval
  <2>3. sess[s].decision \in Decision
    BY <1>4, SessionShape DEF CommitDecision
  <2>4. apRow'[r].state # "none"
    BY <1>4, <2>1, <2>3 DEF CommitDecision, Decision, ApprovalRow
  <2>5. ~Blocked(r)'
    BY <1>4, <2>1, <2>3, GovernanceAssumption
    DEF CommitDecision, Decision, Blocked, LabRow, ExportRow
  <2> QED
    BY <2>2, <2>4, <2>5
<1>5. ASSUME NEW s \in Sessions, CommitReconcile(s), apRow'[r] # apRow[r]
      PROVE Requested(r) /\ apRow'[r].state # "none" /\ ~Blocked(r)'
  <2>1. r \in sess[s].stale
    BY <1>5 DEF CommitReconcile
  <2>2. Requested(r)
    BY <1>5, <2>1 DEF CommitReconcile, SessionsWellFounded, HoldsComparableLabs, Reconciling
  <2>3. apRow'[r].state # "none"
    BY <1>5, <2>1 DEF CommitReconcile, ApprovalRow
  <2>4. r \in Exports => exRow'[r].state = "rejected"
    BY <1>5, <2>1 DEF CommitReconcile, ExpiredExport, ExportRow
  <2>5. r \in Labs => labRow'[r].state # "pending_approval"
    <3> SUFFICES ASSUME r \in Labs PROVE labRow'[r].state # "pending_approval"
      OBVIOUS
    <3>1. /\ sess[s].labs[r] # "none"
          /\ sess[s].labs[r] # "pending_approval"
               => labRow[r].state # "pending_approval"
      BY <1>5, <2>1 DEF CommitReconcile, SessionsWellFounded, HoldsComparableLabs, Reconciling
    <3> QED
      BY <1>5, <2>1, <3>1 DEF CommitReconcile, Net, ReconciledState, LabRow
  <2> QED
    BY <2>2, <2>3, <2>4, <2>5 DEF Blocked
<1> QED
  BY <1>1, <1>2, <1>3, <1>4, <1>5, Writers

\* What a step may do to the files of a lab: an intact tree is that of a lab
\* that is being created or was intact before, an intact tree loses no copy,
\* and a copy is released only by a request that has passed the gate.
LEMMA DiskStep ==
  ASSUME TypeOK, SessionsWellFounded, [Next]_vars
  PROVE /\ \A l \in Labs :
             /\ LabExists(l) /\ tree'[l] = "allocated" => tree[l] = "allocated"
             /\ ~LabExists(l) /\ tree[l] = "allocated" => tree'[l] = "allocated"
        /\ \A c \in quarantine : tree'[c[1]] = "allocated" => c \in quarantine'
        /\ \A c \in released : tree'[c[1]] = "allocated" => c \in released'
        /\ \A c \in released' \ released :
             \E s \in Sessions :
               sess[s].pc = "release.checked" /\ c = Copy(sess[s].export)
<1> USE DEF TypeOK
<1>1. ASSUME NEW l \in Labs
      PROVE /\ LabExists(l) /\ tree'[l] = "allocated" => tree[l] = "allocated"
            /\ ~LabExists(l) /\ tree[l] = "allocated" => tree'[l] = "allocated"
  <2>1. CASE UNCHANGED tree
    BY <2>1
  <2>2. ASSUME NEW s \in Sessions, NEW k \in Labs, NEW p \in ProfileNames,
               NEW q \in RequesterType, BeginCreateLab(s, k, p, q)
        PROVE /\ LabExists(l) => tree'[l] = tree[l]
              /\ tree[l] = "allocated" => tree'[l] = "allocated"
    BY <2>2 DEF BeginCreateLab, FreshLab, LabExists
  <2>3. ASSUME NEW s \in Sessions, RemoveTree(s) \/ RemoveTreeFails(s)
        PROVE /\ tree'[l] = "allocated" => tree[l] = "allocated"
              /\ ~LabExists(l) => tree'[l] = tree[l]
    <3>1. LabExists(sess[s].lab)
      BY <2>3 DEF RemoveTree, RemoveTreeFails, SessionsWellFounded, DestroysExistingLab, Destroying
    <3> QED
      BY <2>3, <3>1 DEF RemoveTree, RemoveTreeFails
  <2>4. ASSUME NEW s \in Sessions,
               CopyToQuarantineFails(s) \/ CopyToReleasedFails(s)
        PROVE tree'[l] = "allocated" <=> tree[l] = "allocated"
    BY <2>4 DEF CopyToQuarantineFails, CopyToReleasedFails, MakeParents
  <2> QED
    BY <2>1, <2>2, <2>3, <2>4, Writers
<1>2. ASSUME NEW c \in Labs \X Exports, tree'[c[1]] = "allocated"
      PROVE /\ c \in quarantine => c \in quarantine'
            /\ c \in released => c \in released'
  <2>1. ASSUME NEW s \in Sessions, RemoveTree(s) \/ RemoveTreeFails(s)
        PROVE /\ c \in quarantine => c \in quarantine'
              /\ c \in released => c \in released'
    BY <1>2, <2>1 DEF RemoveTree, RemoveTreeFails, OfOtherLabs
  <2>2. ASSUME NEW s \in Sessions, CopyToQuarantine(s) \/ CopyToReleased(s)
        PROVE quarantine \subseteq quarantine' /\ released \subseteq released'
    BY <2>2 DEF CopyToQuarantine, CopyToReleased
  <2> QED
    BY <2>1, <2>2, Writers
<1>3. ASSUME NEW c \in released' \ released
      PROVE \E s \in Sessions :
              sess[s].pc = "release.checked" /\ c = Copy(sess[s].export)
  BY <1>3, Writers DEF RemoveTree, RemoveTreeFails, OfOtherLabs, CopyToReleased
<1> QED
  BY <1>1, <1>2, <1>3

\* Where a session that has moved came from.
LEMMA SessionStep ==
  ASSUME TypeOK, [Next]_vars, NEW t \in Sessions, sess'[t] # sess[t]
  PROVE /\ sess'[t].pc = "lab.allocated" =>
             \E l \in Labs, p \in ProfileNames, q \in RequesterType :
               BeginCreateLab(t, l, p, q)
        /\ sess'[t].pc = "destroy.loaded" => \E l \in Labs : BeginDestroy(t, l)
        /\ sess'[t].pc = "destroy.removed" => RemoveTree(t)
        /\ sess'[t].pc = "export.checked" =>
             \E e \in Exports, l \in Labs, path \in ExportPath :
               BeginExport(t, e, l, path)
        /\ sess'[t].pc = "export.copied" => CopyToQuarantine(t)
        /\ sess'[t].pc = "release.checked" =>
             \E e \in Exports : BeginRelease(t, e)
        /\ sess'[t].pc = "release.copied" => CopyToReleased(t)
        /\ sess'[t].pc = "deny.loaded" => \E e \in Exports : BeginDeny(t, e)
        /\ sess'[t].pc = "decision.loaded" =>
             \E r \in Resources, d \in Decision : BeginDecision(t, r, d)
        /\ sess'[t].pc = "reconcile.loaded" => BeginReconcile(t)
<1> USE DEF TypeOK
<1>1. Begin(t) \/ Continue(t) \/ Abort(t)
  <2>1. ASSUME NEW s \in Sessions, s # t, Begin(s) PROVE sess'[t] = sess[t]
    BY <2>1 DEF Begin, BeginCreateLab, BeginDestroy, BeginExport, BeginRelease,
                ReleaseBlocked, BeginDeny, BeginDecision, BeginReconcile, Load
  <2>2. ASSUME NEW s \in Sessions, s # t, Continue(s) \/ Abort(s)
        PROVE sess'[t] = sess[t]
    BY <2>2 DEF Continue, CommitCreateLab, RemoveTree, RemoveTreeFails,
                CommitDestroy, CopyToQuarantine, CopyToQuarantineFails,
                CommitExport, CopyToReleased, CopyToReleasedFails, CommitRelease,
                CommitDeny, CommitDecision, CommitReconcile, Abort, GoTo, Finish
  <2>3. ASSUME NEW r \in Resources, ExpiryPasses(r) PROVE UNCHANGED sess
    BY <2>3 DEF ExpiryPasses
  <2> QED
    BY <2>1, <2>2, <2>3 DEF Next, vars
<1>2. CASE Begin(t)
  <2>1. ASSUME NEW l \in Labs, NEW p \in ProfileNames, NEW q \in RequesterType,
               BeginCreateLab(t, l, p, q)
        PROVE sess'[t].pc = "lab.allocated"
    BY <2>1 DEF BeginCreateLab, Load
  <2>2. ASSUME NEW l \in Labs, BeginDestroy(t, l)
        PROVE sess'[t].pc = "destroy.loaded"
    BY <2>2 DEF BeginDestroy, Load
  <2>3. ASSUME NEW e \in Exports, NEW l \in Labs, NEW path \in ExportPath,
               BeginExport(t, e, l, path)
        PROVE sess'[t].pc = "export.checked"
    BY <2>3 DEF BeginExport, Load
  <2>4. ASSUME NEW e \in Exports
        PROVE /\ BeginRelease(t, e) => sess'[t].pc = "release.checked"
              /\ BeginDeny(t, e) => sess'[t].pc = "deny.loaded"
              /\ ~ReleaseBlocked(t, e)
    BY DEF BeginRelease, BeginDeny, ReleaseBlocked, Load
  <2>5. ASSUME NEW r \in Resources, NEW d \in Decision, BeginDecision(t, r, d)
        PROVE sess'[t].pc = "decision.loaded"
    BY <2>5 DEF BeginDecision, Load
  <2>6. BeginReconcile(t) => sess'[t].pc = "reconcile.loaded"
    BY DEF BeginReconcile, Load
  <2> QED
    BY <1>2, <2>1, <2>2, <2>3, <2>4, <2>5, <2>6 DEF Begin
<1>3. CASE RemoveTree(t)
  BY <1>3, SessionShape DEF RemoveTree, GoTo
<1>4. CASE CopyToQuarantine(t)
  BY <1>4, SessionShape DEF CopyToQuarantine, GoTo
<1>5. CASE CopyToReleased(t)
  BY <1>5, SessionShape DEF CopyToReleased, GoTo
<1>6. CASE Finish(t)
  BY <1>6 DEF Finish, Idle
<1> QED
  BY <1>1, <1>2, <1>3, <1>4, <1>5, <1>6
  DEF Continue, CommitCreateLab, RemoveTreeFails, CommitDestroy,
      CopyToQuarantineFails, CommitExport, CopyToReleasedFails, CommitRelease,
      CommitDeny, CommitDecision, CommitReconcile, Abort

-----------------------------------------------------------------------------
(* The inductive invariant *)

\* With empty tables, an empty disk and idle sessions there is nothing to show.
LEMMA IndInvInit == Init => IndInv
<1> SUFFICES ASSUME Init PROVE IndInv
  OBVIOUS
<1>1. TypeOK
  BY DEF Init, TypeOK, LabRow, ExportRow, ApprovalRow, Row, TreeState, SessionState
<1>2. /\ \A l \in Labs : labRow[l].state = "none"
      /\ \A e \in Exports : exRow[e].state = "none"
      /\ \A r \in Resources : apRow[r].state = "none"
      /\ \A s \in Sessions : sess[s].pc = "idle"
      /\ released = {}
  BY DEF Init, Idle
<1>3. RowsWellFounded /\ SessionsWellFounded
  BY <1>2 DEF RowsWellFounded, LabExists, ExportExists, SessionsWellFounded,
              OwnsNewLab, DestroysExistingLab, OwnsNewExport, ActsOnExistingExport,
              DecidesRequestedApproval, HoldsComparableLabs, CreatingLab,
              Destroying, CreatingExport, Releasing, Reconciling
<1>4. GateInv /\ CopiesInv
  BY <1>2 DEF GateInv, CopiesInv, NeedsApproval, Releasing
<1>5. ReleaseRequiresApproval /\ RecordedCopiesExist
  BY <1>2 DEF ReleaseRequiresApproval, RecordedCopiesExist, NeedsApproval
<1>6. GatedLabsNeedApproval /\ BlockedResourcesHaveOpenApproval
  BY <1>2 DEF GatedLabsNeedApproval, BlockedResourcesHaveOpenApproval, Blocked
<1> QED
  BY <1>1, <1>3, <1>4, <1>5, <1>6 DEF IndInv

\* A row that exists stays, with the references it was created with.
LEMMA RowsPersist ==
  ASSUME TypeOK, SessionsWellFounded, [Next]_vars
  PROVE /\ \A l \in Labs :
             LabExists(l) => /\ LabExists(l)'
                             /\ labRow'[l].profile_name = labRow[l].profile_name
        /\ \A e \in Exports :
             ExportExists(e) => ExportExists(e)' /\ exRow'[e].lab = exRow[e].lab
<1>1. ASSUME NEW l \in Labs, LabExists(l)
      PROVE LabExists(l)' /\ labRow'[l].profile_name = labRow[l].profile_name
  <2>1. ASSUME NEW s \in Sessions, CommitCreateLab(s) PROVE sess[s].lab # l
    BY <1>1, <2>1 DEF SessionsWellFounded, OwnsNewLab, CreatingLab, CommitCreateLab
  <2> QED
    BY <1>1, <2>1, LabStep DEF LabExists
<1>2. ASSUME NEW e \in Exports, ExportExists(e)
      PROVE ExportExists(e)' /\ exRow'[e].lab = exRow[e].lab
  <2>1. ASSUME NEW s \in Sessions, CommitExport(s) PROVE sess[s].export # e
    BY <1>2, <2>1 DEF SessionsWellFounded, OwnsNewExport, CreatingExport, CommitExport
  <2> QED
    BY <1>2, <2>1, ExportStep DEF ExportExists
<1> QED
  BY <1>1, <1>2

\* The row a creating request inserts.
LEMMA CreatedLab ==
  ASSUME TypeOK, NEW s \in Sessions, CommitCreateLab(s)
  PROVE /\ sess[s].lab \in Labs
        /\ sess[s].profile_name \in ProfileNames
        /\ labRow'[sess[s].lab].profile_name = sess[s].profile_name
        /\ \/ /\ labRow'[sess[s].lab].state = "pending_approval"
              /\ apRow'[sess[s].lab].state = "requested"
           \/ /\ labRow'[sess[s].lab].state = "approved"
              /\ ~sess[s].approval_required
              /\ UNCHANGED apRow
<1>1. /\ sess[s].lab \in Labs
      /\ sess[s].profile_name \in ProfileNames
      /\ sess[s].approval_required \in BOOLEAN
  BY SessionShape DEF TypeOK, CommitCreateLab
<1>2. labRow'[sess[s].lab] =
        [state |-> IF sess[s].approval_required THEN "pending_approval"
                                                ELSE "approved",
         profile_name |-> sess[s].profile_name]
  BY <1>1 DEF TypeOK, CommitCreateLab
<1>3. IF sess[s].approval_required THEN apRow'[sess[s].lab].state = "requested"
                                   ELSE UNCHANGED apRow
  BY <1>1 DEF TypeOK, CommitCreateLab, RequestApproval, Resources
<1> QED
  BY <1>1, <1>2, <1>3

\* Likewise for an export: it refers to the lab that the request named.
LEMMA CreatedExport ==
  ASSUME TypeOK, NEW s \in Sessions, CommitExport(s)
  PROVE /\ sess[s].lab \in Labs
        /\ sess[s].export \in Exports
        /\ exRow'[sess[s].export].lab = sess[s].lab
        /\ exRow'[sess[s].export].state = "quarantined"
        /\ exRow'[sess[s].export].approval_required
             <=> ProfileOf(sess[s].lab).approval_on_export
        /\ IF exRow'[sess[s].export].approval_required
           THEN apRow'[sess[s].export].state = "requested"
           ELSE UNCHANGED apRow
        /\ UNCHANGED labRow
<1> DEFINE e == sess[s].export
           gated == ExportDecision(ProfileOf(sess[s].lab), "lab_exports").approval_required
<1>1. sess[s].lab \in Labs /\ e \in Exports
  BY SessionShape DEF TypeOK, CommitExport
<1>2. gated <=> ProfileOf(sess[s].lab).approval_on_export
  BY DEF ExportDecision, PrefixManaged
<1>3. exRow'[e] = [lab |-> sess[s].lab, state |-> "quarantined",
                   approval_required |-> gated,
                   released_path |-> FALSE, denial_reason |-> FALSE]
  BY <1>1 DEF TypeOK, CommitExport
<1>4. IF gated THEN apRow'[e].state = "requested" ELSE UNCHANGED apRow
  BY <1>1 DEF TypeOK, CommitExport, RequestApproval, Resources
<1>5. UNCHANGED labRow
  BY DEF CommitExport
<1> HIDE DEF gated
<1> QED
  BY <1>1, <1>2, <1>3, <1>4, <1>5

\* An approval that has been requested is never withdrawn.
LEMMA RequestsPersist ==
  ASSUME TypeOK, SessionsWellFounded, [Next]_vars,
         NEW r \in Resources, Requested(r)
  PROVE Requested(r)'
<1>1. Exists(r)'
  BY RowsPersist DEF Requested, Exists
<1>2. apRow'[r].state # "none"
  BY ApprovalStep, CreatedLab, CreatedExport DEF Requested
<1> QED
  BY <1>1, <1>2 DEF Requested

\* Every step leaves rows that refer to rows which exist.
LEMMA RowsStep ==
  ASSUME IndInv, [Next]_vars
  PROVE RowsWellFounded'
<1> USE DEF IndInv
<1>1. ASSUME NEW l \in Labs, LabExists(l)'
      PROVE labRow'[l].profile_name \in ProfileNames
  <2>1. CASE LabExists(l)
    BY <2>1, RowsPersist DEF RowsWellFounded
  <2>2. CASE ~LabExists(l)
    BY <1>1, <2>2, LabStep, CreatedLab DEF LabExists
  <2> QED
    BY <2>1, <2>2
<1>2. ASSUME NEW e \in Exports, ExportExists(e)'
      PROVE exRow'[e].lab \in Labs /\ LabExists(exRow[e].lab)'
  <2>1. CASE ExportExists(e)
    BY <2>1, RowsPersist DEF RowsWellFounded
  <2>2. CASE ~ExportExists(e)
    <3>1. PICK s \in Sessions : CommitExport(s) /\ sess[s].export = e
      BY <1>2, <2>2, ExportStep DEF ExportExists
    <3>2. LabExists(sess[s].lab)
      BY <3>1 DEF SessionsWellFounded, OwnsNewExport, CreatingExport, CommitExport
    <3> QED
      BY <3>1, <3>2, CreatedExport, RowsPersist DEF LabExists
  <2> QED
    BY <2>1, <2>2
<1>3. ASSUME NEW r \in Resources, apRow'[r].state # "none" PROVE Exists(r)'
  <2>1. ASSUME Exists(r) PROVE Exists(r)'
    BY <2>1, RowsPersist DEF Exists
  <2>2. ASSUME NEW s \in Sessions, CommitCreateLab(s), sess[s].lab = r
        PROVE Exists(r)'
    BY <2>2, CreatedLab, GovernanceAssumption DEF Exists, LabExists
  <2>3. ASSUME NEW s \in Sessions, CommitExport(s), sess[s].export = r
        PROVE Exists(r)'
    BY <2>3, CreatedExport, GovernanceAssumption DEF Exists, ExportExists
  <2> QED
    BY <1>3, <2>1, <2>2, <2>3, ApprovalStep DEF RowsWellFounded, Requested
<1>4. ASSUME NEW c \in released' PROVE ExportExists(c[2])'
  <2>1. TypeOK'
    BY TypeStep
  <2>2. c[2] \in Exports
    BY <2>1 DEF TypeOK
  <2>3. CASE c \in released
    BY <2>2, <2>3, RowsPersist DEF RowsWellFounded
  <2>4. CASE c \notin released
    <3>1. PICK s \in Sessions :
            sess[s].pc = "release.checked" /\ c = Copy(sess[s].export)
      BY <2>4, DiskStep
    <3>2. ExportExists(sess[s].export)
      BY <3>1 DEF SessionsWellFounded, ActsOnExistingExport, Releasing
    <3> QED
      BY <2>2, <3>1, <3>2, RowsPersist DEF Copy
  <2> QED
    BY <2>3, <2>4
<1> QED
  BY <1>1, <1>2, <1>3, <1>4 DEF RowsWellFounded

\* What a session may rely on is not taken away by any step of another one.
LEMMA SessionsStep ==
  ASSUME IndInv, [Next]_vars
  PROVE SessionsWellFounded'
<1> USE DEF IndInv
<1> SUFFICES ASSUME NEW t \in Sessions
             PROVE /\ OwnsNewLab(t)'
                   /\ DestroysExistingLab(t)'
                   /\ OwnsNewExport(t)'
                   /\ ActsOnExistingExport(t)'
                   /\ DecidesRequestedApproval(t)'
                   /\ HoldsComparableLabs(t)'
  BY DEF SessionsWellFounded
<1>0. TypeOK /\ sess \in [Sessions -> SessionState] /\ sess[t] \in SessionState
  BY DEF TypeOK
<1>1. OwnsNewLab(t)'
  <2> SUFFICES ASSUME CreatingLab(t)'
               PROVE /\ ~LabExists(sess[t].lab)'
                     /\ tree'[sess'[t].lab] = "allocated"
                     /\ \A u \in Sessions :
                          CreatingLab(u)' /\ sess'[u].lab = sess'[t].lab => u = t
                     /\ Registry[sess'[t].profile_name].approval_on_start
                          => sess'[t].approval_required
    BY DEF OwnsNewLab
  <2>1. CASE sess'[t] = sess[t]
    <3>1. CreatingLab(t) /\ sess[t].lab \in Labs
      BY <1>0, <2>1, SessionShape DEF CreatingLab
    <3>2. ~LabExists(sess[t].lab)'
      <4>1. ASSUME NEW s \in Sessions, CommitCreateLab(s), sess[s].lab = sess[t].lab
            PROVE FALSE
        <5>1. s = t
          BY <3>1, <4>1 DEF SessionsWellFounded, OwnsNewLab, CreatingLab, CommitCreateLab
        <5> QED
          BY <1>0, <2>1, <4>1, <5>1
          DEF CommitCreateLab, Finish, Idle, CreatingLab
      <4> QED
        BY <2>1, <3>1, <4>1, LabStep DEF SessionsWellFounded, OwnsNewLab, LabExists
    <3>3. tree'[sess[t].lab] = "allocated"
      BY <3>1, DiskStep DEF SessionsWellFounded, OwnsNewLab
    <3>4. ASSUME NEW u \in Sessions, CreatingLab(u)', sess'[u].lab = sess[t].lab
          PROVE u = t
      <4>1. CASE sess'[u] = sess[u]
        BY <3>1, <3>4, <4>1 DEF SessionsWellFounded, OwnsNewLab, CreatingLab
      <4>2. CASE sess'[u] # sess[u]
        <5>1. PICK l \in Labs, p \in ProfileNames, q \in RequesterType :
                BeginCreateLab(u, l, p, q)
          BY <3>4, <4>2, SessionStep DEF CreatingLab
        <5>2. sess'[u].lab = l /\ tree[l] = "absent"
          BY <1>0, <5>1 DEF BeginCreateLab, Load, FreshLab
        <5> QED
          BY <3>1, <3>4, <5>2 DEF SessionsWellFounded, OwnsNewLab
      <4> QED
        BY <4>1, <4>2
    <3>5. Registry[sess[t].profile_name].approval_on_start
            => sess[t].approval_required
      BY <3>1 DEF SessionsWellFounded, OwnsNewLab
    <3> QED
      BY <2>1, <3>2, <3>3, <3>4, <3>5
  <2>2. CASE sess'[t] # sess[t]
    <3>1. PICK l \in Labs, p \in ProfileNames, q \in RequesterType :
            BeginCreateLab(t, l, p, q)
      BY <2>2, SessionStep DEF CreatingLab
    <3>2. /\ sess'[t] = [pc |-> "lab.allocated", lab |-> l, profile_name |-> p,
                         approval_required |-> ApprovalRequired(Registry[p], q)]
          /\ \A u \in Sessions : u # t => sess'[u] = sess[u]
      BY <1>0, <3>1 DEF BeginCreateLab, Load
    <3>3. /\ labRow'[l].state = "none"
          /\ tree[l] = "absent"
          /\ tree'[l] = "allocated"
      BY <3>1 DEF BeginCreateLab, FreshLab, TypeOK, db
    <3>4. ASSUME NEW u \in Sessions, u # t, CreatingLab(u)' PROVE sess'[u].lab # l
      BY <3>2, <3>3, <3>4 DEF SessionsWellFounded, OwnsNewLab, CreatingLab
    <3>5. Registry[p].approval_on_start => ApprovalRequired(Registry[p], q)
      BY DEF ApprovalRequired, ApprovalReasons
    <3> QED
      BY <3>2, <3>3, <3>4, <3>5 DEF LabExists
  <2> QED
    BY <2>1, <2>2
<1>2. DestroysExistingLab(t)'
  <2> SUFFICES ASSUME Destroying(t)' PROVE LabExists(sess[t].lab)'
    BY DEF DestroysExistingLab
  <2>1. CASE sess'[t] = sess[t]
    BY <1>0, <2>1, SessionShape, RowsPersist
    DEF Destroying, SessionsWellFounded, DestroysExistingLab, LabExists
  <2>2. ASSUME NEW l \in Labs, BeginDestroy(t, l) PROVE LabExists(sess[t].lab)'
    BY <1>0, <2>2 DEF BeginDestroy, Load, LabExists, db
  <2>3. ASSUME RemoveTree(t) PROVE LabExists(sess[t].lab)'
    <3>1. sess'[t].lab = sess[t].lab
      BY <1>0, <2>3, SessionShape DEF RemoveTree, GoTo
    <3> QED
      BY <2>3, <3>1 DEF RemoveTree, SessionsWellFounded, DestroysExistingLab,
                        Destroying, LabExists, db
  <2> QED
    BY <2>1, <2>2, <2>3, SessionStep DEF Destroying
<1>3. OwnsNewExport(t)'
  <2> SUFFICES ASSUME CreatingExport(t)'
               PROVE /\ LabExists(sess[t].lab)'
                     /\ ~ExportExists(sess[t].export)'
                     /\ \A u \in Sessions :
                          CreatingExport(u)' /\ sess'[u].export = sess'[t].export
                          => u = t
    BY DEF OwnsNewExport
  <2>1. CASE ~\E e \in Exports, l \in Labs, path \in ExportPath :
               BeginExport(t, e, l, path)
    <3>1. /\ CreatingExport(t)
          /\ sess'[t].lab = sess[t].lab /\ sess'[t].export = sess[t].export
          /\ sess[t].lab \in Labs /\ sess[t].export \in Exports
      <4>1. CASE sess'[t] = sess[t]
        BY <1>0, <4>1, SessionShape DEF CreatingExport
      <4>2. CASE CopyToQuarantine(t)
        BY <1>0, <4>2, SessionShape DEF CopyToQuarantine, GoTo, CreatingExport
      <4> QED
        BY <2>1, <4>1, <4>2, SessionStep DEF CreatingExport
    <3>2. LabExists(sess[t].lab)'
      BY <3>1, RowsPersist DEF SessionsWellFounded, OwnsNewExport, LabExists
    <3>3. ~ExportExists(sess[t].export)'
      <4>1. ASSUME NEW s \in Sessions, CommitExport(s),
                   sess[s].export = sess[t].export
            PROVE FALSE
        <5>1. s = t
          BY <3>1, <4>1
          DEF SessionsWellFounded, OwnsNewExport, CreatingExport, CommitExport
        <5> QED
          BY <1>0, <4>1, <5>1 DEF CommitExport, Finish, Idle, CreatingExport
      <4> QED
        BY <3>1, <4>1, ExportStep
        DEF SessionsWellFounded, OwnsNewExport, ExportExists
    <3>4. ASSUME NEW u \in Sessions, CreatingExport(u)',
                 sess'[u].export = sess[t].export
          PROVE u = t
      <4>1. CASE sess'[u] = sess[u]
        BY <3>1, <3>4, <4>1 DEF SessionsWellFounded, OwnsNewExport, CreatingExport
      <4>2. CASE CopyToQuarantine(u)
        <5>1. CreatingExport(u) /\ sess'[u].export = sess[u].export
          BY <1>0, <4>2, SessionShape DEF CopyToQuarantine, GoTo, CreatingExport
        <5> QED
          BY <3>1, <3>4, <5>1 DEF SessionsWellFounded, OwnsNewExport
      <4>3. ASSUME NEW e \in Exports, NEW l \in Labs, NEW path \in ExportPath,
                   BeginExport(u, e, l, path)
            PROVE FALSE
        BY <1>0, <3>1, <3>4, <4>3
        DEF BeginExport, Load, FreshExport, CreatingExport
      <4> QED
        BY <3>4, <4>1, <4>2, <4>3, SessionStep DEF CreatingExport
    <3> QED
      BY <3>1, <3>2, <3>3, <3>4
  <2>2. ASSUME NEW e \in Exports, NEW l \in Labs, NEW path \in ExportPath,
               BeginExport(t, e, l, path)
        PROVE /\ LabExists(sess[t].lab)'
              /\ ~ExportExists(sess[t].export)'
              /\ \A u \in Sessions :
                   CreatingExport(u)' /\ sess'[u].export = sess'[t].export => u = t
    <3>1. /\ sess'[t] = [pc |-> "export.checked", lab |-> l, export |-> e]
          /\ \A u \in Sessions : u # t => sess'[u] = sess[u]
          /\ UNCHANGED <<labRow, exRow>>
      BY <1>0, <2>2 DEF BeginExport, Load, db
    <3>2. ASSUME NEW u \in Sessions, u # t, CreatingExport(u)'
          PROVE sess'[u].export # e
      BY <2>2, <3>1, <3>2 DEF BeginExport, FreshExport, CreatingExport
    <3> QED
      BY <2>2, <3>1, <3>2 DEF BeginExport, FreshExport, LabExists, ExportExists
  <2> QED
    BY <2>1, <2>2
<1>4. ActsOnExistingExport(t)'
  <2> SUFFICES ASSUME Releasing(t)' \/ sess'[t].pc = "deny.loaded"
               PROVE ExportExists(sess[t].export)'
    BY DEF ActsOnExistingExport
  <2>1. CASE sess'[t] = sess[t]
    BY <1>0, <2>1, SessionShape, RowsPersist
    DEF Releasing, SessionsWellFounded, ActsOnExistingExport, ExportExists
  <2>2. ASSUME NEW e \in Exports, BeginRelease(t, e) \/ BeginDeny(t, e)
        PROVE ExportExists(sess[t].export)'
    BY <1>0, <2>2 DEF BeginRelease, BeginDeny, Undecided, Load, ExportExists, db
  <2>3. ASSUME CopyToReleased(t) PROVE ExportExists(sess[t].export)'
    <3>1. sess'[t].export = sess[t].export
      BY <1>0, <2>3, SessionShape DEF CopyToReleased, GoTo
    <3> QED
      BY <2>3, <3>1 DEF CopyToReleased, SessionsWellFounded, ActsOnExistingExport,
                        Releasing, ExportExists, db
  <2> QED
    BY <2>1, <2>2, <2>3, SessionStep DEF Releasing
<1>5. DecidesRequestedApproval(t)'
  <2> SUFFICES ASSUME sess'[t].pc = "decision.loaded"
               PROVE Requested(sess[t].resource)'
    BY DEF DecidesRequestedApproval
  <2>1. CASE sess'[t] = sess[t]
    <3>1. sess[t].resource \in Resources /\ Requested(sess[t].resource)
      BY <1>0, <2>1, SessionShape DEF SessionsWellFounded, DecidesRequestedApproval
    <3> QED
      BY <2>1, <3>1, RequestsPersist DEF Requested, Exists, LabExists, ExportExists
  <2>2. ASSUME NEW r \in Resources, NEW d \in Decision, BeginDecision(t, r, d)
        PROVE Requested(sess[t].resource)'
    <3>1. sess'[t].resource = r /\ UNCHANGED <<labRow, exRow, apRow>>
      BY <1>0, <2>2 DEF BeginDecision, Load, db
    <3>2. Requested(r)
      BY <2>2 DEF BeginDecision, RowsWellFounded, Requested
    <3> QED
      BY <3>1, <3>2 DEF Requested, Exists, LabExists, ExportExists
  <2> QED
    BY <2>1, <2>2, SessionStep
<1>6. HoldsComparableLabs(t)'
  <2> SUFFICES ASSUME Reconciling(t)'
               PROVE /\ \A l \in Labs :
                          /\ sess'[t].labs[l] # "none" => LabExists(l)'
                          /\ sess'[t].labs[l] \notin {"none", "pending_approval"}
                               => labRow'[l].state # "pending_approval"
                          /\ l \in sess'[t].stale => sess'[t].labs[l] # "none"
                     /\ \A r \in sess'[t].stale : Requested(r)'
    BY DEF HoldsComparableLabs
  <2>1. CASE sess'[t] = sess[t]
    <3>1. /\ Reconciling(t)
          /\ \A l \in Labs :
               /\ sess[t].labs[l] # "none" => LabExists(l)
               /\ sess[t].labs[l] \notin {"none", "pending_approval"}
                    => labRow[l].state # "pending_approval"
               /\ l \in sess[t].stale => sess[t].labs[l] # "none"
          /\ \A r \in sess[t].stale : Requested(r)
      BY <2>1 DEF SessionsWellFounded, HoldsComparableLabs, Reconciling
    <3>2. ASSUME NEW l \in Labs, LabExists(l), labRow[l].state # "pending_approval"
          PROVE labRow'[l].state # "pending_approval"
      <4>1. ASSUME NEW s \in Sessions, CommitCreateLab(s) PROVE sess[s].lab # l
        BY <3>2, <4>1
        DEF SessionsWellFounded, OwnsNewLab, CreatingLab, CommitCreateLab
      <4> QED
        BY <3>2, <4>1, LabStep
    <3>3. ASSUME NEW r \in sess[t].stale PROVE Requested(r)'
      BY <1>0, <3>1, <3>3, SessionShape, RequestsPersist DEF Reconciling
    <3> QED
      BY <2>1, <3>1, <3>2, <3>3, RowsPersist
  <2>2. CASE BeginReconcile(t)
    <3>1. /\ sess'[t] = [pc |-> "reconcile.loaded",
                         labs |-> [l \in Labs |-> labRow[l].state],
                         stale |-> {r \in overdue : apRow[r].state = "requested"}]
          /\ UNCHANGED <<labRow, exRow, apRow>>
      BY <1>0, <2>2 DEF BeginReconcile, Load, db
    <3>2. ASSUME NEW r \in sess'[t].stale PROVE Requested(r)
      BY <3>1, <3>2 DEF RowsWellFounded, TypeOK, Requested
    <3> QED
      BY <3>1, <3>2 DEF Requested, Exists, LabExists, ExportExists
  <2> QED
    BY <2>1, <2>2, SessionStep DEF Reconciling
<1> QED
  BY <1>1, <1>2, <1>3, <1>4, <1>5, <1>6

\* Whether an export needs an approval is settled when it is created.
LEMMA NeedPersists ==
  ASSUME IndInv, [Next]_vars, NEW e \in Exports, ExportExists(e)
  PROVE NeedsApproval(e)' <=> NeedsApproval(e)
<1>1. exRow[e].lab \in Labs /\ LabExists(exRow[e].lab)
  BY DEF IndInv, RowsWellFounded
<1>2. ExportExists(e)' /\ exRow'[e].lab = exRow[e].lab
  BY RowsPersist DEF IndInv
<1>3. labRow'[exRow[e].lab].profile_name = labRow[exRow[e].lab].profile_name
  BY <1>1, RowsPersist DEF IndInv
<1> QED
  BY <1>2, <1>3 DEF NeedsApproval, ProfileOf, ExportExists

\* Events are never removed.
LEMMA ApprovalsPersist ==
  ASSUME [Next]_vars, NEW r, Approved(r)
  PROVE Approved(r)'
  BY Writers DEF Approved

\* The gate holds in every step: approval_required is cleared and releases go
\* through only after an approval.
LEMMA GateStep ==
  ASSUME IndInv, [Next]_vars
  PROVE GateInv' /\ ReleaseRequiresApproval'
<1> USE DEF IndInv
<1>0. ASSUME NEW s \in Sessions, Releasing(s)
      PROVE /\ sess[s].export \in Exports
            /\ ExportExists(sess[s].export)
            /\ NeedsApproval(sess[s].export) => Approved(sess[s].export)
  <2>1. sess[s].export \in Exports
    BY <1>0, SessionShape DEF TypeOK, Releasing
  <2> QED
    BY <1>0, <2>1 DEF SessionsWellFounded, ActsOnExistingExport, GateInv
<1>1. ASSUME NEW e \in Exports, NeedsApproval(e)', ~exRow'[e].approval_required
      PROVE Approved(e)' \/ exRow'[e].state = "rejected"
  <2>1. CASE exRow'[e] = exRow[e]
    <3>1. ExportExists(e)
      BY <1>1, <2>1 DEF NeedsApproval, ExportExists
    <3> QED
      BY <1>1, <2>1, <3>1, NeedPersists, ApprovalsPersist DEF GateInv
  <2>2. ASSUME NEW s \in Sessions, CommitExport(s), sess[s].export = e PROVE FALSE
    BY <1>1, <2>2, CreatedExport DEF NeedsApproval, ProfileOf
  <2>3. ASSUME NEW s \in Sessions, sess[s].pc = "release.copied",
               sess[s].export = e, ExportExists(e)
        PROVE Approved(e)'
    BY <1>0, <1>1, <2>3, NeedPersists, ApprovalsPersist DEF Releasing
  <2> QED
    BY <2>1, <2>2, <2>3, ExportStep
<1>2. ASSUME NEW t \in Sessions, Releasing(t)', NeedsApproval(sess[t].export)'
      PROVE Approved(sess[t].export)'
  <2>1. CASE Releasing(t) /\ sess'[t].export = sess[t].export
    <3>1. NeedsApproval(sess[t].export)
      BY <1>0, <1>2, <2>1, NeedPersists DEF NeedsApproval, ProfileOf
    <3> QED
      BY <1>0, <2>1, <3>1, ApprovalsPersist DEF Approved
  <2>2. ASSUME NEW e \in Exports, BeginRelease(t, e)
        PROVE Approved(sess[t].export)'
    <3>1. sess'[t].export = e /\ UNCHANGED <<labRow, exRow, audit>>
      BY <2>2 DEF BeginRelease, Load, TypeOK, db
    <3>2. NeedsApproval(e)
      BY <1>2, <3>1 DEF NeedsApproval, ProfileOf
    <3>3. Approved(e)
      BY <2>2, <3>2 DEF BeginRelease, Undecided, GateInv
    <3> QED
      BY <3>1, <3>3 DEF Approved
  <2>3. ASSUME CopyToReleased(t)
        PROVE Releasing(t) /\ sess'[t].export = sess[t].export
    BY <2>3, SessionShape DEF CopyToReleased, GoTo, TypeOK, Releasing
  <2> QED
    BY <1>2, <2>1, <2>2, <2>3, SessionStep DEF Releasing
<1>3. ASSUME NEW e \in Exports, NeedsApproval(e)',
             exRow'[e].state = "released" \/ <<exRow'[e].lab, e>> \in released'
      PROVE Approved(e)'
  <2>1. CASE ExportExists(e)
    <3>1. NeedsApproval(e) /\ exRow'[e].lab = exRow[e].lab
      BY <1>3, <2>1, NeedPersists, RowsPersist
    <3>2. ASSUME NEW s \in Sessions, Releasing(s), sess[s].export = e
          PROVE Approved(e)
      BY <1>0, <3>1, <3>2
    <3>3. CASE exRow'[e].state = "released"
      <4>1. CASE exRow'[e] = exRow[e]
        BY <3>1, <3>3, <4>1, ApprovalsPersist DEF ReleaseRequiresApproval
      <4>2. ASSUME NEW s \in Sessions, CommitExport(s), sess[s].export = e
            PROVE FALSE
        BY <2>1, <4>2
        DEF SessionsWellFounded, OwnsNewExport, CreatingExport, CommitExport
      <4> QED
        BY <3>2, <3>3, <4>1, <4>2, ExportStep, ApprovalsPersist DEF Releasing
    <3>4. CASE <<exRow'[e].lab, e>> \in released'
      <4>1. CASE Copy(e) \in released
        BY <3>1, <4>1, ApprovalsPersist DEF ReleaseRequiresApproval
      <4>2. CASE Copy(e) \notin released
        <5>1. PICK s \in Sessions :
                sess[s].pc = "release.checked" /\ Copy(e) = Copy(sess[s].export)
          BY <3>1, <3>4, <4>2, DiskStep DEF Copy
        <5>2. sess[s].export = e
          BY <5>1 DEF Copy
        <5> QED
          BY <3>2, <5>1, <5>2, ApprovalsPersist DEF Releasing
      <4> QED
        BY <4>1, <4>2
    <3> QED
      BY <1>3, <3>3, <3>4
  <2>2. CASE ~ExportExists(e)
    <3>1. PICK s \in Sessions : CommitExport(s) /\ sess[s].export = e
      BY <1>3, <2>2, ExportStep DEF NeedsApproval, ExportExists
    <3>2. exRow'[e].state = "quarantined" /\ UNCHANGED released
      BY <3>1, CreatedExport DEF CommitExport, disk
    <3> QED
      BY <1>3, <2>2, <3>2 DEF RowsWellFounded
  <2> QED
    BY <2>1, <2>2
<1> QED
  BY <1>1, <1>2, <1>3 DEF GateInv, ReleaseRequiresApproval, Copy

\* Copies are on disk before the row that speaks of them is committed, and are
\* lost only together with the tree.
LEMMA CopiesStep ==
  ASSUME IndInv, [Next]_vars
  PROVE CopiesInv' /\ RecordedCopiesExist'
<1> USE DEF IndInv
<1>1. ASSUME NEW t \in Sessions, sess'[t].pc = "export.copied",
             tree'[sess'[t].lab] = "allocated"
      PROVE <<sess'[t].lab, sess'[t].export>> \in quarantine'
  <2>1. CASE sess'[t] = sess[t]
    <3>1. /\ sess[t].lab \in Labs /\ sess[t].export \in Exports
          /\ LabExists(sess[t].lab)
      BY <1>1, <2>1, SessionShape
      DEF TypeOK, SessionsWellFounded, OwnsNewExport, CreatingExport
    <3>2. <<sess[t].lab, sess[t].export>> \in quarantine
      BY <1>1, <2>1, <3>1, DiskStep DEF CopiesInv
    <3> QED
      BY <1>1, <2>1, <3>1, <3>2, DiskStep
  <2>2. CASE CopyToQuarantine(t)
    BY <2>2, SessionShape DEF CopyToQuarantine, GoTo, TypeOK
  <2> QED
    BY <1>1, <2>1, <2>2, SessionStep
<1>2. ASSUME NEW e \in Exports, ExportExists(e), tree'[exRow'[e].lab] = "allocated"
      PROVE /\ exRow'[e].lab = exRow[e].lab
            /\ tree[exRow[e].lab] = "allocated"
            /\ Copy(e) \in quarantine'
            /\ Copy(e) \in released => Copy(e) \in released'
  <2>1. exRow'[e].lab = exRow[e].lab /\ exRow[e].lab \in Labs /\ LabExists(exRow[e].lab)
    BY <1>2, RowsPersist DEF RowsWellFounded
  <2>2. tree[exRow[e].lab] = "allocated" /\ tree'[exRow[e].lab] = "allocated"
    BY <1>2, <2>1, DiskStep
  <2>3. Copy(e) \in quarantine
    BY <1>2, <2>2 DEF RecordedCopiesExist, ExportExists
  <2> QED
    BY <2>1, <2>2, <2>3, DiskStep DEF Copy
<1>3. ASSUME NEW t \in Sessions, sess'[t].pc = "release.copied",
             tree'[exRow'[sess'[t].export].lab] = "allocated"
      PROVE <<exRow'[sess'[t].export].lab, sess'[t].export>> \in released'
  <2>1. CASE sess'[t] = sess[t]
    <3>1. sess[t].export \in Exports /\ ExportExists(sess[t].export)
      BY <1>3, <2>1, SessionShape
      DEF TypeOK, SessionsWellFounded, ActsOnExistingExport, Releasing
    <3> QED
      BY <1>2, <1>3, <2>1, <3>1 DEF CopiesInv, Copy
  <2>2. CASE CopyToReleased(t)
    <3>1. sess'[t].export = sess[t].export /\ UNCHANGED exRow
      BY <2>2, SessionShape DEF CopyToReleased, GoTo, TypeOK, db
    <3> QED
      BY <2>2, <3>1 DEF CopyToReleased, Copy
  <2> QED
    BY <1>3, <2>1, <2>2, SessionStep
<1>4. ASSUME NEW e \in Exports, ExportExists(e)', tree'[exRow'[e].lab] = "allocated"
      PROVE /\ <<exRow'[e].lab, e>> \in quarantine'
            /\ exRow'[e].state = "released" => <<exRow'[e].lab, e>> \in released'
  <2>1. CASE ExportExists(e)
    <3>1. ASSUME exRow'[e].state = "released" PROVE Copy(e) \in released
      <4>1. CASE exRow'[e] = exRow[e]
        BY <1>2, <1>4, <2>1, <3>1, <4>1 DEF RecordedCopiesExist, ExportExists
      <4>2. ASSUME NEW s \in Sessions, CommitExport(s), sess[s].export = e
            PROVE FALSE
        BY <2>1, <4>2
        DEF SessionsWellFounded, OwnsNewExport, CreatingExport, CommitExport
      <4>3. ASSUME NEW s \in Sessions, sess[s].pc = "release.copied",
                   sess[s].export = e
            PROVE Copy(e) \in released
        BY <1>2, <1>4, <2>1, <4>3 DEF CopiesInv
      <4> QED
        BY <3>1, <4>1, <4>2, <4>3, ExportStep
    <3> QED
      BY <1>2, <1>4, <2>1, <3>1 DEF Copy
  <2>2. CASE ~ExportExists(e)
    <3>1. PICK s \in Sessions : CommitExport(s) /\ sess[s].export = e
      BY <1>4, <2>2, ExportStep DEF ExportExists
    <3>2. /\ exRow'[e].lab = sess[s].lab
          /\ exRow'[e].state = "quarantined"
          /\ UNCHANGED <<tree, quarantine>>
      BY <3>1, CreatedExport DEF CommitExport, disk
    <3> QED
      BY <1>4, <3>1, <3>2 DEF CommitExport, CopiesInv
  <2> QED
    BY <2>1, <2>2
<1> QED
  BY <1>1, <1>3, <1>4 DEF CopiesInv, RecordedCopiesExist, ExportExists, Copy

\* A lab is approved by its creation, when nothing gates it, or by a decision.
LEMMA GatedLabsStep ==
  ASSUME IndInv, [Next]_vars
  PROVE GatedLabsNeedApproval'
<1> USE DEF IndInv
<1> SUFFICES ASSUME NEW l \in Labs, labRow'[l].state = "approved",
                    \/ apRow'[l].state # "none"
                    \/ Registry[labRow'[l].profile_name].approval_on_start
             PROVE Approved(l)'
  BY DEF GatedLabsNeedApproval, ProfileOf
<1>0. l \in Resources /\ l \notin Exports
  BY GovernanceAssumption DEF Resources
<1>1. CASE labRow'[l] = labRow[l]
  <2>1. ASSUME NEW s \in Sessions, CommitCreateLab(s) PROVE sess[s].lab # l
    BY <1>1, <2>1
    DEF SessionsWellFounded, OwnsNewLab, CreatingLab, CommitCreateLab, LabExists
  <2>2. ASSUME NEW s \in Sessions, CommitExport(s) PROVE sess[s].export # l
    BY <1>0, <2>2, CreatedExport
  <2>3. apRow'[l].state # "none" => apRow[l].state # "none"
    BY <1>0, <2>1, <2>2, ApprovalStep DEF Requested
  <2> QED
    BY <1>1, <2>3, ApprovalsPersist DEF GatedLabsNeedApproval, ProfileOf
<1>2. ASSUME NEW s \in Sessions, CommitCreateLab(s), sess[s].lab = l PROVE FALSE
  <2>1. /\ ~LabExists(l)
        /\ Registry[sess[s].profile_name].approval_on_start
             => sess[s].approval_required
    BY <1>2 DEF SessionsWellFounded, OwnsNewLab, CreatingLab, CommitCreateLab
  <2>2. apRow[l].state = "none"
    BY <1>0, <2>1 DEF RowsWellFounded, Exists
  <2> QED
    BY <1>2, <2>1, <2>2, CreatedLab
<1> QED
  BY <1>1, <1>2, LabStep

\* An approval is closed only in a step that unblocks what it guards.
LEMMA BlockedStep ==
  ASSUME IndInv, [Next]_vars
  PROVE BlockedResourcesHaveOpenApproval'
<1> USE DEF IndInv
<1> SUFFICES ASSUME NEW r \in Resources, Blocked(r)'
             PROVE apRow'[r].state = "requested"
  BY DEF BlockedResourcesHaveOpenApproval
<1>1. ASSUME NEW s \in Sessions, CommitCreateLab(s), sess[s].lab = r
      PROVE apRow'[r].state = "requested"
  BY <1>1, CreatedLab, GovernanceAssumption DEF Blocked
<1>2. ASSUME NEW s \in Sessions, CommitExport(s), sess[s].export = r
      PROVE apRow'[r].state = "requested"
  BY <1>2, CreatedExport, GovernanceAssumption DEF Blocked
<1>3. ASSUME ~\E s \in Sessions : CommitCreateLab(s) /\ sess[s].lab = r,
             ~\E s \in Sessions : CommitExport(s) /\ sess[s].export = r
      PROVE apRow'[r].state = "requested"
  <2>1. Blocked(r)
    BY <1>3, LabStep, ExportStep DEF Blocked
  <2> QED
    BY <1>3, <2>1, ApprovalStep DEF BlockedResourcesHaveOpenApproval
<1> QED
  BY <1>1, <1>2, <1>3

\* The invariant is inductive.
LEMMA IndInvStep == IndInv /\ [Next]_vars => IndInv'
<1> SUFFICES ASSUME IndInv, [Next]_vars PROVE IndInv'
  OBVIOUS
<1>1. TypeOK'
  BY TypeStep DEF IndInv
<1> QED
  BY <1>1, RowsStep, SessionsStep, GateStep, CopiesStep, GatedLabsStep, BlockedStep
  DEF IndInv

-----------------------------------------------------------------------------
(* The audit trail *)

\* The evidence for a lab or an export in its state, without the cases.
LEMMA EvidenceOfLab ==
  ASSUME NEW l \in Labs
  PROVE /\ Outcome(l)' = labRow'[l].state
        /\ "lab.destroyed" \in Evidence(l)' <=> labRow'[l].state = "destroyed"
        /\ labRow'[l].state = "failed" =>
             {"approval.denied", "approval.expired", "lab.reconciliation_failed"}
               \subseteq Evidence(l)'
        /\ labRow'[l].state = "approved" =>
             {"approval.approved", "lab.requested"} \subseteq Evidence(l)'
        /\ labRow'[l].state = "pending_approval" => "lab.requested" \in Evidence(l)'
        /\ labRow'[l].state = labRow[l].state => Evidence(l)' = Evidence(l)
<1>1. Outcome(l) = labRow[l].state /\ Outcome(l)' = labRow'[l].state
  BY GovernanceAssumption DEF Outcome
<1> QED
  BY <1>1 DEF Evidence

LEMMA EvidenceOfExport ==
  ASSUME NEW e \in Exports
  PROVE /\ Outcome(e)' = exRow'[e].state
        /\ exRow'[e].state = "released" => "export.released" \in Evidence(e)'
        /\ exRow'[e].state = "rejected" =>
             {"export.denied", "approval.denied", "approval.expired"}
               \subseteq Evidence(e)'
        /\ exRow'[e].state = "approved" => "approval.approved" \in Evidence(e)'
        /\ exRow'[e].state = "quarantined" => "export.staged" \in Evidence(e)'
        /\ exRow'[e].state = exRow[e].state => Evidence(e)' = Evidence(e)
<1>1. Outcome(e) = exRow[e].state /\ Outcome(e)' = exRow'[e].state
  BY GovernanceAssumption DEF Outcome
<1> QED
  BY <1>1 DEF Evidence

\* Whoever writes the state of a lab records why.
LEMMA LabAudited ==
  ASSUME TypeOK, [Next]_vars, NEW l \in Labs, labRow'[l].state # labRow[l].state
  PROVE \E type \in Evidence(l)' : <<type, l>> \in audit'
<1> USE DEF TypeOK
<1>1. ASSUME NEW s \in Sessions, CommitCreateLab(s)
      PROVE <<"lab.requested", l>> \in audit' /\ "lab.requested" \in Evidence(l)'
  <2>1. sess[s].lab = l
    BY <1>1 DEF CommitCreateLab
  <2> QED
    BY <1>1, <2>1, CreatedLab, EvidenceOfLab DEF CommitCreateLab, Record
<1>2. ASSUME NEW s \in Sessions, CommitDestroy(s)
      PROVE <<"lab.destroyed", l>> \in audit' /\ "lab.destroyed" \in Evidence(l)'
  <2>1. sess[s].lab = l
    BY <1>2 DEF CommitDestroy
  <2>2. labRow'[l].state = "destroyed"
    BY <1>2, <2>1 DEF CommitDestroy, LabRow
  <2> QED
    BY <1>2, <2>1, <2>2, EvidenceOfLab DEF CommitDestroy, Record
<1>3. ASSUME NEW s \in Sessions, CommitDecision(s)
      PROVE \E type \in Evidence(l)' : <<type, l>> \in audit'
  <2>1. sess[s].resource = l
    BY <1>3 DEF CommitDecision
  <2>2. CASE sess[s].decision = "approved"
    <3>1. labRow'[l].state = "approved" /\ <<"approval.approved", l>> \in audit'
      BY <1>3, <2>1, <2>2 DEF CommitDecision, Record, LabRow
    <3> QED
      BY <3>1, EvidenceOfLab
  <2>3. CASE sess[s].decision # "approved"
    <3>1. labRow'[l].state = "failed" /\ <<"approval.denied", l>> \in audit'
      BY <1>3, <2>1, <2>3 DEF CommitDecision, Record, LabRow
    <3> QED
      BY <3>1, EvidenceOfLab
  <2> QED
    BY <2>2, <2>3
<1>4. ASSUME NEW s \in Sessions, CommitReconcile(s)
      PROVE \E type \in Evidence(l)' : <<type, l>> \in audit'
  <2>1. /\ ReconciledState(sess[s].labs, sess[s].stale, l) # sess[s].labs[l]
        /\ labRow'[l].state = ReconciledState(sess[s].labs, sess[s].stale, l)
    BY <1>4 DEF CommitReconcile, Net, LabRow
  <2>2. /\ labRow'[l].state = "failed"
        /\ l \in MissingRoot(sess[s].labs) \/ l \in sess[s].stale
    BY <2>1 DEF ReconciledState
  <2>3. <<"lab.reconciliation_failed", l>> \in audit' \/ <<"approval.expired", l>> \in audit'
    BY <1>4, <2>2 DEF CommitReconcile, Record
  <2> QED
    BY <2>2, <2>3, EvidenceOfLab
<1> QED
  BY <1>1, <1>2, <1>3, <1>4, Writers

\* Likewise for an export.
LEMMA ExportAudited ==
  ASSUME TypeOK, [Next]_vars, NEW e \in Exports, exRow'[e].state # exRow[e].state
  PROVE \E type \in Evidence(e)' : <<type, e>> \in audit'
<1> USE DEF TypeOK
<1>1. ASSUME NEW s \in Sessions, CommitExport(s)
      PROVE <<"export.staged", e>> \in audit' /\ "export.staged" \in Evidence(e)'
  <2>1. sess[s].export = e
    BY <1>1 DEF CommitExport
  <2> QED
    BY <1>1, <2>1, CreatedExport, EvidenceOfExport DEF CommitExport, Record
<1>2. ASSUME NEW s \in Sessions, CommitRelease(s)
      PROVE <<"export.released", e>> \in audit' /\ "export.released" \in Evidence(e)'
  <2>1. sess[s].export = e
    BY <1>2 DEF CommitRelease
  <2>2. exRow'[e].state = "released"
    BY <1>2, <2>1 DEF CommitRelease, ExportRow
  <2> QED
    BY <1>2, <2>1, <2>2, EvidenceOfExport DEF CommitRelease, Record
<1>3. ASSUME NEW s \in Sessions, CommitDeny(s)
      PROVE <<"export.denied", e>> \in audit' /\ "export.denied" \in Evidence(e)'
  <2>1. sess[s].export = e
    BY <1>3 DEF CommitDeny
  <2>2. exRow'[e].state = "rejected"
    BY <1>3, <2>1 DEF CommitDeny, ExportRow
  <2> QED
    BY <1>3, <2>1, <2>2, EvidenceOfExport DEF CommitDeny, Record
<1>4. ASSUME NEW s \in Sessions, CommitDecision(s)
      PROVE \E type \in Evidence(e)' : <<type, e>> \in audit'
  <2>1. sess[s].resource = e /\ sess[s].decision \in Decision
    BY <1>4, SessionShape DEF CommitDecision
  <2>2. exRow'[e].state = sess[s].decision
    BY <1>4, <2>1 DEF CommitDecision, ExportRow
  <2>3. CASE sess[s].decision = "approved"
    <3>1. <<"approval.approved", e>> \in audit'
      BY <1>4, <2>1, <2>3 DEF CommitDecision, Record
    <3> QED
      BY <2>2, <2>3, <3>1, EvidenceOfExport
  <2>4. CASE sess[s].decision = "rejected"
    <3>1. <<"approval.denied", e>> \in audit'
      BY <1>4, <2>1, <2>4 DEF CommitDecision, Record
    <3> QED
      BY <2>2, <2>4, <3>1, EvidenceOfExport
  <2> QED
    BY <2>1, <2>3, <2>4 DEF Decision
<1>5. ASSUME NEW s \in Sessions, CommitReconcile(s)
      PROVE <<"approval.expired", e>> \in audit' /\ "approval.expired" \in Evidence(e)'
  <2>1. e \in sess[s].stale
    BY <1>5 DEF CommitReconcile
  <2>2. exRow'[e].state = "rejected"
    BY <1>5, <2>1 DEF CommitReconcile, ExpiredExport, ExportRow
  <2> QED
    BY <1>5, <2>1, <2>2, EvidenceOfExport DEF CommitReconcile, Record
<1> QED
  BY <1>1, <1>2, <1>3, <1>4, <1>5, Writers

\* A state that is not written keeps its evidence, since no event is removed.
LEMMA AuditStep == TypeOK /\ EveryOutcomeIsAudited /\ [Next]_vars
                     => EveryOutcomeIsAudited'
<1> SUFFICES ASSUME TypeOK, EveryOutcomeIsAudited, [Next]_vars,
                    NEW r \in Resources, Outcome(r)' # "none"
             PROVE \E type \in Evidence(r)' : <<type, r>> \in audit'
  BY DEF EveryOutcomeIsAudited
<1>1. CASE r \in Labs
  <2>1. Outcome(r) = labRow[r].state
    BY <1>1, GovernanceAssumption DEF Outcome
  <2>2. CASE labRow'[r].state = labRow[r].state
    BY <1>1, <2>1, <2>2, EvidenceOfLab, Writers DEF EveryOutcomeIsAudited
  <2> QED
    BY <1>1, <2>2, LabAudited
<1>2. CASE r \in Exports
  <2>1. Outcome(r) = exRow[r].state
    BY <1>2, GovernanceAssumption DEF Outcome
  <2>2. CASE exRow'[r].state = exRow[r].state
    BY <1>2, <2>1, <2>2, EvidenceOfExport, Writers DEF EveryOutcomeIsAudited
  <2> QED
    BY <1>2, <2>2, ExportAudited
<1> QED
  BY <1>1, <1>2 DEF Resources

-----------------------------------------------------------------------------
(* One request at a time *)

\* While a request is under way nothing but its own steps changes the rows and
\* the disk.
LEMMA Undisturbed ==
  ASSUME Serial, TypeOK, [Next]_vars, NEW t \in Sessions,
         sess'[t] = sess[t], ~IsIdle(t)
  PROVE UNCHANGED <<labRow, exRow, apRow, tree, released>>
<1>1. CASE UNCHANGED vars
  BY <1>1 DEF vars
<1>2. ASSUME NEW r \in Resources, ExpiryPasses(r)
      PROVE UNCHANGED <<labRow, exRow, apRow, tree, released>>
  BY <1>2 DEF ExpiryPasses, db, disk
<1>3. ASSUME NEW s \in Sessions, Begin(s) PROVE FALSE
  <2>1. IsIdle(s)
    BY <1>3 DEF Begin, BeginCreateLab, BeginDestroy, BeginExport, BeginRelease,
                ReleaseBlocked, BeginDeny, BeginDecision, BeginReconcile, Load
  <2> QED
    BY <2>1 DEF Serial
<1>4. ASSUME NEW s \in Sessions, Continue(s) \/ Abort(s) PROVE FALSE
  <2>1. s = t
    BY DEF Serial
  <2>2. ~Finish(s)
    BY <2>1 DEF Finish, IsIdle, TypeOK
  <2>3. RemoveTree(s) \/ CopyToQuarantine(s) \/ CopyToReleased(s)
    BY <1>4, <2>2
    DEF Continue, CommitCreateLab, RemoveTreeFails, CommitDestroy,
        CopyToQuarantineFails, CommitExport, CopyToReleasedFails, CommitRelease,
        CommitDeny, CommitDecision, CommitReconcile, Abort
  <2>4. sess[s] \in SessionState /\ sess \in [Sessions -> SessionState]
    BY DEF TypeOK
  <2>5. CASE RemoveTree(s)
    BY <2>1, <2>4, <2>5, SessionShape DEF RemoveTree, GoTo
  <2>6. CASE CopyToQuarantine(s)
    BY <2>1, <2>4, <2>6, SessionShape DEF CopyToQuarantine, GoTo
  <2>7. CASE CopyToReleased(s)
    BY <2>1, <2>4, <2>7, SessionShape DEF CopyToReleased, GoTo
  <2> QED
    BY <2>3, <2>5, <2>6, <2>7
<1> QED
  BY <1>1, <1>2, <1>3, <1>4 DEF Next

\* What a request has loaded stays current until it commits.
LEMMA LoadedStep ==
  ASSUME Serial, IndInv, SerialInv, [Next]_vars, NEW t \in Sessions
  PROVE LoadedIsCurrent(t)'
<1>0. TypeOK /\ LoadedIsCurrent(t) /\ sess[t] \in SessionState
  BY DEF IndInv, SerialInv, TypeOK
<1>1. CASE sess'[t] = sess[t]
  <2>1. CASE IsIdle(t)
    BY <1>1, <2>1 DEF IsIdle, Idle, LoadedIsCurrent, Reconciling, Releasing
  <2>2. CASE ~IsIdle(t)
    <3>1. UNCHANGED <<labRow, exRow, apRow, tree, released>>
      BY <1>0, <1>1, <2>2, Undisturbed
    <3> QED
      BY <1>0, <1>1, <3>1 DEF LoadedIsCurrent, Reconciling, Releasing, Undecided
  <2> QED
    BY <2>1, <2>2
<1>2. CASE sess'[t] # sess[t]
  <2>1. ASSUME sess'[t].pc = "decision.loaded"
        PROVE apRow'[sess'[t].resource].state = "requested"
    <3>1. PICK r \in Resources, d \in Decision : BeginDecision(t, r, d)
      BY <1>0, <1>2, <2>1, SessionStep
    <3> QED
      BY <1>0, <3>1 DEF BeginDecision, Load, TypeOK, db
  <2>2. ASSUME sess'[t].pc = "reconcile.loaded", NEW r \in sess'[t].stale
        PROVE apRow'[r].state = "requested"
    <3>1. BeginReconcile(t)
      BY <1>0, <1>2, <2>2, SessionStep
    <3>2. /\ sess'[t].stale = {q \in overdue : apRow[q].state = "requested"}
          /\ UNCHANGED apRow
      BY <1>0, <3>1 DEF BeginReconcile, Load, TypeOK, db
    <3> QED
      BY <2>2, <3>2
  <2>3. ASSUME sess'[t].pc \in {"release.checked", "release.copied"}
        PROVE /\ exRow'[sess'[t].export] = sess'[t].old
              /\ Undecided(sess[t].export)'
              /\ ~sess'[t].old.approval_required
    <3>1. ASSUME NEW e \in Exports, BeginRelease(t, e)
          PROVE /\ sess'[t].export = e /\ sess'[t].old = exRow[e]
                /\ Undecided(e) /\ ~exRow[e].approval_required
                /\ UNCHANGED exRow
      BY <1>0, <3>1 DEF BeginRelease, Load, TypeOK, db
    <3>2. ASSUME CopyToReleased(t)
          PROVE /\ sess'[t].export = sess[t].export /\ sess'[t].old = sess[t].old
                /\ Releasing(t) /\ UNCHANGED exRow
      BY <1>0, <3>2, SessionShape DEF CopyToReleased, GoTo, TypeOK, db, Releasing
    <3>3. CASE \E e \in Exports : BeginRelease(t, e)
      BY <3>1, <3>3 DEF Undecided
    <3>4. CASE CopyToReleased(t)
      BY <1>0, <3>2, <3>4 DEF Undecided, LoadedIsCurrent
    <3> QED
      BY <1>0, <1>2, <2>3, <3>3, <3>4, SessionStep
  <2>4. ASSUME sess'[t].pc = "deny.loaded"
        PROVE exRow'[sess'[t].export] = sess'[t].old /\ Undecided(sess[t].export)'
    <3>1. PICK e \in Exports : BeginDeny(t, e)
      BY <1>0, <1>2, <2>4, SessionStep
    <3>2. /\ sess'[t].export = e /\ sess'[t].old = exRow[e]
          /\ Undecided(e) /\ UNCHANGED exRow
      BY <1>0, <3>1 DEF BeginDeny, Load, TypeOK, db
    <3> QED
      BY <3>2 DEF Undecided
  <2>5. ASSUME sess'[t].pc = "destroy.removed"
        PROVE tree'[sess'[t].lab] = "absent"
    <3>1. RemoveTree(t)
      BY <1>0, <1>2, <2>5, SessionStep
    <3>2. /\ sess[t].lab \in Labs /\ sess'[t].lab = sess[t].lab
          /\ tree' = [tree EXCEPT ![sess[t].lab] = "absent"]
      BY <1>0, <3>1, SessionShape DEF RemoveTree, GoTo, TypeOK
    <3> QED
      BY <1>0, <3>2 DEF TypeOK
  <2> QED
    BY <2>1, <2>2, <2>3, <2>4, <2>5 DEF LoadedIsCurrent, Reconciling, Releasing
<1> QED
  BY <1>1, <1>2

\* The rows that the commits of a serial request leave.
LEMMA SerialRelease ==
  ASSUME TypeOK, SerialInv, NEW s \in Sessions, CommitRelease(s)
  PROVE LET e == sess[s].export IN
        /\ e \in Exports
        /\ \A f \in Exports : f # e => exRow'[f] = exRow[f]
        /\ exRow'[e].state = "released"
        /\ exRow'[e].released_path = TRUE
        /\ exRow'[e].denial_reason = FALSE
        /\ apRow[e].state # "requested"
        /\ UNCHANGED apRow
<1> DEFINE e == sess[s].export
<1>1. e \in Exports /\ exRow[e] \in ExportRow /\ exRow \in [Exports -> ExportRow]
  BY SessionShape DEF TypeOK, CommitRelease
<1>2. exRow[e] = sess[s].old /\ Undecided(e) /\ ~sess[s].old.approval_required
  BY DEF SerialInv, LoadedIsCurrent, Releasing, CommitRelease
<1>3. exRow[e].denial_reason = FALSE /\ exRow[e].released_path = FALSE
  BY <1>1, <1>2 DEF SerialInv, RecordsAgree, Undecided, ExportRow
<1>4. exRow' = [exRow EXCEPT ![e] = [exRow[e] EXCEPT
         !.state = "released", !.released_path = TRUE, !.denial_reason = FALSE]]
  BY <1>1, <1>2, <1>3 DEF CommitRelease, Net
<1>5. apRow[e].state # "requested"
  BY <1>1, <1>2 DEF SerialInv
<1>6. UNCHANGED apRow
  BY DEF CommitRelease
<1>7. /\ exRow'[e].state = "released"
      /\ exRow'[e].released_path = TRUE
      /\ exRow'[e].denial_reason = FALSE
  BY <1>1, <1>4 DEF ExportRow
<1>8. \A f \in Exports : f # e => exRow'[f] = exRow[f]
  BY <1>1, <1>4
<1> QED
  BY <1>1, <1>5, <1>6, <1>7, <1>8

LEMMA SerialDeny ==
  ASSUME TypeOK, SerialInv, NEW s \in Sessions, CommitDeny(s)
  PROVE LET e == sess[s].export IN
        /\ e \in Exports
        /\ \A f \in Exports : f # e => exRow'[f] = exRow[f]
        /\ exRow'[e].state = "rejected"
        /\ exRow'[e].approval_required = exRow[e].approval_required
        /\ exRow'[e].released_path = FALSE
        /\ exRow'[e].denial_reason = TRUE
        /\ UNCHANGED apRow
<1> DEFINE e == sess[s].export
<1>1. e \in Exports /\ exRow[e] \in ExportRow /\ exRow \in [Exports -> ExportRow]
  BY SessionShape DEF TypeOK, CommitDeny
<1>2. exRow[e] = sess[s].old /\ Undecided(e)
  BY DEF SerialInv, LoadedIsCurrent, CommitDeny
<1>3. exRow[e].denial_reason = FALSE /\ exRow[e].released_path = FALSE
  BY <1>1, <1>2 DEF SerialInv, RecordsAgree, Undecided, ExportRow
<1>4. exRow' = [exRow EXCEPT ![e] = [exRow[e] EXCEPT
         !.state = "rejected", !.released_path = FALSE, !.denial_reason = TRUE]]
  BY <1>1, <1>2, <1>3 DEF CommitDeny, Net
<1>5. UNCHANGED apRow
  BY DEF CommitDeny
<1>6. /\ exRow'[e].state = "rejected"
      /\ exRow'[e].approval_required = exRow[e].approval_required
      /\ exRow'[e].released_path = FALSE
      /\ exRow'[e].denial_reason = TRUE
  BY <1>1, <1>4 DEF ExportRow
<1>7. \A f \in Exports : f # e => exRow'[f] = exRow[f]
  BY <1>1, <1>4
<1> QED
  BY <1>1, <1>5, <1>6, <1>7

LEMMA SerialDecision ==
  ASSUME TypeOK, SerialInv, NEW s \in Sessions, CommitDecision(s)
  PROVE LET r == sess[s].resource
            granted == sess[s].decision = "approved" IN
        /\ r \in Resources /\ sess[s].decision \in Decision
        /\ \A q \in Resources : q # r => apRow'[q] = apRow[q]
        /\ apRow[r].state = "requested"
        /\ apRow'[r].state = sess[s].decision
        /\ apRow'[r].approved = granted
        /\ \A e \in Exports :
             \/ exRow'[e] = exRow[e] /\ (e = r => r \in Labs)
             \/ /\ e = r
                /\ exRow'[e].state = sess[s].decision
                /\ exRow'[e].released_path = exRow[e].released_path
                /\ exRow'[e].denial_reason = ~granted
<1> DEFINE r == sess[s].resource
           granted == sess[s].decision = "approved"
<1>1. r \in Resources /\ sess[s].decision \in Decision
  BY SessionShape DEF TypeOK, CommitDecision
<1>2. apRow[r].state = "requested"
  BY DEF SerialInv, LoadedIsCurrent, CommitDecision
<1>3. apRow[r].approved = FALSE
  BY <1>1, <1>2 DEF SerialInv, RecordsAgree, TypeOK, ApprovalRow
<1>4. apRow' = [apRow EXCEPT ![r] = [apRow[r] EXCEPT
                  !.state = sess[s].decision, !.approved = granted]]
  BY <1>1, <1>3 DEF CommitDecision, Net, TypeOK
<1>5. \A e \in Exports :
        \/ exRow'[e] = exRow[e] /\ (e = r => r \in Labs)
        \/ /\ e = r
           /\ exRow'[e].state = sess[s].decision
           /\ exRow'[e].released_path = exRow[e].released_path
           /\ exRow'[e].denial_reason = ~granted
  BY <1>1 DEF CommitDecision, TypeOK, ExportRow
<1> QED
  BY <1>1, <1>2, <1>4, <1>5 DEF TypeOK, ApprovalRow

LEMMA SerialReconcile ==
  ASSUME TypeOK, SerialInv, NEW s \in Sessions, CommitReconcile(s)
  PROVE /\ \A r \in Resources :
             \/ r \notin sess[s].stale /\ apRow'[r] = apRow[r]
             \/ /\ r \in sess[s].stale
                /\ apRow[r].state = "requested"
                /\ apRow'[r].state = "expired"
                /\ apRow'[r].approved = apRow[r].approved
        /\ \A e \in Exports :
             \/ e \notin sess[s].stale /\ exRow'[e] = exRow[e]
             \/ /\ e \in sess[s].stale
                /\ exRow'[e].state = "rejected"
                /\ exRow'[e].released_path = exRow[e].released_path
                /\ exRow'[e].denial_reason = TRUE
<1>1. \A r \in sess[s].stale : apRow[r].state = "requested"
  BY DEF SerialInv, LoadedIsCurrent, Reconciling, CommitReconcile
<1> QED
  BY <1>1 DEF CommitReconcile, ExpiredExport, TypeOK, ApprovalRow, ExportRow

\* The rows of approvals and exports are written by six commits.
LEMMA RowWriters ==
  ASSUME [Next]_vars
  PROVE \/ UNCHANGED <<exRow, apRow>>
        \/ \E s \in Sessions : CommitCreateLab(s) /\ UNCHANGED exRow
        \/ \E s \in Sessions : \/ CommitExport(s) \/ CommitRelease(s) \/ CommitDeny(s)
                               \/ CommitDecision(s) \/ CommitReconcile(s)
  BY Writers DEF CommitCreateLab

\* Creating a lab opens no approval but its own.
LEMMA CreatedLabApproval ==
  ASSUME TypeOK, NEW s \in Sessions, CommitCreateLab(s), NEW r \in Resources
  PROVE \/ apRow'[r] = apRow[r]
        \/ r \in Labs /\ apRow'[r] = [state |-> "requested", approved |-> FALSE]
<1>1. sess[s].lab \in Labs
  BY SessionShape DEF TypeOK, CommitCreateLab
<1> QED
  BY <1>1 DEF CommitCreateLab, RequestApproval, TypeOK

LEMMA CreatedExportApproval ==
  ASSUME TypeOK, NEW s \in Sessions, CommitExport(s), NEW r \in Resources
  PROVE \/ apRow'[r] = apRow[r]
        \/ /\ r = sess[s].export
           /\ apRow'[r] = [state |-> "requested", approved |-> FALSE]
<1>1. RequestApproval(sess[s].export) \/ UNCHANGED apRow
  BY DEF CommitExport
<1> QED
  BY <1>1 DEF RequestApproval, TypeOK

\* An export with an open approval is blocked and not released.
LEMMA OpenStep ==
  ASSUME IndInv, SerialInv, [Next]_vars,
         NEW e \in Exports, apRow'[e].state = "requested"
  PROVE exRow'[e].approval_required /\ exRow'[e].state # "released"
<1>0. /\ TypeOK /\ RowsWellFounded /\ e \in Resources /\ e \notin Labs
      /\ apRow[e].state = "requested" =>
           exRow[e].approval_required /\ exRow[e].state # "released"
  BY GovernanceAssumption DEF IndInv, SerialInv, Resources
<1>1. CASE UNCHANGED <<exRow, apRow>>
  BY <1>0, <1>1
<1>2. ASSUME NEW s \in Sessions, CommitCreateLab(s), UNCHANGED exRow
      PROVE exRow'[e].approval_required /\ exRow'[e].state # "released"
  BY <1>0, <1>2, CreatedLabApproval
<1>3. ASSUME NEW s \in Sessions, CommitExport(s)
      PROVE exRow'[e].approval_required /\ exRow'[e].state # "released"
  <2>1. CASE sess[s].export = e
    <3>1. ~ExportExists(e)
      BY <1>3, <2>1
      DEF IndInv, SessionsWellFounded, OwnsNewExport, CreatingExport, CommitExport
    <3>2. apRow[e].state = "none"
      BY <1>0, <3>1 DEF RowsWellFounded, Exists
    <3> QED
      BY <1>0, <1>3, <2>1, <3>2, CreatedExport
  <2>2. CASE sess[s].export # e
    <3>1. exRow'[e] = exRow[e] /\ apRow'[e] = apRow[e]
      BY <1>0, <1>3, <2>2, CreatedExportApproval DEF CommitExport, TypeOK
    <3> QED
      BY <1>0, <3>1
  <2> QED
    BY <2>1, <2>2
<1>4. ASSUME NEW s \in Sessions, CommitRelease(s)
      PROVE exRow'[e].approval_required /\ exRow'[e].state # "released"
  BY <1>0, <1>4, SerialRelease
<1>5. ASSUME NEW s \in Sessions, CommitDeny(s)
      PROVE exRow'[e].approval_required /\ exRow'[e].state # "released"
  BY <1>0, <1>5, SerialDeny
<1>6. ASSUME NEW s \in Sessions, CommitDecision(s)
      PROVE exRow'[e].approval_required /\ exRow'[e].state # "released"
  BY <1>0, <1>6, SerialDecision DEF Decision
<1>7. ASSUME NEW s \in Sessions, CommitReconcile(s)
      PROVE exRow'[e].approval_required /\ exRow'[e].state # "released"
  BY <1>0, <1>7, SerialReconcile
<1> QED
  BY <1>1, <1>2, <1>3, <1>4, <1>5, <1>6, <1>7, RowWriters

\* The columns of a row are written together.
LEMMA RecordsStep ==
  ASSUME IndInv, SerialInv, [Next]_vars
  PROVE RecordsAgree'
<1>0. TypeOK /\ RecordsAgree
  BY DEF IndInv, SerialInv
<1>1. ASSUME NEW r \in Resources
      PROVE apRow'[r].approved <=> apRow'[r].state = "approved"
  <2>0. apRow[r].approved <=> apRow[r].state = "approved"
    BY <1>0 DEF RecordsAgree
  <2>1. ASSUME NEW s \in Sessions, CommitCreateLab(s)
        PROVE apRow'[r].approved <=> apRow'[r].state = "approved"
    BY <1>0, <2>0, <2>1, CreatedLabApproval
  <2>2. ASSUME NEW s \in Sessions, CommitExport(s)
        PROVE apRow'[r].approved <=> apRow'[r].state = "approved"
    BY <1>0, <2>0, <2>2, CreatedExportApproval
  <2>3. ASSUME NEW s \in Sessions, CommitDecision(s)
        PROVE apRow'[r].approved <=> apRow'[r].state = "approved"
    BY <1>0, <2>0, <2>3, SerialDecision
  <2>4. ASSUME NEW s \in Sessions, CommitReconcile(s)
        PROVE apRow'[r].approved <=> apRow'[r].state = "approved"
    BY <1>0, <2>0, <2>4, SerialReconcile
  <2> QED
    BY <2>0, <2>1, <2>2, <2>3, <2>4, Writers
<1>2. ASSUME NEW e \in Exports
      PROVE /\ exRow'[e].denial_reason <=> exRow'[e].state = "rejected"
            /\ exRow'[e].released_path <=> exRow'[e].state = "released"
  <2>0. /\ exRow[e].denial_reason <=> exRow[e].state = "rejected"
        /\ exRow[e].released_path <=> exRow[e].state = "released"
        /\ apRow[e].state = "requested" => exRow[e].state # "released"
        /\ e \in Resources /\ e \notin Labs
        /\ exRow[e].denial_reason \in BOOLEAN
        /\ exRow[e].released_path \in BOOLEAN
    BY <1>0, GovernanceAssumption DEF RecordsAgree, SerialInv, Resources, TypeOK,
        ExportRow
  <2>1. ASSUME NEW s \in Sessions, CommitExport(s)
        PROVE /\ exRow'[e].denial_reason <=> exRow'[e].state = "rejected"
              /\ exRow'[e].released_path <=> exRow'[e].state = "released"
    <3>1. \/ exRow'[e] = exRow[e]
          \/ \E l, g : exRow'[e] = [lab |-> l, state |-> "quarantined",
                                    approval_required |-> g,
                                    released_path |-> FALSE, denial_reason |-> FALSE]
      BY <1>0, <2>1 DEF CommitExport, TypeOK
    <3>2. CASE exRow'[e] = exRow[e]
      BY <2>0, <3>2
    <3>3. CASE \E l, g : exRow'[e] = [lab |-> l, state |-> "quarantined",
                                    approval_required |-> g,
                                    released_path |-> FALSE, denial_reason |-> FALSE]
      BY <3>3
    <3> QED
      BY <3>1, <3>2, <3>3
  <2>2. ASSUME NEW s \in Sessions, CommitRelease(s)
        PROVE /\ exRow'[e].denial_reason <=> exRow'[e].state = "rejected"
              /\ exRow'[e].released_path <=> exRow'[e].state = "released"
    <3>1. \/ exRow'[e] = exRow[e]
          \/ /\ exRow'[e].state = "released"
             /\ exRow'[e].denial_reason = FALSE
             /\ exRow'[e].released_path = TRUE
      BY <1>0, <2>0, <2>2, SerialRelease
    <3>2. CASE exRow'[e] = exRow[e]
      BY <2>0, <3>2
    <3> QED
      BY <3>1, <3>2
  <2>3. ASSUME NEW s \in Sessions, CommitDeny(s)
        PROVE /\ exRow'[e].denial_reason <=> exRow'[e].state = "rejected"
              /\ exRow'[e].released_path <=> exRow'[e].state = "released"
    <3>1. \/ exRow'[e] = exRow[e]
          \/ /\ exRow'[e].state = "rejected"
             /\ exRow'[e].denial_reason = TRUE
             /\ exRow'[e].released_path = FALSE
      BY <1>0, <2>0, <2>3, SerialDeny
    <3>2. CASE exRow'[e] = exRow[e]
      BY <2>0, <3>2
    <3> QED
      BY <3>1, <3>2
  <2>4. ASSUME NEW s \in Sessions, CommitDecision(s)
        PROVE /\ exRow'[e].denial_reason <=> exRow'[e].state = "rejected"
              /\ exRow'[e].released_path <=> exRow'[e].state = "released"
    <3>1. \/ exRow'[e] = exRow[e]
          \/ /\ exRow'[e].state = "approved"
             /\ exRow'[e].denial_reason = FALSE
             /\ exRow'[e].released_path = FALSE
          \/ /\ exRow'[e].state = "rejected"
             /\ exRow'[e].denial_reason = TRUE
             /\ exRow'[e].released_path = FALSE
      BY <1>0, <2>0, <2>4, SerialDecision DEF Decision
    <3>2. CASE exRow'[e] = exRow[e]
      BY <2>0, <3>2
    <3> QED
      BY <3>1, <3>2
  <2>5. ASSUME NEW s \in Sessions, CommitReconcile(s)
        PROVE /\ exRow'[e].denial_reason <=> exRow'[e].state = "rejected"
              /\ exRow'[e].released_path <=> exRow'[e].state = "released"
    <3>1. \/ exRow'[e] = exRow[e]
          \/ /\ exRow'[e].state = "rejected"
             /\ exRow'[e].denial_reason = TRUE
             /\ exRow'[e].released_path = FALSE
      BY <1>0, <2>0, <2>5, SerialReconcile
    <3>2. CASE exRow'[e] = exRow[e]
      BY <2>0, <3>2
    <3> QED
      BY <3>1, <3>2
  <2> QED
    BY <2>0, <2>1, <2>2, <2>3, <2>4, <2>5, Writers
<1> QED
  BY <1>1, <1>2 DEF RecordsAgree

LEMMA SerialInvStep ==
  ASSUME Serial, IndInv, SerialInv, [Next]_vars
  PROVE SerialInv'
  BY LoadedStep, OpenStep, RecordsStep DEF SerialInv

-----------------------------------------------------------------------------
(* The theorems *)

\* Every reachable state of the control plane satisfies the invariant, whatever
\* the labs, exports, sessions and profiles.
THEOREM Inductive == Spec => []IndInv
  BY IndInvInit, IndInvStep, PTL DEF Spec

\* The variables of labs, exports, approvals, files and sessions keep their
\* types.
THEOREM TypeCorrect == Spec => []TypeOK
<1>1. IndInv => TypeOK
  BY DEF IndInv
<1> QED
  BY <1>1, Inductive, PTL

\* No export that its profile gates is marked released or copied out of
\* quarantine by release_export before somebody has approved it.
THEOREM NoReleaseWithoutApproval == Spec => []ReleaseRequiresApproval
<1>1. IndInv => ReleaseRequiresApproval
  BY DEF IndInv
<1> QED
  BY <1>1, Inductive, PTL

\* No lab that had to wait for an approval becomes approved without one.
THEOREM NoStartWithoutApproval == Spec => []GatedLabsNeedApproval
<1>1. IndInv => GatedLabsNeedApproval
  BY DEF IndInv
<1> QED
  BY <1>1, Inductive, PTL

\* No lab or export is left blocked once its approval has been decided or has
\* expired.
THEOREM NothingIsStranded == Spec => []BlockedResourcesHaveOpenApproval
<1>1. IndInv => BlockedResourcesHaveOpenApproval
  BY DEF IndInv
<1> QED
  BY <1>1, Inductive, PTL

\* While a lab's tree is intact, the files its export rows speak of exist.
THEOREM RowsHaveTheirFiles == Spec => []RecordedCopiesExist
<1>1. IndInv => RecordedCopiesExist
  BY DEF IndInv
<1> QED
  BY <1>1, Inductive, PTL

\* Whichever of two racing sessions wrote last, the audit trail holds an event
\* that explains the state a lab or an export is in.
THEOREM OutcomesAreAudited == Spec => []EveryOutcomeIsAudited
<1>1. Init => EveryOutcomeIsAudited
  BY GovernanceAssumption DEF Init, EveryOutcomeIsAudited, Outcome, Resources
<1> QED
  BY <1>1, AuditStep, TypeCorrect, PTL DEF Spec

\* Requests that do not race find what they loaded unchanged.
THEOREM SerialInductive == Serial => (Spec => []SerialInv)
<1> SUFFICES ASSUME Serial PROVE Spec => []SerialInv
  OBVIOUS
<1>1. Init => SerialInv
  BY DEF Init, Idle, SerialInv, LoadedIsCurrent, RecordsAgree, Reconciling,
         Releasing, Resources
<1>2. IndInv /\ SerialInv /\ [Next]_vars => SerialInv'
  BY SerialInvStep
<1> QED
  BY <1>1, <1>2, Inductive, PTL DEF Spec

\* Served one at a time, the columns of an approval and of an export agree.
THEOREM SerialRecordsAgree == Serial => (Spec => []RecordsAgree)
<1> SUFFICES ASSUME Serial PROVE Spec => []RecordsAgree
  OBVIOUS
<1>1. SerialInv => RecordsAgree
  BY DEF SerialInv
<1> QED
  BY <1>1, SerialInductive, PTL

\* Served one at a time, _apply_approval_decision and the reconciler change an
\* approval once, the way APPROVAL_TRANSITIONS allows.
THEOREM SerialDecisionsAreFinal == Serial => (Spec => DecisionsAreFinal)
<1> SUFFICES ASSUME Serial PROVE Spec => DecisionsAreFinal
  OBVIOUS
<1> DEFINE Step == \A r \in Resources :
       apRow[r].state \notin {"none", apRow'[r].state}
       => CanTransition(APPROVAL_TRANSITIONS, apRow[r].state, apRow'[r].state)
<1>1. IndInv /\ SerialInv /\ [Next]_vars => Step
  <2> SUFFICES ASSUME IndInv, SerialInv, [Next]_vars, NEW r \in Resources,
                      apRow[r].state \notin {"none", apRow'[r].state}
               PROVE CanTransition(APPROVAL_TRANSITIONS, apRow[r].state,
                                   apRow'[r].state)
    OBVIOUS
  <2>0. TypeOK
    BY DEF IndInv
  <2>1. ASSUME NEW s \in Sessions, CommitCreateLab(s) PROVE FALSE
    <3>1. Exists(r)
      BY DEF IndInv, RowsWellFounded
    <3>2. sess[s].lab = r
      BY <2>0, <2>1 DEF CommitCreateLab, RequestApproval, TypeOK
    <3>3. sess[s].lab \in Labs /\ ~LabExists(sess[s].lab)
      BY <2>0, <2>1, CreatedLab
      DEF IndInv, SessionsWellFounded, OwnsNewLab, CreatingLab, CommitCreateLab
    <3> QED
      BY <3>1, <3>2, <3>3 DEF Exists
  <2>2. ASSUME NEW s \in Sessions, CommitExport(s) PROVE FALSE
    <3>1. Exists(r)
      BY DEF IndInv, RowsWellFounded
    <3>2. sess[s].export = r
      BY <2>0, <2>2, CreatedExportApproval
    <3>3. sess[s].export \in Exports /\ ~ExportExists(sess[s].export)
      BY <2>0, <2>2, CreatedExport
      DEF IndInv, SessionsWellFounded, OwnsNewExport, CreatingExport, CommitExport
    <3> QED
      BY <3>1, <3>2, <3>3 DEF Exists
  <2>3. /\ apRow[r].state = "requested"
        /\ apRow'[r].state \in {"approved", "rejected", "expired"}
    BY <2>0, <2>1, <2>2, SerialDecision, SerialReconcile, Writers DEF Decision
  <2> QED
    BY <2>3 DEF CanTransition, APPROVAL_TRANSITIONS
<1> QED
  BY <1>1, Inductive, SerialInductive, PTL DEF Spec, DecisionsAreFinal

\* Served one at a time, destroy_lab marks a lab destroyed only when nothing of
\* it is left on disk.
THEOREM SerialDestroyLeavesNothing == Serial => (Spec => DestroyLeavesNothing)
<1> SUFFICES ASSUME Serial PROVE Spec => DestroyLeavesNothing
  OBVIOUS
<1> DEFINE Step == \A l \in Labs :
       labRow[l].state # "destroyed" /\ labRow'[l].state = "destroyed"
       => tree'[l] = "absent"
<1>1. IndInv /\ SerialInv /\ [Next]_vars => Step
  <2> SUFFICES ASSUME IndInv, SerialInv, [Next]_vars, NEW l \in Labs,
                      labRow[l].state # "destroyed", labRow'[l].state = "destroyed"
               PROVE tree'[l] = "absent"
    OBVIOUS
  <2>0. TypeOK
    BY DEF IndInv
  <2>1. ASSUME NEW s \in Sessions, CommitDestroy(s) PROVE tree'[l] = "absent"
    <3>1. sess[s].lab = l
      BY <2>0, <2>1 DEF CommitDestroy, TypeOK
    <3> QED
      BY <2>1, <3>1 DEF CommitDestroy, SerialInv, LoadedIsCurrent, disk
  <2>2. ASSUME NEW s \in Sessions, CommitCreateLab(s) PROVE FALSE
    <3>1. sess[s].lab = l
      BY <2>0, <2>2 DEF CommitCreateLab, TypeOK
    <3> QED
      BY <2>0, <2>2, <3>1, CreatedLab
  <2>3. ASSUME NEW s \in Sessions, CommitDecision(s) PROVE FALSE
    BY <2>0, <2>3 DEF CommitDecision, TypeOK, LabRow
  <2>4. ASSUME NEW s \in Sessions, CommitReconcile(s) PROVE FALSE
    BY <2>0, <2>4 DEF CommitReconcile, Net, ReconciledState, TypeOK, LabRow
  <2> QED
    BY <2>1, <2>2, <2>3, <2>4, Writers
<1> QED
  BY <1>1, Inductive, SerialInductive, PTL DEF Spec, DestroyLeavesNothing
=============================================================================
