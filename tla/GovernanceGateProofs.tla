------------------------ MODULE GovernanceGateProofs ------------------------
(***************************************************************************)
(* The handlers and the reconciler implement ApprovalGate, for any number  *)
(* of labs, exports and concurrent sessions and any registry: the initial  *)
(* state of Governance is one of the gate, and every step of Governance is *)
(* a step of the gate or leaves the gate as it is.                         *)
(***************************************************************************)
EXTENDS GovernanceGate, GovernanceProofs

\* The gate of a lab and of an export, without the cases.
LEMMA GateOfLab ==
  ASSUME NEW l \in Labs
  PROVE GateOf(l) = IF ~LabExists(l) THEN "none"
                    ELSE IF apRow[l].state # "none" \/ ProfileOf(l).approval_on_start
                         THEN "gated" ELSE "free"
<1>1. l \notin Exports
  BY GovernanceAssumption
<1> QED
  BY <1>1 DEF GateOf, Outcome, LabExists

LEMMA GateOfExport ==
  ASSUME NEW e \in Exports
  PROVE GateOf(e) = IF ~ExportExists(e) THEN "none"
                    ELSE IF NeedsApproval(e) THEN "gated" ELSE "free"
<1>1. e \notin Labs
  BY GovernanceAssumption
<1> QED
  BY <1>1 DEF GateOf, Outcome, ExportExists

\* The same in the next state.
LEMMA GateOfLabNext ==
  ASSUME NEW l \in Labs
  PROVE GateOf(l)' = IF labRow'[l].state = "none" THEN "none"
                     ELSE IF \/ apRow'[l].state # "none"
                             \/ Registry[labRow'[l].profile_name].approval_on_start
                          THEN "gated" ELSE "free"
<1>1. l \notin Exports
  BY GovernanceAssumption
<1> QED
  BY <1>1 DEF GateOf, Outcome, ProfileOf

LEMMA GateOfExportNext ==
  ASSUME NEW e \in Exports
  PROVE GateOf(e)' = IF exRow'[e].state = "none" THEN "none"
                     ELSE IF NeedsApproval(e)' THEN "gated" ELSE "free"
<1>1. e \notin Labs
  BY GovernanceAssumption
<1> QED
  BY <1>1 DEF GateOf, Outcome

\* Nothing is submitted, granted or past its gate at first.
LEMMA GateInit == Init => Gate!Init /\ RequestedExportsNeedApproval
<1> SUFFICES ASSUME Init PROVE Gate!Init /\ RequestedExportsNeedApproval
  OBVIOUS
<1>1. /\ \A l \in Labs : labRow[l].state = "none"
      /\ \A e \in Exports : exRow[e].state = "none"
      /\ \A r \in Resources : apRow[r].state = "none"
      /\ audit = {}
  BY DEF Init
<1>2. \A r \in Resources : GateOf(r) = "none"
  BY <1>1, GateOfLab, GateOfExport DEF Resources, LabExists, ExportExists
<1>3. Gates = [r \in Resources |-> "none"]
  BY <1>2 DEF Gates
<1>4. Granted = {} /\ Passed = {}
  BY <1>1 DEF Granted, Approved, Passed
<1>5. RequestedExportsNeedApproval
  BY <1>1 DEF RequestedExportsNeedApproval, Resources
<1> QED
  BY <1>3, <1>4, <1>5 DEF Gate!Init

\* Approvals are requested together with the export they guard, and whether an
\* export needs one never changes.
LEMMA RequestedStep ==
  ASSUME IndInv, RequestedExportsNeedApproval, [Next]_vars
  PROVE RequestedExportsNeedApproval'
<1> USE DEF IndInv
<1> SUFFICES ASSUME NEW e \in Exports, apRow'[e].state # "none"
             PROVE NeedsApproval(e)'
  BY DEF RequestedExportsNeedApproval
<1>0. e \in Resources /\ e \notin Labs
  BY GovernanceAssumption DEF Resources
<1>1. CASE apRow[e].state # "none"
  <2>1. ExportExists(e)
    BY <1>0, <1>1 DEF RowsWellFounded, Exists
  <2> QED
    BY <1>1, <2>1, NeedPersists DEF RequestedExportsNeedApproval
<1>2. CASE apRow[e].state = "none"
  <2>1. ASSUME NEW s \in Sessions, CommitCreateLab(s) PROVE sess[s].lab # e
    BY <1>0, <2>1, CreatedLab
  <2>2. PICK s \in Sessions : CommitExport(s) /\ sess[s].export = e
    BY <1>0, <1>2, <2>1, ApprovalStep DEF Requested
  <2>3. /\ sess[s].lab \in Labs
        /\ exRow'[e].lab = sess[s].lab
        /\ exRow'[e].state = "quarantined"
        /\ ProfileOf(sess[s].lab).approval_on_export
        /\ UNCHANGED labRow
    BY <1>2, <2>2, CreatedExport
  <2> QED
    BY <2>3 DEF NeedsApproval, ProfileOf
<1> QED
  BY <1>1, <1>2

\* A resource that was submitted keeps its gate.
LEMMA GatesPersist ==
  ASSUME IndInv, [Next]_vars, NEW r \in Resources, Exists(r)
  PROVE GateOf(r)' = GateOf(r)
<1> USE DEF IndInv
<1>1. CASE r \in Labs
  <2>1. LabExists(r)
    BY <1>1 DEF Exists
  <2>2. LabExists(r)' /\ labRow'[r].profile_name = labRow[r].profile_name
    BY <1>1, <2>1, RowsPersist
  <2>3. ASSUME NEW s \in Sessions, CommitCreateLab(s) PROVE sess[s].lab # r
    BY <2>1, <2>3 DEF SessionsWellFounded, OwnsNewLab, CreatingLab, CommitCreateLab
  <2>4. ASSUME NEW s \in Sessions, CommitExport(s) PROVE sess[s].export # r
    BY <1>1, <2>4, CreatedExport, GovernanceAssumption
  <2>5. apRow'[r].state = "none" <=> apRow[r].state = "none"
    BY <2>3, <2>4, ApprovalStep DEF Requested
  <2> QED
    BY <1>1, <2>1, <2>2, <2>5, GateOfLab, GateOfLabNext DEF LabExists, ProfileOf
<1>2. CASE r \in Exports
  <2>1. ExportExists(r)
    BY <1>2 DEF Exists
  <2>2. exRow'[r].state # "none" /\ (NeedsApproval(r)' <=> NeedsApproval(r))
    BY <1>2, <2>1, NeedPersists, RowsPersist DEF ExportExists
  <2> QED
    BY <1>2, <2>1, <2>2, GateOfExport, GateOfExportNext
<1> QED
  BY <1>1, <1>2 DEF Resources

\* Only the commit of its creation submits a resource.
LEMMA GatesStep ==
  ASSUME IndInv, [Next]_vars, NEW r \in Resources,
         ~\E s \in Sessions : CommitCreateLab(s) /\ sess[s].lab = r,
         ~\E s \in Sessions : CommitExport(s) /\ sess[s].export = r
  PROVE GateOf(r)' = GateOf(r)
<1> USE DEF IndInv
<1>1. CASE Exists(r)
  BY <1>1, GatesPersist
<1>2. CASE r \in Labs /\ ~LabExists(r)
  <2>1. labRow'[r].state = "none"
    BY <1>2, LabStep DEF LabExists
  <2> QED
    BY <1>2, <2>1, GateOfLab, GateOfLabNext
<1>3. CASE r \in Exports /\ ~ExportExists(r)
  <2>1. exRow'[r].state = "none"
    BY <1>3, ExportStep DEF ExportExists
  <2> QED
    BY <1>3, <2>1, GateOfExport, GateOfExportNext
<1> QED
  BY <1>1, <1>2, <1>3 DEF Exists, Resources

-----------------------------------------------------------------------------
(* Every step is one of the gate *)

\* Two requests do not commit in the same step.
LEMMA OneCommit ==
  ASSUME TypeOK, NEW s \in Sessions, NEW t \in Sessions, ~IsIdle(s), ~IsIdle(t),
         Finish(s), Finish(t)
  PROVE s = t
  BY DEF TypeOK, Finish, IsIdle

\* The recorded approvals: only a decision adds one.
LEMMA GrantedStep ==
  ASSUME [Next]_vars,
         ~\E s \in Sessions : CommitDecision(s) /\ sess[s].decision = "approved"
  PROVE Granted' = Granted
<1>1. ASSUME NEW r \in Resources, Approved(r)' PROVE Approved(r)
  <2>1. ASSUME NEW s \in Sessions, Begin(s) PROVE Approved(r)
    <3>1. ASSUME NEW e \in Exports, ReleaseBlocked(s, e) PROVE Approved(r)
      BY <1>1, <3>1 DEF ReleaseBlocked, Record, Approved
    <3>2. CASE UNCHANGED db
      BY <1>1, <3>2 DEF db, Approved
    <3> QED
      BY <2>1, <3>1, <3>2
      DEF Begin, BeginCreateLab, BeginDestroy, BeginExport, BeginRelease,
          BeginDeny, BeginDecision, BeginReconcile
  <2>2. ASSUME NEW s \in Sessions, CommitDecision(s) PROVE Approved(r)
    BY <1>1, <2>2 DEF CommitDecision, Record, Approved
  <2>3. ASSUME NEW s \in Sessions, CommitReconcile(s) PROVE Approved(r)
    BY <1>1, <2>3 DEF CommitReconcile, Record, Approved
  <2>4. ASSUME NEW s \in Sessions, CommitCreateLab(s) PROVE Approved(r)
    BY <1>1, <2>4 DEF CommitCreateLab, Record, ApprovalEvents, Approved
  <2>5. ASSUME NEW s \in Sessions, CommitExport(s) PROVE Approved(r)
    <3> DEFINE e == sess[s].export
    <3>1. \A event \in audit' :
            event \in audit \cup {<<"export.requested", e>>, <<"export.staged", e>>,
                                  <<"approval.requested", e>>}
      BY <2>5 DEF CommitExport, Record, ApprovalEvents
    <3> QED
      BY <1>1, <3>1 DEF Approved
  <2>6. ASSUME NEW s \in Sessions,
               CommitDestroy(s) \/ CommitRelease(s) \/ CommitDeny(s)
        PROVE Approved(r)
    BY <1>1, <2>6 DEF CommitDestroy, CommitRelease, CommitDeny, Record, Approved
  <2>7. ASSUME NEW s \in Sessions,
               \/ RemoveTree(s) \/ RemoveTreeFails(s)
               \/ CopyToQuarantine(s) \/ CopyToQuarantineFails(s)
               \/ CopyToReleased(s) \/ CopyToReleasedFails(s) \/ Abort(s)
        PROVE Approved(r)
    BY <1>1, <2>7
    DEF RemoveTree, RemoveTreeFails, CopyToQuarantine, CopyToQuarantineFails,
        CopyToReleased, CopyToReleasedFails, Abort, db, Approved
  <2>8. ASSUME NEW q \in Resources, ExpiryPasses(q) PROVE Approved(r)
    BY <1>1, <2>8 DEF ExpiryPasses, db, Approved
  <2> QED
    BY <1>1, <2>1, <2>2, <2>3, <2>4, <2>5, <2>6, <2>7, <2>8
    DEF Next, Continue, vars, Approved
<1>2. ASSUME NEW r \in Resources, Approved(r) PROVE Approved(r)'
  BY <1>2, ApprovalsPersist
<1> QED
  BY <1>1, <1>2 DEF Granted

\* Creating a lab submits it: a lab that nothing gates passes at once.
LEMMA SubmitLab ==
  ASSUME IndInv, [Next]_vars, NEW s \in Sessions, CommitCreateLab(s),
         NEW l, l = sess[s].lab
  PROVE l \in Resources /\ Gate!Submit(l)
<1> USE DEF IndInv
<1>1. /\ l \in Labs /\ l \in Resources /\ l \notin Exports
      /\ ~LabExists(l)
      /\ Registry[sess[s].profile_name].approval_on_start
           => sess[s].approval_required
  BY CreatedLab, GovernanceAssumption
  DEF SessionsWellFounded, OwnsNewLab, CreatingLab, CommitCreateLab, Resources
<1>2. apRow[l].state = "none"
  BY <1>1 DEF RowsWellFounded, Exists
<1>3. /\ UNCHANGED <<exRow, released>>
      /\ \A k \in Labs : k # l => labRow'[k] = labRow[k]
  BY <1>1 DEF CommitCreateLab, TypeOK, disk
<1>4. ASSUME NEW t \in Sessions
      PROVE /\ ~CommitDecision(t) /\ ~CommitExport(t)
            /\ CommitCreateLab(t) => sess[t].lab = l
  BY OneCommit DEF CommitCreateLab, CommitDecision, CommitExport, IsIdle, Idle
<1>5. Granted' = Granted
  BY <1>4, GrantedStep
<1>6. Gates' = [Gates EXCEPT ![l] = GateOf(l)'] /\ Gates[l] = "none"
  <2>1. ASSUME NEW r \in Resources, r # l PROVE GateOf(r)' = GateOf(r)
    BY <1>4, <2>1, GatesStep
  <2> QED
    BY <1>1, <2>1, GateOfLab DEF Gates
<1>7. CASE labRow'[l].state = "pending_approval"
  <2>1. Passed' = Passed
    BY <1>1, <1>3, <1>7 DEF Passed, LabExists, Copy
  <2>2. GateOf(l)' = "gated"
    BY <1>1, <1>7, CreatedLab, GateOfLabNext
  <2> QED
    BY <1>1, <1>5, <1>6, <2>1, <2>2 DEF Gate!Submit
<1>8. CASE labRow'[l].state = "approved"
  <2>1. Passed' = Passed \cup {l}
    BY <1>1, <1>3, <1>8 DEF Passed, LabExists, Copy
  <2>2. GateOf(l)' = "free"
    BY <1>1, <1>2, <1>8, CreatedLab, GateOfLabNext
  <2> QED
    BY <1>1, <1>5, <1>6, <2>1, <2>2 DEF Gate!Submit
<1> QED
  BY <1>1, <1>7, <1>8, CreatedLab

\* Staging an export submits it; it stays in quarantine.
LEMMA SubmitExport ==
  ASSUME IndInv, [Next]_vars, NEW s \in Sessions, CommitExport(s),
         NEW e, e = sess[s].export
  PROVE e \in Resources /\ Gate!Submit(e)
<1> USE DEF IndInv
<1>1. /\ e \in Exports /\ e \in Resources /\ e \notin Labs
      /\ ~ExportExists(e)
      /\ exRow'[e].state = "quarantined"
  BY CreatedExport, GovernanceAssumption
  DEF SessionsWellFounded, OwnsNewExport, CreatingExport, CommitExport, Resources
<1>2. /\ UNCHANGED <<labRow, released>>
      /\ \A f \in Exports : f # e => exRow'[f] = exRow[f]
  BY <1>1 DEF CommitExport, TypeOK, disk
<1>3. ASSUME NEW t \in Sessions
      PROVE /\ ~CommitDecision(t) /\ ~CommitCreateLab(t)
            /\ CommitExport(t) => sess[t].export = e
  BY OneCommit DEF CommitCreateLab, CommitDecision, CommitExport, IsIdle, Idle
<1>4. Granted' = Granted
  BY <1>3, GrantedStep
<1>5. Gates' = [Gates EXCEPT ![e] = GateOf(e)'] /\ Gates[e] = "none"
  <2>1. ASSUME NEW r \in Resources, r # e PROVE GateOf(r)' = GateOf(r)
    BY <1>3, <2>1, GatesStep
  <2> QED
    BY <1>1, <2>1, GateOfExport DEF Gates
<1>6. GateOf(e)' \in {"gated", "free"}
  BY <1>1, GateOfExportNext
<1>7. <<exRow'[e].lab, e>> \notin released
  BY <1>1 DEF RowsWellFounded
<1>8. Passed' = Passed
  BY <1>1, <1>2, <1>7 DEF Passed, ExportExists, Copy
<1> QED
  BY <1>1, <1>4, <1>5, <1>6, <1>8 DEF Gate!Submit

\* An approval grants: it lets a lab pass, and an export go on to its release.
LEMMA GrantStep ==
  ASSUME IndInv, RequestedExportsNeedApproval, [Next]_vars,
         NEW s \in Sessions, CommitDecision(s), sess[s].decision = "approved",
         NEW r, r = sess[s].resource
  PROVE r \in Resources /\ Gate!Grant(r)
<1> USE DEF IndInv
<1>1. /\ r \in Resources /\ Requested(r)
      /\ r \in Labs => r \notin Exports
  BY SessionShape, GovernanceAssumption
  DEF TypeOK, CommitDecision, SessionsWellFounded, DecidesRequestedApproval
<1>2. Gates[r] = "gated"
  <2>1. CASE r \in Labs
    BY <1>1, <2>1, GateOfLab DEF Gates, Requested, Exists
  <2>2. CASE r \in Exports
    BY <1>1, <2>2, GateOfExport DEF Gates, Requested, Exists, RequestedExportsNeedApproval
  <2> QED
    BY <1>1, <2>1, <2>2 DEF Resources
<1>3. Gates' = Gates
  <2>1. ASSUME NEW t \in Sessions PROVE ~CommitCreateLab(t) /\ ~CommitExport(t)
    BY OneCommit DEF CommitCreateLab, CommitDecision, CommitExport, IsIdle, Idle
  <2> QED
    BY <2>1, GatesStep DEF Gates
<1>4. Granted' = Granted \cup {r}
  BY <1>1 DEF CommitDecision, Record, Granted, Approved
<1>5. /\ UNCHANGED released
      /\ r \in Labs => /\ UNCHANGED exRow
                       /\ labRow'[r].state = "approved"
                       /\ \A l \in Labs : l # r => labRow'[l] = labRow[l]
      /\ r \in Exports => /\ UNCHANGED labRow
                          /\ exRow'[r].state = "approved"
                          /\ exRow'[r].lab = exRow[r].lab
                          /\ \A e \in Exports : e # r => exRow'[e] = exRow[e]
  BY <1>1 DEF CommitDecision, TypeOK, LabRow, ExportRow, disk
<1>6. Passed' \in {Passed \ {r}, Passed \cup {r}}
  <2>1. CASE r \in Labs
    <3>1. Passed' = Passed \cup {r}
      BY <1>1, <1>5, <2>1 DEF Passed, Copy
    <3> QED
      BY <3>1
  <2>2. CASE r \in Exports
    <3>1. \A q \in Labs \cup Exports : q # r => (q \in Passed' <=> q \in Passed)
      BY <1>1, <1>5, <2>2 DEF Passed, Copy
    <3>2. Passed \subseteq Labs \cup Exports /\ Passed' \subseteq Labs \cup Exports
      BY DEF Passed
    <3>3. Passed' = IF r \in Passed' THEN Passed \cup {r} ELSE Passed \ {r}
      BY <2>2, <3>1, <3>2
    <3> QED
      BY <3>3
  <2> QED
    BY <1>1, <2>1, <2>2 DEF Resources
<1> QED
  BY <1>1, <1>2, <1>3, <1>4, <1>6 DEF Gate!Grant

\* A release passes the gate, with its copy or with its commit, and acts on an
\* approval if the export is gated.
LEMMA PassStep ==
  ASSUME IndInv, [Next]_vars, NEW s \in Sessions,
         CopyToReleased(s) \/ CommitRelease(s), NEW e, e = sess[s].export
  PROVE e \in Resources /\ Gate!Pass(e)
<1> USE DEF IndInv
<1>1. /\ e \in Exports /\ e \in Resources /\ e \notin Labs
      /\ ExportExists(e)
      /\ NeedsApproval(e) => Approved(e)
      /\ ~IsIdle(s)
  <2>1. Releasing(s) /\ e \in Exports /\ ~IsIdle(s)
    BY SessionShape DEF TypeOK, CopyToReleased, CommitRelease, Releasing, IsIdle, Idle
  <2> QED
    BY <2>1, GovernanceAssumption
    DEF SessionsWellFounded, ActsOnExistingExport, GateInv, Resources
<1>2. Gates[e] = "free" \/ e \in Granted
  BY <1>1, GateOfExport DEF Gates, Granted
<1>3. ASSUME NEW t \in Sessions
      PROVE ~CommitCreateLab(t) /\ ~CommitExport(t) /\ ~CommitDecision(t)
  <2>1. CASE CommitRelease(s)
    <3>1. TypeOK /\ sess[s].pc = "release.copied" /\ Finish(s) /\ ~IsIdle(s)
      BY <1>1, <2>1 DEF CommitRelease
    <3> QED
      BY <3>1, OneCommit
      DEF CommitCreateLab, CommitDecision, CommitExport, IsIdle, Idle
  <2>2. CASE CopyToReleased(s)
    <3>1. sess'[s].pc = "release.copied" /\ (t # s => sess'[t] = sess[t])
      BY <2>2, SessionShape DEF CopyToReleased, GoTo, TypeOK
    <3> QED
      BY <2>2, <3>1
      DEF CopyToReleased, CommitCreateLab, CommitDecision, CommitExport, Finish,
          Idle, TypeOK
  <2> QED
    BY <2>1, <2>2
<1>4. Gates' = Gates /\ Granted' = Granted
  BY <1>3, GatesStep, GrantedStep DEF Gates
<1>5. Passed' = Passed \cup {e}
  <2>1. CASE CommitRelease(s)
    <3>1. /\ UNCHANGED <<labRow, released>>
          /\ exRow'[e].state = "released"
          /\ \A f \in Exports : f # e => exRow'[f] = exRow[f]
      BY <1>1, <2>1 DEF CommitRelease, TypeOK, ExportRow, disk
    <3> QED
      BY <1>1, <3>1 DEF Passed, Copy
  <2>2. CASE CopyToReleased(s)
    <3>1. UNCHANGED <<labRow, exRow>> /\ released' = released \cup {Copy(e)}
      BY <2>2 DEF CopyToReleased, db
    <3> QED
      BY <1>1, <3>1 DEF Passed, Copy, ExportExists
  <2> QED
    BY <2>1, <2>2
<1> QED
  BY <1>1, <1>2, <1>4, <1>5 DEF Gate!Pass

\* No other step lets anything pass.
LEMMA WithdrawStep ==
  ASSUME IndInv, [Next]_vars,
         ~\E s \in Sessions :
            \/ CommitCreateLab(s) \/ CommitExport(s)
            \/ CopyToReleased(s) \/ CommitRelease(s)
            \/ CommitDecision(s) /\ sess[s].decision = "approved"
  PROVE Gate!Withdraw
<1> USE DEF IndInv
<1>1. Gates' = Gates /\ Granted' = Granted
  BY GatesStep, GrantedStep DEF Gates
<1>2. ASSUME NEW l \in Labs, labRow'[l].state = "approved"
      PROVE labRow[l].state = "approved"
  <2>1. ~UNCHANGED labRow =>
          \E s \in Sessions : \/ CommitDestroy(s) \/ CommitReconcile(s)
                              \/ CommitDecision(s) /\ sess[s].decision # "approved"
    BY Writers
  <2>2. ASSUME NEW s \in Sessions, CommitDestroy(s) PROVE labRow[l].state = "approved"
    BY <1>2, <2>2 DEF CommitDestroy, TypeOK, LabRow
  <2>3. ASSUME NEW s \in Sessions, CommitReconcile(s)
        PROVE labRow[l].state = "approved"
    BY <1>2, <2>3 DEF CommitReconcile, Net, ReconciledState, TypeOK, LabRow
  <2>4. ASSUME NEW s \in Sessions, CommitDecision(s), sess[s].decision # "approved"
        PROVE labRow[l].state = "approved"
    BY <1>2, <2>4 DEF CommitDecision, TypeOK, LabRow
  <2> QED
    BY <1>2, <2>1, <2>2, <2>3, <2>4
<1>3. released' \subseteq released
  BY Writers DEF RemoveTree, RemoveTreeFails, OfOtherLabs
<1>4. ASSUME NEW e \in Exports, exRow'[e].state # "none",
             exRow'[e].state = "released" \/ <<exRow'[e].lab, e>> \in released'
      PROVE e \in Passed
  <2>1. ASSUME exRow'[e] # exRow[e]
        PROVE /\ ExportExists(e) /\ exRow'[e].lab = exRow[e].lab
              /\ exRow'[e].state # "released"
    <3>1. ~UNCHANGED exRow =>
            \E s \in Sessions : CommitDeny(s) \/ CommitReconcile(s) \/ CommitDecision(s)
      BY Writers
    <3>2. ASSUME NEW s \in Sessions, CommitDeny(s) PROVE exRow'[e].state # "released"
      BY <2>1, <3>2 DEF CommitDeny, TypeOK, ExportRow
    <3>3. ASSUME NEW s \in Sessions, CommitReconcile(s)
          PROVE exRow'[e].state # "released"
      BY <2>1, <3>3 DEF CommitReconcile, ExpiredExport, TypeOK, ExportRow
    <3>4. ASSUME NEW s \in Sessions, CommitDecision(s)
          PROVE exRow'[e].state # "released"
      <4>1. sess[s] \in SessionState /\ sess[s].pc = "decision.loaded"
        BY <3>4 DEF CommitDecision, TypeOK
      <4>2. sess[s].decision \in {"approved", "rejected"}
        BY <4>1, SessionShape DEF Decision
      <4>3. sess[s].resource = e
        BY <2>1, <3>4 DEF CommitDecision, TypeOK
      <4>4. exRow[e] \in ExportRow /\ exRow \in [Exports -> ExportRow]
        BY DEF TypeOK
      <4>5. exRow'[e].state = sess[s].decision
        <5>1. exRow' # exRow
          BY <2>1
        <5>2. exRow' = [exRow EXCEPT
                ![e].state = sess[s].decision,
                ![e].approval_required = @ /\ ~(sess[s].decision = "approved"),
                ![e].denial_reason = ~(sess[s].decision = "approved")]
          BY <3>4, <4>3, <5>1 DEF CommitDecision
        <5> QED
          BY <4>4, <5>2 DEF ExportRow
      <4> QED
        BY <4>2, <4>5
    <3> QED
      BY <2>1, <3>1, <3>2, <3>3, <3>4, ExportStep
  <2> QED
    BY <1>3, <1>4, <2>1 DEF Passed, Copy, ExportExists
<1>5. Passed' \subseteq Passed
  BY <1>2, <1>4 DEF Passed, Copy
<1> QED
  BY <1>1, <1>5 DEF Gate!Withdraw

\* Every step of a handler or of the reconciler is a step of the gate.
LEMMA GateStepImplemented ==
  ASSUME IndInv, RequestedExportsNeedApproval, [Next]_vars
  PROVE Gate!Next
<1>1. ASSUME NEW s \in Sessions, CommitCreateLab(s) PROVE Gate!Next
  BY <1>1, SubmitLab DEF Gate!Next
<1>2. ASSUME NEW s \in Sessions, CommitExport(s) PROVE Gate!Next
  BY <1>2, SubmitExport DEF Gate!Next
<1>3. ASSUME NEW s \in Sessions, CopyToReleased(s) \/ CommitRelease(s) PROVE Gate!Next
  BY <1>3, PassStep DEF Gate!Next
<1>4. ASSUME NEW s \in Sessions, CommitDecision(s), sess[s].decision = "approved"
      PROVE Gate!Next
  BY <1>4, GrantStep DEF Gate!Next
<1> QED
  BY <1>1, <1>2, <1>3, <1>4, WithdrawStep DEF Gate!Next

-----------------------------------------------------------------------------
(* The theorem *)

\* Whatever the handlers and the reconciler do, and wherever their sessions
\* interleave and fail, is a behaviour of the approval gate: a lab or an export
\* is submitted once and passes only free or granted.
THEOREM GovernanceImplementsGate == Spec => ImplementsGate
<1>1. Init => Gate!Init /\ RequestedExportsNeedApproval
  BY GateInit
<1>2. IndInv /\ RequestedExportsNeedApproval /\ [Next]_vars
        => RequestedExportsNeedApproval'
  BY RequestedStep
<1>3. IndInv /\ RequestedExportsNeedApproval /\ [Next]_vars
        => [Gate!Next]_(Gate!vars)
  BY GateStepImplemented
<1> QED
  BY <1>1, <1>2, <1>3, Inductive, PTL DEF Spec, ImplementsGate, Gate!Spec
=============================================================================
