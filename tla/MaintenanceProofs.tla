------------------------- MODULE MaintenanceProofs --------------------------
(***************************************************************************)
(* The reconciler's budget of destroy attempts, what it reports of them    *)
(* and the events it records, for any number of labs, leases, runs and     *)
(* sessions and any max_destroy_attempts.                                  *)
(*                                                                         *)
(* A pass commits columns it computed from rows it loaded earlier.  That   *)
(* is within the budget because no lab returns to live or destroying: the  *)
(* invariant relates each loaded row to the row in the database, and both  *)
(* to what the pass did to the disk in between.                            *)
(***************************************************************************)
EXTENDS Maintenance, TLAPS

-----------------------------------------------------------------------------
(* What a session and a row look like *)

\* The program counter of a session tells which request it serves.
LEMMA SessionShape ==
  ASSUME NEW x \in SessionState
  PROVE /\ x.pc = "idle" <=> x = Idle
        /\ x.pc \in {"destroy.loaded", "destroy.removed"} => 
             x \in [pc: {"destroy.loaded", "destroy.removed"}, lab: Labs]
        /\ x.pc = "revoke.loaded" => x.lease \in Leases
        /\ x.pc \in {"pass.loaded", "pass.retried"} =>
             x \in [pc: {"pass.loaded", "pass.retried"}, labs: [Labs -> LabRow],
                    leases: SUBSET Leases, runs: SUBSET Runs,
                    removed: SUBSET Labs, kept: SUBSET Labs]
  BY DEF SessionState, Idle

\* A pass has loaded every lab row, and retried labs.
LEMMA PassShape ==
  ASSUME TypeOK, NEW s \in Sessions, Passing(s)
  PROVE /\ sess[s].removed \subseteq Labs /\ sess[s].kept \subseteq Labs
        /\ sess[s].leases \subseteq Leases /\ sess[s].runs \subseteq Runs
        /\ \A l \in Labs : /\ sess[s].labs[l] \in LabRow
                           /\ sess[s].labs[l].destroy_attempts \in Nat
                           /\ sess[s].labs[l].last_destroy_error \in BOOLEAN
<1>1. sess[s] \in SessionState
  BY DEF TypeOK
<1>2. sess[s] \in [pc: {"pass.loaded", "pass.retried"}, labs: [Labs -> LabRow],
                   leases: SUBSET Leases, runs: SUBSET Runs,
                   removed: SUBSET Labs, kept: SUBSET Labs]
  BY <1>1, SessionShape DEF Passing
<1> QED
  BY <1>2 DEF LabRow

\* The columns of a row that a pass commits.
LEMMA PassedRow ==
  ASSUME TypeOK, NEW s \in Sessions, CommitPass(s), NEW l \in Labs
  PROVE /\ lab'[l].state =
             Net(lab[l].state, sess[s].labs[l].state, PassedLab(s, l).state)
        /\ lab'[l].destroy_attempts =
             Net(lab[l].destroy_attempts, sess[s].labs[l].destroy_attempts,
                 PassedLab(s, l).destroy_attempts)
        /\ lab'[l].last_destroy_error =
             Net(lab[l].last_destroy_error, sess[s].labs[l].last_destroy_error,
                 PassedLab(s, l).last_destroy_error)
        /\ lab'[l] \in LabRow
<1>1. lab[l] \in LabRow
  BY DEF TypeOK
<1>2. DOMAIN lab[l] = {"state", "destroy_attempts", "last_destroy_error"}
  BY <1>1 DEF LabRow
<1>3. lab'[l] = [f \in {"state", "destroy_attempts", "last_destroy_error"} |->
                   Net(lab[l][f], sess[s].labs[l][f], PassedLab(s, l)[f])]
  BY <1>2 DEF CommitPass
<1>4. /\ lab'[l].state =
           Net(lab[l].state, sess[s].labs[l].state, PassedLab(s, l).state)
      /\ lab'[l].destroy_attempts =
           Net(lab[l].destroy_attempts, sess[s].labs[l].destroy_attempts,
               PassedLab(s, l).destroy_attempts)
      /\ lab'[l].last_destroy_error =
           Net(lab[l].last_destroy_error, sess[s].labs[l].last_destroy_error,
               PassedLab(s, l).last_destroy_error)
  BY <1>3
<1>5. /\ PassedLab(s, l).state \in {"live", "destroying", "destroyed", "failed"}
      /\ PassedLab(s, l).destroy_attempts \in Nat
      /\ PassedLab(s, l).last_destroy_error \in BOOLEAN
  <2>1. /\ sess[s].labs[l].state \in {"live", "destroying", "destroyed", "failed"}
        /\ sess[s].labs[l].destroy_attempts \in Nat
        /\ sess[s].labs[l].last_destroy_error \in BOOLEAN
    BY PassShape DEF CommitPass, Passing, LabRow
  <2>2. PassedLab(s, l).state \in {"live", "destroying", "destroyed", "failed"}
    BY <2>1 DEF PassedLab, StateAfterRetry
  <2>3. PassedLab(s, l).destroy_attempts \in Nat
    BY <2>1 DEF PassedLab
  <2>4. CASE l \in sess[s].kept
    <3>1. PassedLab(s, l).last_destroy_error = TRUE
      BY <2>4 DEF PassedLab
    <3> QED
      BY <2>2, <2>3, <3>1
  <2>5. CASE l \in sess[s].removed \ sess[s].kept
    <3>0. (l \in sess[s].kept) = FALSE /\ l \in sess[s].removed \cup sess[s].kept
      BY <2>5
    <3>1. PassedLab(s, l).last_destroy_error = FALSE
      BY <3>0 DEF PassedLab
    <3> QED
      BY <2>2, <2>3, <3>1
  <2>6. CASE l \notin sess[s].removed \cup sess[s].kept
    <3>1. PassedLab(s, l).last_destroy_error = sess[s].labs[l].last_destroy_error
      BY <2>6 DEF PassedLab
    <3> QED
      BY <2>1, <2>2, <2>3, <3>1
  <2> QED
    BY <2>4, <2>5, <2>6
<1>6. /\ lab'[l].state \in {"live", "destroying", "destroyed", "failed"}
      /\ lab'[l].destroy_attempts \in Nat
      /\ lab'[l].last_destroy_error \in BOOLEAN
  BY <1>1, <1>4, <1>5 DEF Net, LabRow
<1>7. lab'[l] = [state |-> lab'[l].state,
                 destroy_attempts |-> lab'[l].destroy_attempts,
                 last_destroy_error |-> lab'[l].last_destroy_error]
  BY <1>3
<1>8. lab'[l] \in LabRow
  BY <1>6, <1>7 DEF LabRow
<1> QED
  BY <1>4, <1>8

\* A pass that retried nothing leaves a lab as it is, or fails it for want of
\* its root.
LEMMA PassedUnretried ==
  ASSUME TypeOK, NEW s \in Sessions, CommitPass(s), NEW l \in Labs,
         l \notin sess[s].removed \cup sess[s].kept
  PROVE /\ lab'[l].destroy_attempts = lab[l].destroy_attempts
        /\ lab'[l].last_destroy_error = lab[l].last_destroy_error
        /\ \/ lab'[l].state = lab[l].state
           \/ lab'[l].state = "failed" /\ l \in MissingRoot(s)
<1>1. /\ PassedLab(s, l).destroy_attempts = sess[s].labs[l].destroy_attempts
      /\ PassedLab(s, l).last_destroy_error = sess[s].labs[l].last_destroy_error
  BY DEF PassedLab
<1>2. \/ PassedLab(s, l).state = sess[s].labs[l].state
      \/ PassedLab(s, l).state = "failed" /\ l \in MissingRoot(s)
  BY DEF PassedLab, StateAfterRetry, GivesUp
<1> QED
  BY <1>1, <1>2, PassedRow DEF Net

\* A lab whose storage the pass removed is destroyed.
LEMMA PassedRemoved ==
  ASSUME TypeOK, NEW s \in Sessions, CommitPass(s), NEW l \in Labs,
         PassWellFounded(s, l), l \in sess[s].removed
  PROVE /\ lab'[l].state = "destroyed"
        /\ lab'[l].destroy_attempts = sess[s].labs[l].destroy_attempts + 1
<1>1. /\ PassedLab(s, l).destroy_attempts = sess[s].labs[l].destroy_attempts + 1
      /\ PassedLab(s, l).state = "destroyed"
  <2>1. StateAfterRetry(s, l) = "destroyed"
    BY DEF StateAfterRetry, GivesUp, PassWellFounded
  <2>2. l \notin MissingRoot(s)
    BY <2>1 DEF MissingRoot
  <2> QED
    BY <2>1, <2>2 DEF PassedLab
<1>2. /\ sess[s].labs[l].destroy_attempts \in Nat
      /\ sess[s].labs[l].state # "destroyed"
  BY PassShape DEF CommitPass, Passing, PassWellFounded
<1> QED
  BY <1>1, <1>2, PassedRow DEF Net

\* A lab whose storage the pass could not remove carries the error, and is
\* given up when this was the last attempt.
LEMMA PassedKept ==
  ASSUME TypeOK, NEW s \in Sessions, CommitPass(s), NEW l \in Labs,
         PassWellFounded(s, l), l \in sess[s].kept
  PROVE /\ lab'[l].destroy_attempts = sess[s].labs[l].destroy_attempts + 1
        /\ \/ lab'[l].last_destroy_error = TRUE
           \/ /\ sess[s].labs[l].last_destroy_error
              /\ lab'[l].last_destroy_error = lab[l].last_destroy_error
        /\ \/ lab'[l].state = "failed" /\ l \in MissingRoot(s) \cup GivesUp(s)
           \/ /\ lab'[l].state = lab[l].state
              /\ sess[s].labs[l].destroy_attempts + 1 < MaxDestroyAttempts
<1>1. /\ sess[s].labs[l].destroy_attempts \in Nat
      /\ sess[s].labs[l].last_destroy_error \in BOOLEAN
      /\ sess[s].labs[l].state \in {"live", "destroying"}
      /\ l \notin sess[s].removed
  BY PassShape DEF CommitPass, Passing, PassWellFounded
<1>2. /\ PassedLab(s, l).destroy_attempts = sess[s].labs[l].destroy_attempts + 1
      /\ PassedLab(s, l).last_destroy_error = TRUE
  BY DEF PassedLab
<1>3. CASE l \in GivesUp(s)
  <2>1. PassedLab(s, l).state = "failed"
    BY <1>1, <1>3 DEF PassedLab, StateAfterRetry
  <2> QED
    BY <1>1, <1>2, <1>3, <2>1, PassedRow DEF Net
<1>4. CASE l \notin GivesUp(s)
  <2>1. sess[s].labs[l].destroy_attempts + 1 < MaxDestroyAttempts
    BY <1>1, <1>4, MaintenanceAssumption DEF GivesUp
  <2>2. \/ PassedLab(s, l).state = "failed" /\ l \in MissingRoot(s)
        \/ PassedLab(s, l).state = sess[s].labs[l].state
    BY <1>1, <1>4 DEF PassedLab, StateAfterRetry
  <2> QED
    BY <1>1, <1>2, <2>1, <2>2, PassedRow DEF Net
<1> QED
  BY <1>3, <1>4

-----------------------------------------------------------------------------
(* The steps *)

\* The rows of the labs are written by three actions.
LEMMA LabWriters ==
  ASSUME [Next]_vars
  PROVE \/ UNCHANGED lab
        \/ \E s \in Sessions : CommitDestroy(s) \/ CommitPass(s)
        \/ \E l \in Labs : MarkDestroying(l)
  BY DEF Next, vars, Continue, IssueLease, BeginRevoke, CreateRun, BeginDestroy,
         BeginPass, CommitRevoke, RemoveTree, RetryDestroying, Abort, TimePasses

\* No step restores the storage of a lab.
LEMMA TreeShrinks ==
  ASSUME TypeOK, [Next]_vars
  PROVE tree' \subseteq tree
  BY DEF Next, vars, Continue, IssueLease, BeginRevoke, CreateRun, BeginDestroy,
         BeginPass, CommitRevoke, RemoveTree, RetryDestroying, Abort, TimePasses,
         CommitDestroy, CommitPass, MarkDestroying

\* What a step makes of the session of a pass or of a destroy_lab.
LEMMA SessionStep ==
  ASSUME TypeOK, [Next]_vars, NEW t \in Sessions, sess'[t] # sess[t]
  PROVE /\ sess'[t].pc = "pass.loaded" => BeginPass(t)
        /\ sess'[t].pc = "pass.retried" => RetryDestroying(t)
        /\ sess'[t].pc = "destroy.removed" => RemoveTree(t)
<1>1. PICK s \in Sessions :
        \/ \E k \in Leases : BeginRevoke(s, k)
        \/ \E l \in Labs : BeginDestroy(s, l)
        \/ BeginPass(s) \/ Continue(s) \/ Abort(s)
  <2>1. /\ ~UNCHANGED vars
        /\ \A s \in Sessions, k \in Leases : ~IssueLease(s, k)
        /\ \A s \in Sessions, r \in Runs : ~CreateRun(s, r)
        /\ \A l \in Labs : ~MarkDestroying(l)
        /\ \A x \in Leases \cup Runs : ~TimePasses(x)
    BY DEF vars, IssueLease, CreateRun, MarkDestroying, TimePasses
  <2> QED
    BY <2>1 DEF Next
<1>2. sess \in [Sessions -> SessionState]
  BY DEF TypeOK
<1>3. \A u \in Sessions \ {s} : sess'[u] = sess[u]
  <2>1. CASE \E k \in Leases : BeginRevoke(s, k)
    BY <1>2, <2>1 DEF BeginRevoke, Load
  <2>2. CASE \E l \in Labs : BeginDestroy(s, l)
    BY <1>2, <2>2 DEF BeginDestroy, Load
  <2>3. CASE BeginPass(s)
    BY <1>2, <2>3 DEF BeginPass, Load
  <2>4. CASE Finish(s)
    BY <1>2, <2>4 DEF Finish
  <2>5. CASE RemoveTree(s)
    BY <1>2, <2>5 DEF RemoveTree
  <2>6. CASE RetryDestroying(s)
    BY <1>2, <2>6 DEF RetryDestroying
  <2> QED
    BY <1>1, <2>1, <2>2, <2>3, <2>4, <2>5, <2>6
    DEF Continue, CommitRevoke, CommitDestroy, CommitPass, Abort
<1>4. s = t
  BY <1>3
<1>5. CASE Finish(s)
  BY <1>2, <1>5, <1>4 DEF Finish, Idle
<1>6. ASSUME NEW k \in Leases, BeginRevoke(s, k)
      PROVE sess'[t].pc = "revoke.loaded"
  BY <1>2, <1>4, <1>6 DEF BeginRevoke, Load
<1>7. ASSUME NEW l \in Labs, BeginDestroy(s, l)
      PROVE sess'[t].pc = "destroy.loaded"
  BY <1>2, <1>4, <1>7 DEF BeginDestroy, Load
<1>8. CASE BeginPass(s)
  BY <1>2, <1>4, <1>8 DEF BeginPass, Load
<1>9. CASE RemoveTree(s)
  <2>1. sess[s] \in [pc: {"destroy.loaded", "destroy.removed"}, lab: Labs]
    BY <1>2, <1>4, <1>9, SessionShape DEF RemoveTree
  <2> QED
    BY <1>2, <1>4, <1>9, <2>1 DEF RemoveTree
<1>10. CASE RetryDestroying(s)
  <2>1. sess[s] \in [pc: {"pass.loaded", "pass.retried"}, labs: [Labs -> LabRow],
                     leases: SUBSET Leases, runs: SUBSET Runs,
                     removed: SUBSET Labs, kept: SUBSET Labs]
    BY <1>2, <1>4, <1>10, SessionShape DEF RetryDestroying
  <2>2. sess'[t].pc = "pass.retried"
    BY <1>2, <1>4, <1>10, <2>1 DEF RetryDestroying
  <2> QED
    BY <1>10, <1>4, <2>2
<1> QED
  BY <1>1, <1>4, <1>5, <1>6, <1>7, <1>8, <1>9, <1>10
  DEF Continue, CommitRevoke, CommitDestroy, CommitPass, Abort

LEMMA TypeStep == TypeOK /\ [Next]_vars => TypeOK'
<1> SUFFICES ASSUME TypeOK, [Next]_vars PROVE TypeOK'
  OBVIOUS
<1> USE DEF TypeOK
<1>0. ASSUME NEW s \in Sessions PROVE Finish(s) => sess' \in [Sessions -> SessionState]
  BY DEF Finish, SessionState
<1>1. ASSUME NEW s \in Sessions, NEW k \in Leases, IssueLease(s, k) PROVE TypeOK'
  BY <1>1 DEF IssueLease, Record, LeaseRow, EventType
<1>2. ASSUME NEW s \in Sessions, NEW k \in Leases, BeginRevoke(s, k) PROVE TypeOK'
  BY <1>2 DEF BeginRevoke, Load, SessionState
<1>3. ASSUME NEW s \in Sessions, NEW r \in Runs, CreateRun(s, r) PROVE TypeOK'
  BY <1>3 DEF CreateRun, Record, RunRow, RunState, EventType
<1>4. ASSUME NEW s \in Sessions, NEW l \in Labs, BeginDestroy(s, l) PROVE TypeOK'
  BY <1>4 DEF BeginDestroy, Load, SessionState
<1>5. ASSUME NEW s \in Sessions, BeginPass(s) PROVE TypeOK'
  <2>1. sess' \in [Sessions -> SessionState]
    BY <1>5 DEF BeginPass, Load, SessionState
  <2> QED
    BY <1>5, <2>1 DEF BeginPass
<1>6. ASSUME NEW s \in Sessions, CommitRevoke(s) PROVE TypeOK'
  <2>1. sess[s].lease \in Leases
    BY <1>6, SessionShape DEF CommitRevoke
  <2> QED
    BY <1>0, <1>6, <2>1 DEF CommitRevoke, Record, LeaseRow, EventType
<1>7. ASSUME NEW s \in Sessions, RemoveTree(s) PROVE TypeOK'
  <2>1. sess[s] \in [pc: {"destroy.loaded", "destroy.removed"}, lab: Labs]
    BY <1>7, SessionShape DEF RemoveTree
  <2> QED
    BY <1>7, <2>1 DEF RemoveTree, SessionState
<1>8. ASSUME NEW s \in Sessions, CommitDestroy(s) PROVE TypeOK'
  <2>1. sess[s].lab \in Labs
    BY <1>8, SessionShape DEF CommitDestroy
  <2>2. lab' \in [Labs -> LabRow]
    BY <1>8, <2>1 DEF CommitDestroy, LabRow
  <2> QED
    BY <1>0, <1>8, <2>1, <2>2 DEF CommitDestroy, Record, EventType
<1>9. ASSUME NEW s \in Sessions, RetryDestroying(s) PROVE TypeOK'
  <2>1. sess[s] \in [pc: {"pass.loaded", "pass.retried"}, labs: [Labs -> LabRow],
                     leases: SUBSET Leases, runs: SUBSET Runs,
                     removed: SUBSET Labs, kept: SUBSET Labs]
    BY <1>9, SessionShape DEF RetryDestroying
  <2>2. PICK kept \in SUBSET Labs, removed \in SUBSET Labs :
          /\ tree' = tree \ removed
          /\ sess' = [sess EXCEPT ![s].pc = "pass.retried",
                                  ![s].removed = removed, ![s].kept = kept]
    BY <1>9 DEF RetryDestroying, DestroyingLabs
  <2>3. sess'[s] \in [pc: {"pass.loaded", "pass.retried"}, labs: [Labs -> LabRow],
                      leases: SUBSET Leases, runs: SUBSET Runs,
                      removed: SUBSET Labs, kept: SUBSET Labs]
    BY <2>1, <2>2
  <2>4. sess' \in [Sessions -> SessionState]
    BY <2>2, <2>3 DEF SessionState
  <2> QED
    BY <1>9, <2>2, <2>4 DEF RetryDestroying
<1>10. ASSUME NEW s \in Sessions, CommitPass(s) PROVE TypeOK'
  <2>1. /\ sess[s].removed \subseteq Labs /\ sess[s].kept \subseteq Labs
        /\ sess[s].leases \subseteq Leases /\ sess[s].runs \subseteq Runs
    BY <1>10, PassShape DEF CommitPass, Passing
  <2>2. lab' \in [Labs -> LabRow]
    BY <1>10, PassedRow DEF CommitPass
  <2>3. PassEvents(s) \subseteq EventType \X (Labs \cup Leases \cup Runs)
    BY <2>1 DEF PassEvents, GivesUp, MissingRoot, EventType
  <2> QED
    BY <1>0, <1>10, <2>2, <2>3 DEF CommitPass, Record, LeaseRow, RunRow, RunState
<1>11. ASSUME NEW l \in Labs, MarkDestroying(l) PROVE TypeOK'
  <2>1. lab' \in [Labs -> LabRow]
    BY <1>11 DEF MarkDestroying, LabRow
  <2> QED
    BY <1>11, <2>1 DEF MarkDestroying
<1>12. ASSUME NEW x \in Leases \cup Runs, TimePasses(x) PROVE TypeOK'
  BY <1>12 DEF TimePasses
<1>13. ASSUME NEW s \in Sessions, Abort(s) PROVE TypeOK'
  BY <1>0, <1>13 DEF Abort
<1>14. CASE UNCHANGED vars
  BY <1>14 DEF vars
<1> QED
  BY <1>1, <1>2, <1>3, <1>4, <1>5, <1>6, <1>7, <1>8, <1>9, <1>10, <1>11, <1>12,
     <1>13, <1>14 DEF Next, Continue

\* What a pass commits is within the budget, and no lab goes back to live or to
\* destroying.
LEMMA CommittedRow ==
  ASSUME IndInv, NEW s \in Sessions, CommitPass(s), NEW l \in Labs
  PROVE /\ lab'[l].destroy_attempts <= MaxDestroyAttempts
        /\ lab'[l].state = "live" =>
             /\ lab[l].state = "live"
             /\ lab'[l].destroy_attempts = 0 /\ ~lab'[l].last_destroy_error
        /\ lab'[l].state = "destroying" =>
             /\ lab[l].state = "destroying"
             /\ lab'[l].destroy_attempts < MaxDestroyAttempts
             /\ lab'[l].last_destroy_error <=> lab'[l].destroy_attempts > 0
             /\ lab[l].last_destroy_error => lab'[l].last_destroy_error
<1>1. /\ TypeOK /\ PassWellFounded(s, l)
      /\ lab[l].destroy_attempts \in Nat
      /\ sess[s].labs[l].destroy_attempts \in Nat
  <2>1. TypeOK /\ PassWellFounded(s, l) /\ Passing(s)
    BY DEF IndInv, CommitPass, Passing
  <2> QED
    BY <2>1, PassShape DEF TypeOK, LabRow
<1>2. CASE l \notin sess[s].removed \cup sess[s].kept
  BY <1>1, <1>2, PassedUnretried DEF IndInv, RetryBudgetKept, AttemptsWellFounded
<1>3. ASSUME l \in sess[s].removed \cup sess[s].kept
      PROVE sess[s].labs[l].destroy_attempts + 1 <= MaxDestroyAttempts
  BY <1>1, <1>3, MaintenanceAssumption DEF PassWellFounded
<1>4. CASE l \in sess[s].removed
  BY <1>1, <1>3, <1>4, PassedRemoved
<1>5. CASE l \in sess[s].kept
  <2>1. lab[l].state # "live"
    BY <1>1, <1>5 DEF PassWellFounded
  <2>2. /\ lab'[l].destroy_attempts = sess[s].labs[l].destroy_attempts + 1
        /\ \/ lab'[l].state = "failed"
           \/ /\ lab'[l].state = lab[l].state
              /\ sess[s].labs[l].destroy_attempts + 1 < MaxDestroyAttempts
    BY <1>1, <1>5, PassedKept
  <2>3. lab[l].state = "destroying" => lab'[l].last_destroy_error = TRUE
    <3>1. lab[l].last_destroy_error \in BOOLEAN
      BY <1>1 DEF TypeOK, LabRow
    <3> QED
      BY <1>1, <1>5, <3>1, PassedKept DEF PassWellFounded
  <2> QED
    BY <1>1, <1>3, <1>5, <2>1, <2>2, <2>3
<1> QED
  BY <1>2, <1>4, <1>5

\* The same of every step.
LEMMA RowStep ==
  ASSUME IndInv, [Next]_vars, NEW l \in Labs
  PROVE /\ lab'[l].destroy_attempts <= MaxDestroyAttempts
        /\ lab'[l].state = "live" =>
             /\ lab[l].state = "live"
             /\ lab'[l].destroy_attempts = 0 /\ ~lab'[l].last_destroy_error
        /\ lab'[l].state = "destroying" =>
             /\ lab[l].state \in {"live", "destroying"}
             /\ lab'[l].destroy_attempts < MaxDestroyAttempts
             /\ lab'[l].last_destroy_error <=> lab'[l].destroy_attempts > 0
             /\ lab[l].last_destroy_error => lab'[l].last_destroy_error
<1>0. /\ TypeOK /\ RetryBudgetKept /\ AttemptsWellFounded
      /\ lab[l] \in LabRow /\ lab \in [Labs -> LabRow]
      /\ lab[l].destroy_attempts \in Nat
  BY DEF IndInv, TypeOK, LabRow
<1>1. CASE lab'[l] = lab[l]
  BY <1>0, <1>1 DEF RetryBudgetKept, AttemptsWellFounded
<1>2. ASSUME NEW s \in Sessions, CommitDestroy(s), lab'[l] # lab[l]
      PROVE /\ lab'[l].state = "destroyed"
            /\ lab'[l].destroy_attempts = lab[l].destroy_attempts
  <2>1. sess[s].lab = l
    BY <1>0, <1>2 DEF CommitDestroy
  <2> QED
    BY <1>0, <1>2, <2>1 DEF CommitDestroy, LabRow
<1>3. ASSUME NEW k \in Labs, MarkDestroying(k), lab'[l] # lab[l]
      PROVE /\ lab[l].state = "live" /\ lab'[l].state = "destroying"
            /\ lab'[l].destroy_attempts = lab[l].destroy_attempts
            /\ lab'[l].last_destroy_error = lab[l].last_destroy_error
  <2>1. k = l
    BY <1>0, <1>3 DEF MarkDestroying
  <2> QED
    BY <1>0, <1>3, <2>1 DEF MarkDestroying, LabRow
<1>4. CASE \E s \in Sessions : CommitPass(s)
  BY <1>4, CommittedRow
<1>5. CASE lab'[l] # lab[l] /\ \E s \in Sessions : CommitDestroy(s)
  BY <1>0, <1>2, <1>5 DEF RetryBudgetKept
<1>6. CASE lab'[l] # lab[l] /\ \E k \in Labs : MarkDestroying(k)
  BY <1>0, <1>3, <1>6, MaintenanceAssumption DEF AttemptsWellFounded
<1> QED
  BY <1>1, <1>4, <1>5, <1>6, LabWriters

\* A pass stays within what it loaded: when it loads and when it retries it
\* sees the database, and afterwards the rows only move on.
LEMMA PassStep ==
  ASSUME IndInv, [Next]_vars, NEW t \in Sessions, NEW l \in Labs, Passing(t)'
  PROVE PassWellFounded(t, l)'
<1>0. /\ TypeOK /\ RetryBudgetKept /\ AttemptsWellFounded
      /\ sess \in [Sessions -> SessionState]
      /\ Passing(t) => PassWellFounded(t, l)
  BY DEF IndInv, TypeOK
<1>1. CASE sess'[t] = sess[t]
  <2>1. PassWellFounded(t, l)
    BY <1>0, <1>1 DEF Passing
  <2>2. tree' \subseteq tree
    BY <1>0, TreeShrinks
  <2> QED
    BY <1>1, <2>1, <2>2, RowStep DEF PassWellFounded
<1>2. CASE BeginPass(t)
  <2>1. /\ sess'[t].labs = lab
        /\ sess'[t].removed = {} /\ sess'[t].kept = {}
        /\ UNCHANGED <<lab, tree>>
    BY <1>0, <1>2 DEF BeginPass, Load
  <2> QED
    BY <1>0, <2>1 DEF PassWellFounded, RetryBudgetKept, AttemptsWellFounded
<1>3. CASE RetryDestroying(t)
  <2>1. sess[t] \in [pc: {"pass.loaded", "pass.retried"}, labs: [Labs -> LabRow],
                     leases: SUBSET Leases, runs: SUBSET Runs,
                     removed: SUBSET Labs, kept: SUBSET Labs]
    BY <1>0, <1>3, SessionShape DEF RetryDestroying
  <2>2. PICK kept \in SUBSET (DestroyingLabs(t) \cap tree) :
          /\ tree' = tree \ (DestroyingLabs(t) \ kept)
          /\ sess' = [sess EXCEPT ![t].pc = "pass.retried",
                                  ![t].removed = DestroyingLabs(t) \ kept,
                                  ![t].kept = kept]
    BY <1>3 DEF RetryDestroying
  <2>3. /\ sess'[t].labs = sess[t].labs
        /\ sess'[t].removed = DestroyingLabs(t) \ kept
        /\ sess'[t].kept = kept
        /\ UNCHANGED lab
    BY <1>0, <1>3, <2>1, <2>2 DEF RetryDestroying
  <2>4. PassWellFounded(t, l)
    BY <1>0, <1>3 DEF RetryDestroying, Passing
  <2>5. l \in sess'[t].removed \cup sess'[t].kept => lab[l].state = "destroying"
    BY <2>2, <2>3 DEF DestroyingLabs
  <2> QED
    BY <2>2, <2>3, <2>4, <2>5 DEF PassWellFounded
<1> QED
  BY <1>0, <1>1, <1>2, <1>3, SessionStep DEF Passing

\* Storage that destroy_lab removed is still gone when it commits.
LEMMA DestroyStep ==
  ASSUME IndInv, [Next]_vars, NEW t \in Sessions, sess'[t].pc = "destroy.removed"
  PROVE sess'[t].lab \notin tree'
<1>0. TypeOK /\ sess \in [Sessions -> SessionState]
  BY DEF IndInv, TypeOK
<1>1. CASE sess'[t] = sess[t]
  BY <1>0, <1>1, TreeShrinks DEF IndInv
<1>2. CASE RemoveTree(t)
  <2>1. sess[t] \in [pc: {"destroy.loaded", "destroy.removed"}, lab: Labs]
    BY <1>0, <1>2, SessionShape DEF RemoveTree
  <2> QED
    BY <1>0, <1>2, <2>1 DEF RemoveTree
<1> QED
  BY <1>0, <1>1, <1>2, SessionStep

LEMMA IndInvStep == IndInv /\ [Next]_vars => IndInv'
<1> SUFFICES ASSUME IndInv, [Next]_vars PROVE IndInv'
  OBVIOUS
<1>1. TypeOK'
  BY TypeStep DEF IndInv
<1>2. RetryBudgetKept' /\ AttemptsWellFounded'
  BY RowStep DEF RetryBudgetKept, AttemptsWellFounded
<1>3. \A s \in Sessions, l \in Labs : Passing(s)' => PassWellFounded(s, l)'
  BY PassStep
<1>4. \A s \in Sessions : sess'[s].pc = "destroy.removed" => sess'[s].lab \notin tree'
  BY DestroyStep
<1> QED
  BY <1>1, <1>2, <1>3, <1>4 DEF IndInv

LEMMA IndInvInit == Init => IndInv
<1> SUFFICES ASSUME Init PROVE IndInv
  OBVIOUS
<1>1. TypeOK
  BY DEF Init, TypeOK, LabRow, LeaseRow, RunRow, SessionState
<1>2. RetryBudgetKept /\ AttemptsWellFounded
  BY MaintenanceAssumption DEF Init, RetryBudgetKept, AttemptsWellFounded
<1>3. \A s \in Sessions : sess[s].pc = "idle"
  BY DEF Init, Idle
<1> QED
  BY <1>1, <1>2, <1>3 DEF IndInv, Passing

-----------------------------------------------------------------------------
(* Events *)

\* A commit writes its events with its rows.
LEMMA AuditStep == TypeOK /\ ClosuresAreAudited /\ [Next]_vars => ClosuresAreAudited'
<1> SUFFICES ASSUME TypeOK, ClosuresAreAudited, [Next]_vars PROVE ClosuresAreAudited'
  OBVIOUS
<1>0. ASSUME NEW types, NEW r, Recorded(types, r) PROVE Recorded(types, r)'
  <2>1. audit \subseteq audit'
    BY DEF Next, vars, Continue, IssueLease, BeginRevoke, CreateRun, BeginDestroy,
           BeginPass, CommitRevoke, RemoveTree, RetryDestroying, Abort, TimePasses,
           CommitDestroy, CommitPass, MarkDestroying, Record
  <2> QED
    BY <1>0, <2>1 DEF Recorded
<1>1. ASSUME NEW k \in Leases, lease'[k] = "revoked"
      PROVE Recorded({"secret_lease.revoked", "secret_lease.expired"}, k)'
  <2>1. CASE lease[k] = "revoked"
    BY <1>0, <2>1 DEF ClosuresAreAudited
  <2>2. ASSUME NEW s \in Sessions, CommitRevoke(s), lease[k] # "revoked"
        PROVE <<"secret_lease.revoked", k>> \in audit'
    <3>1. sess[s].lease = k
      BY <1>1, <2>2 DEF CommitRevoke, TypeOK
    <3> QED
      BY <2>2, <3>1 DEF CommitRevoke, Record
  <2>3. ASSUME NEW s \in Sessions, CommitPass(s), lease[k] # "revoked"
        PROVE <<"secret_lease.expired", k>> \in audit'
    <3>1. k \in sess[s].leases
      BY <1>1, <2>3 DEF CommitPass
    <3> QED
      BY <2>3, <3>1 DEF CommitPass, PassEvents, Record
  <2>4. ASSUME NEW s \in Sessions, NEW j \in Leases, IssueLease(s, j)
        PROVE lease[k] = "revoked"
    BY <1>1, <2>4 DEF IssueLease, TypeOK
  <2>5. \/ UNCHANGED lease
        \/ \E s \in Sessions : CommitRevoke(s) \/ CommitPass(s)
        \/ \E s \in Sessions, j \in Leases : IssueLease(s, j)
    BY DEF Next, vars, Continue, BeginRevoke, CreateRun, BeginDestroy, BeginPass,
           RemoveTree, RetryDestroying, Abort, TimePasses, CommitDestroy,
           MarkDestroying
  <2> QED
    BY <1>1, <2>1, <2>2, <2>3, <2>4, <2>5 DEF Recorded
<1>2. ASSUME NEW r \in Runs, run'[r] = "timed_out"
      PROVE Recorded({"run.timed_out"}, r)'
  <2>1. CASE run[r] = "timed_out"
    BY <1>0, <2>1 DEF ClosuresAreAudited
  <2>2. ASSUME NEW s \in Sessions, CommitPass(s), run[r] # "timed_out"
        PROVE <<"run.timed_out", r>> \in audit'
    <3>1. r \in sess[s].runs
      BY <1>2, <2>2 DEF CommitPass
    <3> QED
      BY <2>2, <3>1 DEF CommitPass, PassEvents, Record
  <2>3. ASSUME NEW s \in Sessions, NEW q \in Runs, CreateRun(s, q)
        PROVE run[r] = "timed_out"
    BY <1>2, <2>3 DEF CreateRun, TypeOK
  <2>4. \/ UNCHANGED run
        \/ \E s \in Sessions : CommitPass(s)
        \/ \E s \in Sessions, q \in Runs : CreateRun(s, q)
    BY DEF Next, vars, Continue, BeginRevoke, IssueLease, BeginDestroy, BeginPass,
           RemoveTree, RetryDestroying, Abort, TimePasses, CommitDestroy,
           MarkDestroying, CommitRevoke
  <2> QED
    BY <1>2, <2>1, <2>2, <2>3, <2>4 DEF Recorded
<1>3. ASSUME NEW l \in Labs, lab'[l].state \in {"destroyed", "failed"},
             lab'[l].state # lab[l].state
      PROVE \/ /\ lab'[l].state = "destroyed"
               /\ <<"lab.destroyed", l>> \in audit'
            \/ /\ lab'[l].state = "failed"
               /\ \/ <<"lab.destroy_failed", l>> \in audit'
                  \/ <<"lab.reconciliation_failed", l>> \in audit'
  <2>1. ASSUME NEW s \in Sessions, CommitDestroy(s)
        PROVE lab'[l].state = "destroyed" /\ <<"lab.destroyed", l>> \in audit'
    <3>1. sess[s].lab = l
      BY <1>3, <2>1 DEF CommitDestroy, TypeOK
    <3>2. lab'[l].state = "destroyed"
      BY <2>1, <3>1 DEF CommitDestroy, TypeOK, LabRow
    <3> QED
      BY <2>1, <3>1, <3>2 DEF CommitDestroy, Record
  <2>2. ASSUME NEW s \in Sessions, CommitPass(s)
        PROVE \/ /\ lab'[l].state = "destroyed"
                 /\ <<"lab.destroyed", l>> \in audit'
              \/ /\ lab'[l].state = "failed"
                 /\ \/ <<"lab.destroy_failed", l>> \in audit'
                    \/ <<"lab.reconciliation_failed", l>> \in audit'
    <3>1. /\ lab'[l].state = PassedLab(s, l).state
          /\ lab'[l].state # sess[s].labs[l].state
      BY <1>3, <2>2, PassedRow DEF Net
    <3>2. \/ lab'[l].state = "destroyed" /\ l \in sess[s].removed
          \/ lab'[l].state = "failed" /\ l \in GivesUp(s) \cup MissingRoot(s)
      BY <3>1 DEF PassedLab, StateAfterRetry
    <3>3. PassEvents(s) \subseteq audit'
      BY <2>2 DEF CommitPass, Record
    <3> QED
      BY <3>2, <3>3 DEF PassEvents
  <2>3. ASSUME NEW k \in Labs, MarkDestroying(k) PROVE FALSE
    BY <1>3, <2>3 DEF MarkDestroying, TypeOK, LabRow
  <2> QED
    BY <1>3, <2>1, <2>2, <2>3, LabWriters
<1>4. ASSUME NEW l \in Labs
      PROVE /\ lab'[l].state = "destroyed" => Recorded({"lab.destroyed"}, l)'
            /\ lab'[l].state = "failed" =>
                 Recorded({"lab.destroy_failed", "lab.reconciliation_failed"}, l)'
  <2>1. CASE lab'[l].state = lab[l].state
    BY <1>0, <2>1 DEF ClosuresAreAudited
  <2>2. CASE lab'[l].state # lab[l].state
    BY <1>3, <2>2 DEF Recorded
  <2> QED
    BY <2>1, <2>2
<1> QED
  BY <1>1, <1>2, <1>4 DEF ClosuresAreAudited

-----------------------------------------------------------------------------
(* The theorems *)

\* Every reachable state satisfies the invariant.
THEOREM Inductive == Spec => []IndInv
  BY IndInvInit, IndInvStep, PTL DEF Spec

\* The rows, the files, the events and the sessions keep their types.
THEOREM TypeCorrect == Spec => []TypeOK
<1>1. IndInv => TypeOK
  BY DEF IndInv
<1> QED
  BY <1>1, Inductive, PTL

\* However many passes of reconcile overlap, abort or repeat, no lab is retried
\* beyond max_destroy_attempts, whatever that is.
THEOREM BudgetIsKept == Spec => []RetryBudgetKept
<1>1. IndInv => RetryBudgetKept
  BY DEF IndInv
<1> QED
  BY <1>1, Inductive, PTL

\* No lease is revoked, no run timed out and no lab destroyed or failed without
\* an event that says so.
THEOREM ClosuresHaveEvents == Spec => []ClosuresAreAudited
<1>1. Init => ClosuresAreAudited
  BY DEF Init, ClosuresAreAudited
<1> QED
  BY <1>1, AuditStep, TypeCorrect, PTL DEF Spec

\* Neither the reconciler nor destroy_lab marks a lab destroyed while its
\* storage exists, and a lab in destroying carries an error exactly when an
\* attempt was made.
THEOREM RetriesAreAccounted == Spec => RetriesAreAccountedFor
<1> DEFINE Step == \A l \in Labs :
       /\ lab[l].state # "destroyed" /\ lab'[l].state = "destroyed" => l \notin tree'
       /\ lab'[l].state = "destroying" =>
            (lab'[l].last_destroy_error <=> lab'[l].destroy_attempts > 0)
<1>1. IndInv /\ [Next]_vars => Step
  <2> SUFFICES ASSUME IndInv, [Next]_vars, NEW l \in Labs
               PROVE /\ lab[l].state # "destroyed" /\ lab'[l].state = "destroyed"
                        => l \notin tree'
                     /\ lab'[l].state = "destroying" =>
                          (lab'[l].last_destroy_error
                             <=> lab'[l].destroy_attempts > 0)
    OBVIOUS
  <2>0. TypeOK
    BY DEF IndInv
  <2>1. ASSUME lab[l].state # "destroyed", lab'[l].state = "destroyed"
        PROVE l \notin tree'
    <3>1. ASSUME NEW s \in Sessions, CommitDestroy(s) PROVE l \notin tree'
      <4>1. sess[s].lab = l
        BY <2>0, <2>1, <3>1 DEF CommitDestroy, TypeOK
      <4> QED
        BY <3>1, <4>1 DEF CommitDestroy, IndInv
    <3>2. ASSUME NEW s \in Sessions, CommitPass(s) PROVE l \notin tree'
      <4>1. PassWellFounded(s, l)
        BY <3>2 DEF IndInv, CommitPass, Passing
      <4>2. l \in sess[s].removed
        BY <2>0, <2>1, <3>2, <4>1, PassedUnretried, PassedKept
      <4> QED
        BY <3>2, <4>1, <4>2 DEF PassWellFounded, CommitPass
    <3>3. ASSUME NEW k \in Labs, MarkDestroying(k) PROVE FALSE
      BY <2>0, <2>1, <3>3 DEF MarkDestroying, TypeOK, LabRow
    <3> QED
      BY <2>1, <3>1, <3>2, <3>3, LabWriters
  <2> QED
    BY <2>1, RowStep
<1> QED
  BY <1>1, Inductive, PTL DEF Spec, RetriesAreAccountedFor
=============================================================================
