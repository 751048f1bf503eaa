---------------------------- MODULE Maintenance ----------------------------
(***************************************************************************)
(* What ReconciliationService.reconcile does besides expiring approvals:   *)
(* it revokes secret leases whose time is up, times out overdue runs,      *)
(* retries the destruction of labs left in destroying and fails labs whose *)
(* storage is gone; together with the requests that issue and revoke       *)
(* leases, record runs and destroy labs.                                   *)
(*                                                                         *)
(* Sessions load, act on the disk and commit as in Governance.  A lease    *)
(* request that the profile's allowlist or the broker refuses changes      *)
(* nothing and is not an action.                                           *)
(***************************************************************************)
EXTENDS Lifecycle, Naturals

CONSTANTS
  Labs,               \* labs that exist, with their storage
  Leases,             \* lease ids a request may draw
  Runs,               \* run ids a request may draw
  Sessions,           \* concurrent requests and reconciliation passes
  MaxDestroyAttempts  \* max_destroy_attempts of the reconciler

ASSUME MaintenanceAssumption == MaxDestroyAttempts \in Nat \ {0}

VARIABLES
  lab,    \* LabRow, by id
  tree,   \* labs whose storage root exists
  lease,  \* SecretLeaseRow, by id
  run,    \* RunRow, by id
  due,    \* leases and runs whose expires_at or timeout_at has passed
  audit,  \* the EventRows, as <<event_type, resource>>
  sess    \* what each session has loaded and done

vars == <<lab, tree, lease, run, due, audit, sess>>

\* live: any state but these three.
LabRow ==
  [state: {"live", "destroying", "destroyed", "failed"},
   destroy_attempts: Nat, last_destroy_error: BOOLEAN]

\* open: revoked_at is NULL.
LeaseRow == {"none", "open", "revoked"}

RunRow == RunState \cup {"none"}

EventType == {"lab.destroyed", "lab.destroy_retry_failed", "lab.destroy_failed",
              "lab.reconciliation_failed", "secret_lease.issued",
              "secret_lease.revoked", "secret_lease.expired", "run.queued",
              "run.timed_out"}

Idle == [pc |-> "idle"]

\* removed: the destroying labs of the pass whose storage it destroyed; kept:
\* those it could not.
SessionState ==
  {Idle}
    \cup [pc: {"destroy.loaded", "destroy.removed"}, lab: Labs]
    \cup [pc: {"revoke.loaded"}, lease: Leases]
    \cup [pc: {"pass.loaded", "pass.retried"}, labs: [Labs -> LabRow],
          leases: SUBSET Leases, runs: SUBSET Runs,
          removed: SUBSET Labs, kept: SUBSET Labs]

TypeOK ==
  /\ lab \in [Labs -> LabRow]
  /\ tree \subseteq Labs
  /\ lease \in [Leases -> LeaseRow]
  /\ run \in [Runs -> RunRow]
  /\ due \subseteq Leases \cup Runs
  /\ audit \subseteq EventType \X (Labs \cup Leases \cup Runs)
  /\ sess \in [Sessions -> SessionState]

Init ==
  /\ lab = [l \in Labs |-> [state |-> "live", destroy_attempts |-> 0,
                            last_destroy_error |-> FALSE]]
  /\ tree = Labs
  /\ lease = [k \in Leases |-> "none"]
  /\ run = [r \in Runs |-> "none"]
  /\ due = {}
  /\ audit = {}
  /\ sess = [s \in Sessions |-> Idle]

Load(s, record) == sess[s] = Idle /\ sess' = [sess EXCEPT ![s] = record]

Finish(s) == sess' = [sess EXCEPT ![s] = Idle]

Record(events) == audit' = audit \cup events

\* SQLAlchemy writes a column only when its new value differs from the one the
\* session loaded.
Net(current, loaded, new) == IF new = loaded THEN current ELSE new

-----------------------------------------------------------------------------
(* Requests *)

\* A new id is written in one transaction that reads nothing it depends on.
IssueLease(s, k) ==
  /\ sess[s] = Idle
  /\ lease[k] = "none"
  /\ lease' = [lease EXCEPT ![k] = "open"]
  /\ Record({<<"secret_lease.issued", k>>})
  /\ UNCHANGED <<lab, tree, run, due, sess>>

BeginRevoke(s, k) ==
  /\ lease[k] = "open"
  /\ Load(s, [pc |-> "revoke.loaded", lease |-> k])
  /\ UNCHANGED <<lab, tree, lease, run, due, audit>>

CommitRevoke(s) ==
  /\ sess[s].pc = "revoke.loaded"
  /\ lease' = [lease EXCEPT ![sess[s].lease] = "revoked"]
  /\ Record({<<"secret_lease.revoked", sess[s].lease>>})
  /\ Finish(s)
  /\ UNCHANGED <<lab, tree, run, due>>

CreateRun(s, r) ==
  /\ sess[s] = Idle
  /\ run[r] = "none"
  /\ run' = [run EXCEPT ![r] = "queued"]
  /\ Record({<<"run.queued", r>>})
  /\ UNCHANGED <<lab, tree, lease, due, sess>>

\* DELETE /labs/{lab_id}.
BeginDestroy(s, l) ==
  /\ lab[l].state # "destroyed"
  /\ Load(s, [pc |-> "destroy.loaded", lab |-> l])
  /\ UNCHANGED <<lab, tree, lease, run, due, audit>>

RemoveTree(s) ==
  /\ sess[s].pc = "destroy.loaded"
  /\ tree' = tree \ {sess[s].lab}
  /\ sess' = [sess EXCEPT ![s].pc = "destroy.removed"]
  /\ UNCHANGED <<lab, lease, run, due, audit>>

CommitDestroy(s) ==
  /\ sess[s].pc = "destroy.removed"
  /\ lab' = [lab EXCEPT ![sess[s].lab].state = "destroyed"]
  /\ Record({<<"lab.destroyed", sess[s].lab>>})
  /\ Finish(s)
  /\ UNCHANGED <<tree, lease, run, due>>

-----------------------------------------------------------------------------
(* A reconciliation pass *)

\* Mutant: only runs that were started are looked at.
ActiveStarted == {"starting", "running"}

\* active_states of _timeout_overdue_runs.
ActiveRunStates == {"queued", "starting", "running"}

BeginPass(s) ==
  /\ Load(s, [pc |-> "pass.loaded", labs |-> lab,
              leases |-> {k \in Leases \cap due : lease[k] = "open"},
              runs |-> {r \in Runs \cap due : run[r] \in ActiveRunStates},
              removed |-> {}, kept |-> {}])
  /\ UNCHANGED <<lab, tree, lease, run, due, audit>>

\* Mutant: a lab is retried once.
NotYetRetried(s) ==
  {l \in Labs : lab[l].state = "destroying" /\ ~lab[l].last_destroy_error}

\* _retry_destroying_labs selects by the state in the database.
DestroyingLabs(s) == {l \in Labs : lab[l].state = "destroying"}

\* StorageDestroyer.destroy removes each tree, or raises and leaves it.
RetryDestroying(s) ==
  /\ sess[s].pc = "pass.loaded"
  /\ \E kept \in SUBSET (DestroyingLabs(s) \cap tree) :
       LET removed == DestroyingLabs(s) \ kept
       IN /\ tree' = tree \ removed
          /\ sess' = [sess EXCEPT ![s].pc = "pass.retried",
                                  ![s].removed = removed, ![s].kept = kept]
  /\ UNCHANGED <<lab, lease, run, due, audit>>

\* Mutant: the budget is compared with >.
GivesUpTooLate(s) ==
  {l \in sess[s].kept : sess[s].labs[l].destroy_attempts + 1 > MaxDestroyAttempts}

\* Labs whose budget the failed attempt of this pass uses up.
GivesUp(s) ==
  {l \in sess[s].kept : sess[s].labs[l].destroy_attempts + 1 >= MaxDestroyAttempts}

\* Mutants: a failed attempt counts as the last one, a failed attempt counts as
\* done.
FailsAtOnce(s, l) ==
  CASE l \in sess[s].removed -> "destroyed"
    [] l \in sess[s].kept -> "failed"
    [] OTHER -> sess[s].labs[l].state

DestroyedAnyway(s, l) ==
  IF l \in sess[s].removed \cup sess[s].kept THEN "destroyed"
                                              ELSE sess[s].labs[l].state

StateAfterRetry(s, l) ==
  CASE l \in sess[s].removed -> "destroyed"
    [] l \in GivesUp(s) -> "failed"
    [] OTHER -> sess[s].labs[l].state

MissingRoot(s) ==
  {l \in Labs \ tree : StateAfterRetry(s, l) # "destroyed"}

\* The row the pass holds in the end; labs that it loaded are not read again.
PassedLab(s, l) ==
  LET old == sess[s].labs[l]
      retried == l \in sess[s].removed \cup sess[s].kept
  IN [state |-> IF l \in MissingRoot(s) THEN "failed" ELSE StateAfterRetry(s, l),
      destroy_attempts |-> IF retried THEN old.destroy_attempts + 1
                                      ELSE old.destroy_attempts,
      last_destroy_error |-> IF retried THEN l \in sess[s].kept
                                        ELSE old.last_destroy_error]

PassEvents(s) ==
  {<<"lab.destroyed", l>> : l \in sess[s].removed}
    \cup {<<"lab.destroy_retry_failed", l>> : l \in sess[s].kept}
    \cup {<<"lab.destroy_failed", l>> : l \in GivesUp(s)}
    \cup {<<"lab.reconciliation_failed", l>> : l \in MissingRoot(s)}
    \cup {<<"secret_lease.expired", k>> : k \in sess[s].leases}
    \cup {<<"run.timed_out", r>> : r \in sess[s].runs}

CommitPass(s) ==
  /\ sess[s].pc = "pass.retried"
  /\ lab' = [l \in Labs |->
               [f \in DOMAIN lab[l] |->
                  Net(lab[l][f], sess[s].labs[l][f], PassedLab(s, l)[f])]]
  /\ lease' = [k \in Leases |-> IF k \in sess[s].leases THEN "revoked" ELSE lease[k]]
  /\ run' = [r \in Runs |-> IF r \in sess[s].runs THEN "timed_out" ELSE run[r]]
  /\ Record(PassEvents(s))
  /\ Finish(s)
  /\ UNCHANGED <<tree, due>>

-----------------------------------------------------------------------------
(* The environment *)

\* Nothing in the repository writes destroying: whoever drives the runtime does.
MarkDestroying(l) ==
  /\ lab[l].state = "live"
  /\ lab' = [lab EXCEPT ![l].state = "destroying"]
  /\ UNCHANGED <<tree, lease, run, due, audit, sess>>

TimePasses(x) ==
  /\ x \notin due
  /\ x \in Leases => lease[x] = "open"
  /\ x \in Runs => run[x] = "queued"
  /\ due' = due \cup {x}
  /\ UNCHANGED <<lab, tree, lease, run, audit, sess>>

\* An exception, a database error or a crash before the commit.
Abort(s) ==
  /\ sess[s] # Idle
  /\ Finish(s)
  /\ UNCHANGED <<lab, tree, lease, run, due, audit>>

Continue(s) ==
  \/ CommitRevoke(s)
  \/ RemoveTree(s) \/ CommitDestroy(s)
  \/ RetryDestroying(s) \/ CommitPass(s)

Next ==
  \/ \E s \in Sessions :
       \/ \E k \in Leases : IssueLease(s, k) \/ BeginRevoke(s, k)
       \/ \E r \in Runs : CreateRun(s, r)
       \/ \E l \in Labs : BeginDestroy(s, l)
       \/ BeginPass(s)
       \/ Continue(s)
       \/ Abort(s)
  \/ \E l \in Labs : MarkDestroying(l)
  \/ \E x \in Leases \cup Runs : TimePasses(x)

Spec == Init /\ [][Next]_vars

\* Passes keep being started (nothing in the repository does it) and do not
\* all fail, and requests come to an end.
Fairness ==
  /\ SF_vars(\E s \in Sessions : BeginPass(s))
  /\ SF_vars(\E s \in Sessions : RetryDestroying(s))
  /\ SF_vars(\E s \in Sessions : CommitPass(s))
  /\ \A s \in Sessions : WF_vars(Continue(s))

FairSpec == Spec /\ Fairness

-----------------------------------------------------------------------------
(* However the sessions interleave and fail *)

\* The reconciler gives up on a lab when its budget is used, not later, even
\* though passes that overlap overwrite each other's count of attempts.
RetryBudgetKept ==
  \A l \in Labs :
    /\ lab[l].destroy_attempts <= MaxDestroyAttempts
    /\ lab[l].state = "destroying" => lab[l].destroy_attempts < MaxDestroyAttempts

Recorded(types, r) == \E t \in types : <<t, r>> \in audit

\* Whatever was revoked, timed out, destroyed or failed has an event that says
\* so, whichever session wrote the row last.
ClosuresAreAudited ==
  /\ \A k \in Leases :
       lease[k] = "revoked" => Recorded({"secret_lease.revoked", "secret_lease.expired"}, k)
  /\ \A r \in Runs : run[r] = "timed_out" => Recorded({"run.timed_out"}, r)
  /\ \A l \in Labs :
       /\ lab[l].state = "destroyed" => Recorded({"lab.destroyed"}, l)
       /\ lab[l].state = "failed" =>
            Recorded({"lab.destroy_failed", "lab.reconciliation_failed"}, l)

\* A lab is marked destroyed only once its storage is gone, by whichever of the
\* reconciler and DELETE, and one that stays in destroying carries the error
\* of an attempt exactly when it has one: a pass that crashes after it removed
\* the tree is made good by the next one.
RetriesAreAccountedFor ==
  [][\A l \in Labs :
       /\ lab[l].state # "destroyed" /\ lab'[l].state = "destroyed" => l \notin tree'
       /\ lab'[l].state = "destroying" =>
            (lab'[l].last_destroy_error <=> lab'[l].destroy_attempts > 0)]_vars

-----------------------------------------------------------------------------
(* Why: what the rows and a pass agree on *)

\* Attempts and errors are of labs that are or were being destroyed.
AttemptsWellFounded ==
  \A l \in Labs :
    /\ lab[l].state = "live" =>
         lab[l].destroy_attempts = 0 /\ ~lab[l].last_destroy_error
    /\ lab[l].state = "destroying" =>
         (lab[l].last_destroy_error <=> lab[l].destroy_attempts > 0)

Passing(s) == sess[s].pc \in {"pass.loaded", "pass.retried"}

\* A row that a pass loaded was within the budget, and the row in the database
\* has not gone back since: no lab returns to live or to destroying.  What the
\* pass retried was being destroyed, and what it removed stays removed.
PassWellFounded(s, l) ==
  LET old == sess[s].labs[l]
  IN /\ old.state = "live" => old.destroy_attempts = 0 /\ ~old.last_destroy_error
     /\ old.state = "destroying" => old.destroy_attempts < MaxDestroyAttempts
     /\ lab[l].state = "live" => old.state = "live"
     /\ lab[l].state = "destroying" =>
          /\ old.state \in {"live", "destroying"}
          /\ old.last_destroy_error => lab[l].last_destroy_error
     /\ l \in sess[s].removed \cup sess[s].kept =>
          old.state \in {"live", "destroying"} /\ lab[l].state # "live"
     /\ l \in sess[s].removed => l \notin tree /\ l \notin sess[s].kept

IndInv ==
  /\ TypeOK
  /\ RetryBudgetKept
  /\ AttemptsWellFounded
  /\ \A s \in Sessions, l \in Labs : Passing(s) => PassWellFounded(s, l)
  /\ \A s \in Sessions : sess[s].pc = "destroy.removed" => sess[s].lab \notin tree

-----------------------------------------------------------------------------
(* In the end, if passes keep running *)

\* A lease or a run whose time is up is revoked or timed out.
OverdueIsClosed ==
  /\ \A k \in Leases : k \in due /\ lease[k] = "open" ~> lease[k] = "revoked"
  /\ \A r \in Runs : r \in due /\ run[r] = "queued" ~> run[r] = "timed_out"

\* A lab does not stay in destroying: it is destroyed, or given up.
DestroyingLabsFinish ==
  \A l \in Labs :
    lab[l].state = "destroying" ~> lab[l].state \in {"destroyed", "failed"}
=============================================================================
