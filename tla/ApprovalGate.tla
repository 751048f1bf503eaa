---------------------------- MODULE ApprovalGate ----------------------------
(***************************************************************************)
(* What the control plane promises about approvals, without rows, files or *)
(* sessions.  A lab or an export is submitted, either free or gated; one   *)
(* that is gated passes (the lab may start, the export leaves quarantine)  *)
(* only after it was granted; and it may be withdrawn at any time.         *)
(***************************************************************************)
CONSTANT Resources  \* labs and exports

VARIABLES
  gate,     \* none (not submitted), free or gated
  granted,  \* resources somebody approved
  passed    \* resources that are past their gate

vars == <<gate, granted, passed>>

Init ==
  /\ gate = [r \in Resources |-> "none"]
  /\ granted = {}
  /\ passed = {}

\* A free resource may pass at once.
Submit(r) ==
  /\ gate[r] = "none"
  /\ \/ gate' = [gate EXCEPT ![r] = "free"] /\ passed' \in {passed, passed \cup {r}}
     \/ gate' = [gate EXCEPT ![r] = "gated"] /\ UNCHANGED passed
  /\ UNCHANGED granted

\* A grant may let the resource pass at once, or take back an earlier pass.
Grant(r) ==
  /\ gate[r] = "gated"
  /\ granted' = granted \cup {r}
  /\ passed' \in {passed \ {r}, passed \cup {r}}
  /\ UNCHANGED gate

Pass(r) ==
  /\ gate[r] = "free" \/ r \in granted
  /\ passed' = passed \cup {r}
  /\ UNCHANGED <<gate, granted>>

\* Labs fail and are destroyed, with the exports that have left them.
Withdraw ==
  /\ passed' \subseteq passed
  /\ UNCHANGED <<gate, granted>>

Next ==
  \/ \E r \in Resources : Submit(r) \/ Grant(r) \/ Pass(r)
  \/ Withdraw

Spec == Init /\ [][Next]_vars
=============================================================================
