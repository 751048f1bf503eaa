----------------------------- MODULE Lifecycle -----------------------------
(***************************************************************************)
(* The lifecycle vocabulary of LabOS (labos/core/enums.py) and, as data,   *)
(* the tables of labos/core/state_machine.py that properties of the other  *)
(* modules compare what the handlers do with.  No handler of the control   *)
(* plane consults the tables: docs/architecture.md says that they are the  *)
(* contract all layers share.                                              *)
(***************************************************************************)

LabState == {"requested", "pending_approval", "approved", "provisioning",
             "running", "stopped", "failed", "destroying", "destroyed",
             "archived"}

ApprovalState == {"requested", "approved", "rejected", "expired"}

RunState == {"queued", "starting", "running", "completed", "failed",
             "cancelled", "timed_out"}

ExportState == {"requested", "quarantined", "approved", "released", "rejected"}

SchedulerJobState == {"queued", "dispatched", "succeeded", "failed"}

APPROVAL_TRANSITIONS ==
  [requested |-> {"approved", "rejected", "expired"},
   approved  |-> {},
   rejected  |-> {},
   expired   |-> {}]

EXPORT_TRANSITIONS ==
  [requested   |-> {"quarantined", "rejected"},
   quarantined |-> {"approved", "rejected"},
   approved    |-> {"released"},
   released    |-> {},
   rejected    |-> {}]

\* can_transition_approval and can_transition_export.
CanTransition(table, current, target) == target \in table[current]

\* The states a table leaves no way out of.
Terminal(table) == {state \in DOMAIN table : table[state] = {}}
=============================================================================
