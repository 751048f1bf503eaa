--------------------------- MODULE GovernanceGate ---------------------------
(***************************************************************************)
(* Governance implements ApprovalGate: the rows, the files and the audit   *)
(* trail, seen as a gate.                                                  *)
(***************************************************************************)
EXTENDS Governance

\* A lab is gated if an approval was requested for it or its profile asks for
\* one, an export if its profile does.
GateOf(r) ==
  CASE Outcome(r) = "none" -> "none"
    [] r \in Labs /\ Outcome(r) # "none" ->
         IF apRow[r].state # "none" \/ ProfileOf(r).approval_on_start
         THEN "gated" ELSE "free"
    [] r \in Exports /\ Outcome(r) # "none" ->
         IF NeedsApproval(r) THEN "gated" ELSE "free"

Granted == {r \in Resources : Approved(r)}

\* An approved lab; an export that is marked released or whose copy is out.
Passed ==
  {l \in Labs : labRow[l].state = "approved"}
    \cup {e \in Exports : /\ exRow[e].state # "none"
                          /\ exRow[e].state = "released" \/ Copy(e) \in released}

Gates == [r \in Resources |-> GateOf(r)]

Gate == INSTANCE ApprovalGate WITH
          gate <- Gates,
          granted <- Granted,
          passed <- Passed

\* Every behaviour of the handlers and the reconciler, however their sessions
\* interleave and fail, is one of the gate: a resource is submitted once, stays
\* free or gated, and passes only free or granted; a decision, an expiry, a
\* removal or a stale write never lets through anything else.
ImplementsGate == Gate!Spec

\* What the refinement needs besides IndInv of Governance: an approval is
\* requested only for an export whose profile asks for one.
RequestedExportsNeedApproval ==
  \A e \in Exports : apRow[e].state # "none" => NeedsApproval(e)
=============================================================================
