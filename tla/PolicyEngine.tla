---------------------------- MODULE PolicyEngine ----------------------------
(***************************************************************************)
(* PolicyEngine as a service: it is asked about one lab request or one     *)
(* export of a profile, and answers.  It keeps no state between calls, so  *)
(* a behaviour is one call; ProfileNames ranges over every profile that    *)
(* validate_combinations lets through, not only the four that ship.        *)
(***************************************************************************)
EXTENDS Policy

VARIABLES
  profile_name,  \* the profile the call names
  verdict        \* the call and its answer

vars == <<profile_name, verdict>>

profile == Registry[profile_name]

FieldValue(f) ==
  CASE f = "network_mode" -> NetworkMode
    [] f = "runtime_class" -> RuntimeClass
    [] f = "filesystem_mode" -> FilesystemMode
    [] f = "persistence_mode" -> PersistenceMode
    [] f = "export_mode" -> ExportMode
    [] f = "limits" -> Limits

\* Bound: a request overrides one locked field and mounts one host path, at the
\* most (each is checked on its own).
AtMostOne(S) == {{}} \cup {{x} : x \in S}

LockedOverrides ==
  UNION {[fields -> UNION {FieldValue(f) : f \in fields}] :
           fields \in AtMostOne(LockedFields)}

Request ==
  [inherit_host_env: BOOLEAN, host_mounts: AtMostOne(MountSource),
   locked: LockedOverrides, secrets: SUBSET SecretNames]

Unasked == [kind |-> "unasked"]

Init == profile_name \in ProfileNames /\ verdict = Unasked

\* ValueError ends the call without a decision.
validate_request(request, requester) ==
  /\ verdict = Unasked
  /\ RequestAccepted(profile, request)
  /\ verdict' = [kind |-> "request", request |-> request, requester |-> requester,
                 decision |-> RequestDecision(profile, request, requester)]
  /\ UNCHANGED profile_name

validate_export(path) ==
  /\ verdict = Unasked
  /\ verdict' = [kind |-> "export", decision |-> ExportDecision(profile, path)]
  /\ UNCHANGED profile_name

Next ==
  \/ \E request \in Request, requester \in RequesterType :
       validate_request(request, requester)
  \/ \E path \in ExportPath : validate_export(path)

Spec == Init /\ [][Next]_vars

-----------------------------------------------------------------------------

Accepted == verdict.kind = "request"

\* An override is refused, never dropped: whoever is not refused gets exactly
\* the sandbox they asked for, and it is the one of the profile, without the
\* host's environment or a secret that the profile does not list.  Its mounts do
\* not name the Docker socket or a home directory; they may still lead to one.
PlansAreWhatWasAsked ==
  Accepted =>
    LET asked == verdict.request
        plan == verdict.decision.plan
    IN /\ \A f \in LockedFields : plan[f] = profile[f]
       /\ \A f \in DOMAIN asked.locked : plan[f] = asked.locked[f]
       /\ asked.host_mounts \subseteq {"elsewhere", "respelled", "parent"}
       /\ asked.host_mounts # {} => verdict.decision.host_mounts_allowed
       /\ verdict.decision.injected_secrets \subseteq profile.allowed_secret_names
       /\ ~asked.inherit_host_env

\* However a profile combines its fields: an accepted request for a microVM
\* has no network and no host mount and waits for an approval, automation does
\* not start a high or critical risk lab on its own, and what such a lab
\* exports is quarantined and waits for an approval.
RiskyWorkIsGated ==
  /\ Accepted /\ profile.runtime_class = "microvm" =>
       /\ verdict.decision.plan["network_mode"] = "deny"
       /\ verdict.request.host_mounts = {}
       /\ verdict.decision.approval_required
  /\ Accepted /\ profile.risk_class \in HighRisk /\ verdict.requester # "human" =>
       verdict.decision.approval_required
  /\ verdict.kind = "export" /\ profile.risk_class \in HighRisk =>
       verdict.decision.approval_required /\ verdict.decision.quarantine_required
=============================================================================
