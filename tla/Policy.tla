------------------------------- MODULE Policy -------------------------------
(***************************************************************************)
(* The policy engine: profiles (labos/core/policy_models.py), the rules    *)
(* that make one well-formed, and the two decisions that                   *)
(* labos/core/policy_engine.py derives from a profile: what a lab request  *)
(* may ask for and whether it must wait for an approval, and whether an    *)
(* export must.  The numeric limits of a profile (cpu, memory, disk, run   *)
(* time) are locked in the same way and are one field here; paths are      *)
(* classes of paths.                                                       *)
(***************************************************************************)

CONSTANTS
  ProfileNames,   \* the names the registry knows
  Registry,       \* PolicyEngine.profiles: name -> profile
  SecretNames,    \* names a profile may allowlist
  Limits          \* values of the resource limits

RuntimeClass == {"container", "microvm"}
NetworkMode == {"deny", "restricted", "allowlist"}
FilesystemMode == {"managed", "read-only-root"}
PersistenceMode == {"ephemeral", "persistent"}
ExportMode == {"request", "approval"}
RiskClass == {"low", "medium", "high", "critical"}
RequesterType == {"human", "agent", "scheduler"}

HighRisk == {"high", "critical"}

Profile ==
  [runtime_class: RuntimeClass, risk_class: RiskClass,
   network_mode: NetworkMode, filesystem_mode: FilesystemMode,
   persistence_mode: PersistenceMode, export_mode: ExportMode,
   limits: Limits, approval_on_start: BOOLEAN, approval_on_export: BOOLEAN,
   allow_host_mounts: BOOLEAN, allowed_secret_names: SUBSET SecretNames]

\* Profile.validate_combinations: the profiles pydantic lets through.
ValidCombination(p) ==
  /\ p.runtime_class = "microvm" =>
       /\ p.network_mode = "deny"
       /\ p.export_mode = "approval"
       /\ p.approval_on_start
       /\ ~p.allow_host_mounts
       /\ p.risk_class # "low"
  /\ p.risk_class \in HighRisk => p.approval_on_export

ASSUME RegistryAssumption ==
  /\ Registry \in [ProfileNames -> Profile]
  /\ \A n \in ProfileNames : ValidCombination(Registry[n])

-----------------------------------------------------------------------------
(* validate_request *)

\* The fields that _enforce_profile_locked_field pins to the profile.
LockedFields == {"network_mode", "runtime_class", "filesystem_mode",
                 "persistence_mode", "export_mode", "limits"}

\* The source of a requested host mount: a path that is written as the Docker
\* socket or as one at or below a home directory; one that leads there and is
\* written otherwise (with "..", two leading slashes or a link); a directory that
\* contains one of them ("/", "/var/run"); any other; an entry without a colon.
MountSource ==
  {"docker_socket", "home", "respelled", "parent", "elsewhere", "malformed"}

\* _validate_host_mounts compares the path as it is written, not where it leads.
ForbiddenMount == {"docker_socket", "home", "malformed"}

\* Mutant: only the Docker socket is refused.
OnlySocketRefused(p, mounts) ==
  mounts # {} => p.allow_host_mounts /\ "docker_socket" \notin mounts

HostMountsAccepted(p, mounts) ==
  mounts # {} => p.allow_host_mounts /\ mounts \cap ForbiddenMount = {}

\* A request is accepted when no check of validate_request raises ValueError.
\* request.locked is the part of the overrides that names locked fields.
RequestAccepted(p, request) ==
  /\ ~request.inherit_host_env
  /\ HostMountsAccepted(p, request.host_mounts)
  /\ \A f \in DOMAIN request.locked : request.locked[f] = p[f]
  /\ request.secrets \subseteq p.allowed_secret_names

\* Mutant: the scheduler is taken for a human.
SchedulerTrusted(p, requester) ==
  {reason \in {"profile", "non_human"} :
     \/ reason = "profile" /\ p.approval_on_start
     \/ reason = "non_human" /\ requester = "agent" /\ p.risk_class \in HighRisk}

ApprovalReasons(p, requester) ==
  {reason \in {"profile", "non_human"} :
     \/ reason = "profile" /\ p.approval_on_start
     \/ /\ reason = "non_human"
        /\ requester # "human"
        /\ p.risk_class \in HighRisk}

ApprovalRequired(p, requester) == ApprovalReasons(p, requester) # {}

\* RequestDecision: the plan an accepted request is turned into.
RequestDecision(p, request, requester) ==
  [plan |-> [f \in LockedFields |-> p[f]],
   approval_required |-> ApprovalRequired(p, requester),
   injected_secrets |-> request.secrets,
   host_mounts_allowed |-> p.allow_host_mounts]

-----------------------------------------------------------------------------
(* validate_export and ExportGate._resolve_managed_source *)

\* Where a requested export path points: below /lab/exports, below
\* /artifacts/approved, below /lab/exports but escaping it through "..", or
\* somewhere else.
ExportPath == {"lab_exports", "artifacts_approved", "escaping", "unmanaged"}

\* MANAGED_EXPORT_PREFIXES is a textual prefix test.
PrefixManaged(path) == path \in {"lab_exports", "artifacts_approved", "escaping"}

ExportDecision(p, path) ==
  [allowed |-> PrefixManaged(path),
   approval_required |-> PrefixManaged(path) => p.approval_on_export,
   quarantine_required |-> PrefixManaged(path) => p.risk_class \in HighRisk]

\* The gate resolves the path after the policy accepted it: only a path that
\* stays below the guest's export root is left.
ResolvesToManagedSource(path) == path = "lab_exports"

\* stage_export goes on only with a path that both checks accept.
ExportPathAccepted(p, path) ==
  ExportDecision(p, path).allowed /\ ResolvesToManagedSource(path)
=============================================================================
