------------------------- MODULE PolicyEngineProofs -------------------------
(***************************************************************************)
(* PolicyEngine over any registry of profiles that validate_combinations   *)
(* lets through, any secret names and any limits: what an accepted request *)
(* is given, and what waits for an approval.                               *)
(***************************************************************************)
EXTENDS PolicyEngine, TLAPS

\* What validate_request and validate_export may have answered.
RequestAnswer ==
  \E request \in Request, requester \in RequesterType :
    /\ RequestAccepted(profile, request)
    /\ verdict = [kind |-> "request", request |-> request, requester |-> requester,
                  decision |-> RequestDecision(profile, request, requester)]

ExportAnswer ==
  \E path \in ExportPath :
    verdict = [kind |-> "export", decision |-> ExportDecision(profile, path)]

Answered ==
  /\ profile_name \in ProfileNames
  /\ verdict = Unasked \/ RequestAnswer \/ ExportAnswer

\* The profile of a call is one of the registry, and well-formed.
LEMMA ProfileIsValid ==
  ASSUME profile_name \in ProfileNames
  PROVE profile \in Profile /\ ValidCombination(profile)
  BY RegistryAssumption DEF profile

\* A request that overrides names locked fields only.
LEMMA OverridesAreLocked ==
  ASSUME NEW request \in Request
  PROVE DOMAIN request.locked \subseteq LockedFields
<1>1. request.locked \in LockedOverrides
  BY DEF Request
<1>2. PICK fields \in AtMostOne(LockedFields) :
        request.locked \in [fields -> UNION {FieldValue(f) : f \in fields}]
  BY <1>1 DEF LockedOverrides
<1>3. fields \subseteq LockedFields
  BY <1>2 DEF AtMostOne
<1> QED
  BY <1>2, <1>3

\* A call is answered once, by the decision of its profile.
LEMMA AnsweredStep == Answered /\ [Next]_vars => Answered'
<1> SUFFICES ASSUME Answered, [Next]_vars PROVE Answered'
  OBVIOUS
<1>1. ASSUME NEW request \in Request, NEW requester \in RequesterType,
             validate_request(request, requester)
      PROVE Answered'
  BY <1>1 DEF validate_request, Answered, RequestAnswer, profile
<1>2. ASSUME NEW path \in ExportPath, validate_export(path) PROVE Answered'
  BY <1>2 DEF validate_export, Answered, ExportAnswer, profile
<1>3. CASE UNCHANGED vars
  BY <1>3 DEF vars, Answered, RequestAnswer, ExportAnswer, profile
<1> QED
  BY <1>1, <1>2, <1>3 DEF Next

\* Every reachable state of a call is an answer the engine may give.
THEOREM CallsAreAnswered == Spec => []Answered
<1>1. Init => Answered
  BY DEF Init, Answered
<1> QED
  BY <1>1, AnsweredStep, PTL DEF Spec

\* An answer to a request names a request that the profile accepts.
LEMMA AcceptedAnswer ==
  ASSUME Answered, Accepted
  PROVE RequestAnswer
<1>1. verdict # Unasked
  BY DEF Accepted, Unasked
<1>2. ~ExportAnswer
  BY DEF Accepted, ExportAnswer
<1> QED
  BY <1>1, <1>2 DEF Answered

\* An override is refused, never dropped, and no request is given the host's
\* environment, a mount whose source is written as the Docker socket or below a
\* home directory, or a secret its profile does not list, whatever the registered
\* profiles are.  Where a mount leads is not decided.
THEOREM RequestsGetTheirProfile == Spec => []PlansAreWhatWasAsked
<1>1. Answered => PlansAreWhatWasAsked
  <2> SUFFICES ASSUME Answered, Accepted
               PROVE LET asked == verdict.request
                         plan == verdict.decision.plan
                     IN /\ \A f \in LockedFields : plan[f] = profile[f]
                        /\ \A f \in DOMAIN asked.locked : plan[f] = asked.locked[f]
                        /\ asked.host_mounts \subseteq
                             {"elsewhere", "respelled", "parent"}
                        /\ asked.host_mounts # {} =>
                             verdict.decision.host_mounts_allowed
                        /\ verdict.decision.injected_secrets
                             \subseteq profile.allowed_secret_names
                        /\ ~asked.inherit_host_env
    BY DEF PlansAreWhatWasAsked
  <2>1. PICK request \in Request, requester \in RequesterType :
          /\ RequestAccepted(profile, request)
          /\ verdict = [kind |-> "request", request |-> request,
                        requester |-> requester,
                        decision |-> RequestDecision(profile, request, requester)]
    BY AcceptedAnswer DEF RequestAnswer
  <2>2. /\ verdict.request = request
        /\ verdict.decision.plan = [f \in LockedFields |-> profile[f]]
        /\ verdict.decision.injected_secrets = request.secrets
        /\ verdict.decision.host_mounts_allowed = profile.allow_host_mounts
    BY <2>1 DEF RequestDecision
  <2>3. \A f \in DOMAIN request.locked : verdict.decision.plan[f] = request.locked[f]
    BY <2>1, <2>2, OverridesAreLocked DEF RequestAccepted
  <2>4. request.host_mounts \subseteq MountSource
    BY <2>1 DEF Request, AtMostOne
  <2>5. /\ request.host_mounts \subseteq {"elsewhere", "respelled", "parent"}
        /\ request.host_mounts # {} => profile.allow_host_mounts
    BY <2>1, <2>4 DEF RequestAccepted, HostMountsAccepted, ForbiddenMount, MountSource
  <2>6. request.secrets \subseteq profile.allowed_secret_names /\ ~request.inherit_host_env
    BY <2>1 DEF RequestAccepted
  <2> QED
    BY <2>2, <2>3, <2>5, <2>6
<1> QED
  BY <1>1, CallsAreAnswered, PTL

\* No well-formed profile lets a microVM start without an approval or with a
\* network or a host mount, lets automation start a risky lab on its own, or
\* lets a risky lab export without quarantine and approval.
THEOREM RiskIsGated == Spec => []RiskyWorkIsGated
<1>1. Answered => RiskyWorkIsGated
  <2> SUFFICES ASSUME Answered PROVE RiskyWorkIsGated
    OBVIOUS
  <2>0. profile \in Profile /\ ValidCombination(profile)
    BY ProfileIsValid DEF Answered
  <2>1. ASSUME Accepted
        PROVE /\ verdict.decision.plan["network_mode"] = profile.network_mode
              /\ verdict.decision.approval_required =
                   ApprovalRequired(profile, verdict.requester)
              /\ verdict.request.host_mounts # {} => profile.allow_host_mounts
    <3>1. PICK request \in Request, requester \in RequesterType :
            /\ RequestAccepted(profile, request)
            /\ verdict = [kind |-> "request", request |-> request,
                          requester |-> requester,
                          decision |-> RequestDecision(profile, request, requester)]
      BY <2>1, AcceptedAnswer DEF RequestAnswer
    <3> QED
      BY <3>1 DEF RequestDecision, LockedFields, RequestAccepted, HostMountsAccepted
  <2>2. ASSUME Accepted, profile.runtime_class = "microvm"
        PROVE /\ verdict.decision.plan["network_mode"] = "deny"
              /\ verdict.request.host_mounts = {}
              /\ verdict.decision.approval_required
    <3>1. "profile" \in ApprovalReasons(profile, verdict.requester)
      BY <2>0, <2>2 DEF ValidCombination, ApprovalReasons
    <3> QED
      BY <2>0, <2>1, <2>2, <3>1 DEF ValidCombination, ApprovalRequired
  <2>3. ASSUME Accepted, profile.risk_class \in HighRisk, verdict.requester # "human"
        PROVE verdict.decision.approval_required
    <3>1. "non_human" \in ApprovalReasons(profile, verdict.requester)
      BY <2>3 DEF ApprovalReasons
    <3> QED
      BY <2>1, <2>3, <3>1 DEF ApprovalRequired
  <2>4. ASSUME verdict.kind = "export", profile.risk_class \in HighRisk
        PROVE verdict.decision.approval_required /\ verdict.decision.quarantine_required
    <3>1. ExportAnswer
      BY <2>4 DEF Answered, RequestAnswer, Unasked
    <3>2. PICK path \in ExportPath :
            verdict = [kind |-> "export", decision |-> ExportDecision(profile, path)]
      BY <3>1 DEF ExportAnswer
    <3> QED
      BY <2>0, <2>4, <3>2 DEF ExportDecision, ValidCombination
  <2> QED
    BY <2>2, <2>3, <2>4 DEF RiskyWorkIsGated
<1> QED
  BY <1>1, CallsAreAnswered, PTL
=============================================================================
