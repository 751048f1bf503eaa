--------------------------- MODULE DockerRuntime ---------------------------
(***************************************************************************)
(* DockerRuntime and the Docker resources it makes for a lab: a container, *)
(* a network and volumes; the secret leases that SecretLeaseService hands  *)
(* it; and the part of a reconciliation pass that compares the runtime's   *)
(* inventory with the lab rows.                                            *)
(*                                                                         *)
(* Nothing in the repository calls the adapter yet, so its callers         *)
(* (Drivers) may call any operation at any time, may be several, and may   *)
(* die between two calls to the Docker daemon.  The daemon is external: a  *)
(* call to it is one step, or fails.                                       *)
(***************************************************************************)
EXTENDS Naturals

CONSTANTS
  Labs,       \* lab ids
  Governed,   \* labs the control plane has rows of, or will have
  Networked,  \* labs whose network_mode is not deny
  Volumes,    \* volume names
  Mounts,     \* managed_mounts of each lab's RuntimeSpec
  Leases,     \* <<lab, number>>: secret leases
  Drivers     \* callers of the adapter

ASSUME DockerRuntimeAssumption ==
  /\ Governed \subseteq Labs /\ Networked \subseteq Labs
  /\ Mounts \in [Labs -> SUBSET Volumes]
  /\ Leases \subseteq Labs \X Nat

VARIABLES
  lab,        \* LabRow.state, or none
  container,  \* status of the container labos-{lab_id}, or absent
  env,        \* leases whose secrets are in the container's environment
  network,    \* labs whose network labos-net-{lab_id} exists
  volume,     \* volumes that exist
  data,       \* volumes that hold what a guest wrote
  lease,      \* SecretLeaseRow: open, revoked, or past its expires_at
  driver,     \* what each caller is in the middle of
  pass,       \* a reconciliation pass and the lab rows it has loaded
  leaked      \* labs whose network was left behind (history)

docker == <<container, env, network, volume, data>>
vars == <<lab, docker, lease, driver, pass, leaked>>

\* One state of each kind that _is_zombie_lab tells apart: running for those in
\* which a container is expected, destroyed for those in which none is.
LabStates == {"none", "running", "destroyed"}

\* A revoked lease may expire as well, which is then all that matters of it.
LeaseState == {"open", "revoked", "expired"}

ContainerStatus == {"absent", "created", "running", "exited"}

Idle == [pc |-> "idle"]

\* late: the leases that have expired since _build_environment looked (history).
DriverState ==
  {Idle}
    \cup [pc: {"create.materialised", "create.networked", "create.built",
               "cleanup.network", "cleanup.volumes"},
          lab: Labs, leases: SUBSET Leases, made: SUBSET Volumes,
          late: SUBSET Leases]
    \cup [pc: {"destroy.removed", "destroy.networked"}, lab: Labs,
          remove_persistent_volume: BOOLEAN]

PassState ==
  [pc: {"committed", "failed"}] \cup [pc: {"loaded"}, labs: [Labs -> LabStates]]

TypeOK ==
  /\ lab \in [Labs -> LabStates]
  /\ container \in [Labs -> ContainerStatus]
  /\ env \in [Labs -> SUBSET Leases]
  /\ network \subseteq Networked
  /\ data \subseteq volume /\ volume \subseteq Volumes
  /\ lease \in [Leases -> LeaseState]
  /\ driver \in [Drivers -> DriverState]
  /\ pass \in PassState
  /\ leaked \subseteq Labs

Init ==
  /\ lab = [l \in Labs |-> "none"]
  /\ container = [l \in Labs |-> "absent"]
  /\ env = [l \in Labs |-> {}]
  /\ network = {} /\ volume = {} /\ data = {}
  /\ lease = [k \in Leases |-> "open"]
  /\ driver = [d \in Drivers |-> Idle]
  /\ pass = [pc |-> "committed"]
  /\ leaked = {}

-----------------------------------------------------------------------------
(* The daemon, external *)

\* A volume that a container mounts, running or not, cannot be removed.
InUse(v) == \E l \in Labs : container[l] # "absent" /\ v \in Mounts[l]

RemoveVolumes(removed) ==
  /\ volume' = volume \ removed
  /\ data' = data \ removed

-----------------------------------------------------------------------------
(* Callers *)

Start(d, record) == driver[d] = Idle /\ driver' = [driver EXCEPT ![d] = record]

GoTo(d, pc) == driver' = [driver EXCEPT ![d].pc = pc]

Finish(d) == driver' = [driver EXCEPT ![d] = Idle]

At(d, pc) == driver[d].pc = pc

-----------------------------------------------------------------------------
(* materialize_runtime_leases and create_lab *)

ActiveLeases(l) == {k \in Leases : k[1] = l /\ lease[k] = "open"}

\* The lab's row is not looked at.
BeginCreate(d, l) ==
  /\ Start(d, [pc |-> IF l \in Networked THEN "create.materialised"
                                         ELSE "create.networked",
               lab |-> l, leases |-> ActiveLeases(l), made |-> {}, late |-> {}])
  /\ UNCHANGED <<lab, docker, lease, pass, leaked>>

CreateNetwork(d) ==
  LET l == driver[d].lab
  IN /\ At(d, "create.materialised")
     /\ l \notin network
     /\ network' = network \cup {l}
     /\ GoTo(d, "create.networked")
     /\ UNCHANGED <<lab, container, env, volume, data, lease, pass, leaked>>

\* Mutant: the network is looked up by its name to clean up.
DuplicateCleansUp(d) ==
  /\ At(d, "create.materialised")
  /\ driver[d].lab \in network
  /\ GoTo(d, "cleanup.network")
  /\ UNCHANGED <<lab, docker, lease, pass, leaked>>

\* check_duplicate: the network exists.  Nothing was made, nothing is removed.
DuplicateNetwork(d) ==
  /\ At(d, "create.materialised")
  /\ driver[d].lab \in network
  /\ Finish(d)
  /\ UNCHANGED <<lab, docker, lease, pass, leaked>>

\* volumes.create returns the volume of that name, made now or before.
EnsureVolume(d, v) ==
  /\ At(d, "create.networked")
  /\ v \in Mounts[driver[d].lab] \ driver[d].made
  /\ volume' = volume \cup {v}
  /\ driver' = [driver EXCEPT ![d].made = @ \cup {v}]
  /\ UNCHANGED <<lab, container, env, network, data, lease, pass, leaked>>

VolumesMade(d) ==
  At(d, "create.networked") /\ driver[d].made = Mounts[driver[d].lab]

\* Mutant: the leases are not looked at again.
EnvironmentUnchecked(d) == TRUE

\* _build_environment: approved and is_active, looked at before the call to the
\* daemon goes out.
EnvironmentBuilt(d) == \A k \in driver[d].leases : lease[k] # "expired"

BuildEnvironment(d) ==
  /\ VolumesMade(d)
  /\ EnvironmentBuilt(d)
  /\ GoTo(d, "create.built")
  /\ UNCHANGED <<lab, docker, lease, pass, leaked>>

\* containers.create: the daemon makes it with the environment it is sent, and
\* any volume that has gone since.
CreateContainer(d) ==
  LET l == driver[d].lab
  IN /\ At(d, "create.built")
     /\ container[l] = "absent"
     /\ container' = [container EXCEPT ![l] = "created"]
     /\ env' = [env EXCEPT ![l] = driver[d].leases]
     /\ volume' = volume \cup Mounts[l]
     /\ Finish(d)
     /\ UNCHANGED <<lab, network, data, lease, pass, leaked>>

CleanUp(d) ==
  driver' = [driver EXCEPT
               ![d].pc = IF driver[d].lab \in Networked THEN "cleanup.network"
                                                        ELSE "cleanup.volumes",
               ![d].late = {}]

\* Mutant: a refused lease ends the call outside the try block.
RefusalSkipsCleanup(d) ==
  /\ \/ VolumesMade(d) /\ ~EnvironmentBuilt(d) /\ Finish(d)
     \/ /\ \/ At(d, "create.built")
           \/ At(d, "create.networked") /\ (~VolumesMade(d) \/ EnvironmentBuilt(d))
        /\ CleanUp(d)
  /\ UNCHANGED <<lab, docker, lease, pass, leaked>>

\* A volume or the container cannot be made, its name is taken, or a lease has
\* expired: the except block cleans up.
CreateFails(d) ==
  /\ At(d, "create.networked") \/ At(d, "create.built")
  /\ CleanUp(d)
  /\ UNCHANGED <<lab, docker, lease, pass, leaked>>

\* created_network.remove().  Only the caller that made the network gets here.
CleanupNetwork(d) ==
  /\ At(d, "cleanup.network")
  /\ network' = network \ {driver[d].lab}
  /\ GoTo(d, "cleanup.volumes")
  /\ UNCHANGED <<lab, container, env, volume, data, lease, pass, leaked>>

\* It raises, and the volumes are not looked at.
CleanupNetworkFails(d) ==
  /\ At(d, "cleanup.network")
  /\ driver[d].lab \in network
  /\ leaked' = leaked \cup {driver[d].lab}
  /\ Finish(d)
  /\ UNCHANGED <<lab, docker, lease, pass>>

\* volume.remove(force=True) one by one, until one is refused; also volumes
\* that were there before.
CleanupVolumes(d) ==
  /\ At(d, "cleanup.volumes")
  /\ \E removed \in SUBSET {v \in driver[d].made : ~InUse(v)} : RemoveVolumes(removed)
  /\ Finish(d)
  /\ UNCHANGED <<lab, container, env, network, lease, pass, leaked>>

-----------------------------------------------------------------------------
(* start_lab, stop_lab and destroy_lab *)

SetStatus(l, from, to) ==
  /\ container[l] \in from
  /\ container' = [container EXCEPT ![l] = to]
  /\ UNCHANGED <<lab, env, network, volume, data, lease, driver, pass, leaked>>

StartLab(l) == SetStatus(l, {"created", "exited"}, "running")

StopLab(l) == SetStatus(l, {"running"}, "exited")

\* _get_container finds it, and it is removed.
RemoveContainer(d, l, remove) ==
  /\ container[l] # "absent"
  /\ Start(d, [pc |-> IF l \in Networked THEN "destroy.removed"
                                         ELSE "destroy.networked",
               lab |-> l, remove_persistent_volume |-> remove])
  /\ container' = [container EXCEPT ![l] = "absent"]
  /\ env' = [env EXCEPT ![l] = {}]
  /\ UNCHANGED <<lab, network, volume, data, lease, pass, leaked>>

\* An error is swallowed.
RemoveNetwork(d) ==
  LET l == driver[d].lab
  IN /\ At(d, "destroy.removed")
     /\ \/ network' = network \ {l} /\ UNCHANGED leaked
        \/ l \in network /\ leaked' = leaked \cup {l} /\ UNCHANGED network
     /\ GoTo(d, "destroy.networked")
     /\ UNCHANGED <<lab, container, env, volume, data, lease, pass>>

\* Mutant: the flag is ignored.
RemoveAllVolumes(d) ==
  /\ At(d, "destroy.networked")
  /\ RemoveVolumes({v \in Mounts[driver[d].lab] : ~InUse(v)})
  /\ Finish(d)
  /\ UNCHANGED <<lab, container, env, network, lease, pass, leaked>>

\* So is each volume's.
RemovePersistentVolumes(d) ==
  /\ At(d, "destroy.networked")
  /\ \E removed \in SUBSET {v \in Mounts[driver[d].lab] : ~InUse(v)} :
       /\ ~driver[d].remove_persistent_volume => removed = {}
       /\ RemoveVolumes(removed)
  /\ Finish(d)
  /\ UNCHANGED <<lab, container, env, network, lease, pass, leaked>>

\* The caller dies; what it made stays.
Abort(d) ==
  /\ driver[d] # Idle
  /\ leaked' = leaked \cup ({driver[d].lab} \cap network)
  /\ Finish(d)
  /\ UNCHANGED <<lab, docker, lease, pass>>

-----------------------------------------------------------------------------
(* Reconciliation: the runtime inventory *)

BeginPass ==
  /\ pass.pc # "loaded"
  /\ pass' = [pc |-> "loaded", labs |-> lab]
  /\ UNCHANGED <<lab, docker, lease, driver, leaked>>

\* Mutant: only containers that run are looked at.
RunningStatuses == {"running"}

active_runtime_statuses == {"created", "restarting", "running", "paused"}

allowed_runtime_states == {"provisioning", "running", "stopped", "destroying"}

Orphaned(labs, l) == container[l] # "absent" /\ labs[l] = "none"

\* _is_zombie_lab
Zombie(labs, l) ==
  /\ container[l] \in active_runtime_statuses
  /\ labs[l] \notin allowed_runtime_states \cup {"none"}

\* list_managed_labs is called in the same transaction, with the rows loaded
\* before.  The pass writes an event about each lab it flags.
Flagged(l) == Orphaned(pass.labs, l) \/ Zombie(pass.labs, l)

CommitPass ==
  /\ pass.pc = "loaded"
  /\ pass' = [pc |-> "committed"]
  /\ UNCHANGED <<lab, docker, lease, driver, leaked>>

\* The daemon does not answer, or the commit fails: all of the pass is lost.
PassFails ==
  /\ pass.pc = "loaded"
  /\ pass' = [pc |-> "failed"]
  /\ UNCHANGED <<lab, docker, lease, driver, leaked>>

-----------------------------------------------------------------------------
(* The environment *)

\* The API creates a lab and whoever drives it runs it; the API destroys it and
\* does not call the runtime.
RunLab(l) ==
  /\ l \in Governed
  /\ lab[l] = "none"
  /\ lab' = [lab EXCEPT ![l] = "running"]
  /\ UNCHANGED <<docker, lease, driver, pass, leaked>>

DestroyRow(l) ==
  /\ lab[l] = "running"
  /\ lab' = [lab EXCEPT ![l] = "destroyed"]
  /\ UNCHANGED <<docker, lease, driver, pass, leaked>>

GuestWrites(l) ==
  /\ container[l] = "running"
  /\ data' = data \cup Mounts[l]
  /\ UNCHANGED <<lab, container, env, network, volume, lease, driver, pass, leaked>>

RevokeLease(k) ==
  /\ lease[k] = "open"
  /\ lease' = [lease EXCEPT ![k] = "revoked"]
  /\ UNCHANGED <<lab, docker, driver, pass, leaked>>

LeaseExpires(k) ==
  /\ lease[k] # "expired"
  /\ lease' = [lease EXCEPT ![k] = "expired"]
  /\ driver' = [d \in Drivers |->
                  IF At(d, "create.built") /\ k \in driver[d].leases
                  THEN [driver[d] EXCEPT !.late = @ \cup {k}] ELSE driver[d]]
  /\ UNCHANGED <<lab, docker, pass, leaked>>

CreateStep(d) ==
  \/ CreateNetwork(d) \/ DuplicateNetwork(d)
  \/ \E v \in Volumes : EnsureVolume(d, v)
  \/ BuildEnvironment(d) \/ CreateContainer(d) \/ CreateFails(d)
  \/ CleanupNetwork(d) \/ CleanupNetworkFails(d) \/ CleanupVolumes(d)

Next ==
  \/ \E d \in Drivers :
       \/ \E l \in Labs : BeginCreate(d, l)
       \/ \E l \in Labs, remove \in BOOLEAN : RemoveContainer(d, l, remove)
       \/ CreateStep(d)
       \/ RemoveNetwork(d) \/ RemovePersistentVolumes(d)
       \/ Abort(d)
  \/ \E l \in Labs :
       \/ StartLab(l) \/ StopLab(l) \/ GuestWrites(l)
       \/ RunLab(l) \/ DestroyRow(l)
  \/ \E k \in Leases : RevokeLease(k) \/ LeaseExpires(k)
  \/ BeginPass \/ CommitPass \/ PassFails

Spec == Init /\ [][Next]_vars

\* Passes keep being started and the daemon answers again and again; callers
\* of the adapter owe nothing.
Fairness == WF_vars(BeginPass) /\ SF_vars(CommitPass)

FairSpec == Spec /\ Fairness

-----------------------------------------------------------------------------
(* Properties *)

\* No container gets the secret of another lab, or of a lease that expired while
\* its network and volumes were made, however long that took since the leases
\* were read.  Two kinds of lease do get in although they have ended: one that
\* expires between the last check and the daemon's answer, and one that is
\* revoked after it was read.
ExpiredSecretsStayOut ==
  [][\A l \in Labs : \A k \in env'[l] \ env[l] :
       /\ k[1] = l
       /\ lease[k] = "expired" =>
            \E d \in Drivers :
              /\ At(d, "create.built") /\ driver'[d] = Idle
              /\ driver[d].lab = l /\ k \in driver[d].late]_vars

\* A lab has its network and its volumes for as long as its container exists:
\* neither a second create_lab of it that fails and cleans up, nor the
\* destruction of a lab that mounts the same volume takes them away.
LabsKeepTheirResources ==
  \A l \in Labs :
    container[l] # "absent" =>
      /\ l \in Networked => l \in network
      /\ Mounts[l] \subseteq volume

\* What a guest wrote is removed by nobody but a destroy_lab that is told to, or
\* a create_lab that fails and takes the volumes it named for its own; and by
\* neither while a container mounts it.
WrittenDataIsKept ==
  [][\A v \in data \ data' :
       /\ ~InUse(v)
       /\ \E d \in Drivers :
            /\ driver[d] # Idle /\ driver'[d] = Idle
            /\ v \in Mounts[driver[d].lab]
            /\ \/ At(d, "cleanup.volumes")
               \/ driver[d].remove_persistent_volume]_vars

WorkingOn(d, l) == driver[d] # Idle /\ driver[d].lab = l

\* A network without a container, which blocks the lab from being created
\* again (check_duplicate), is only there while a call is in progress or after
\* one that died or whose removal of the network failed.
NetworksHaveAnOwner ==
  \A l \in network :
    \/ container[l] # "absent"
    \/ \E d \in Drivers : WorkingOn(d, l)
    \/ l \in leaked

Lingering(l) ==
  /\ container[l] \in {"created", "running"}
  /\ lab[l] \in {"none", "destroyed"}

\* docs/threat-model.md: an active container that lingers after its lab reached
\* a state without a runtime is flagged, by pass after pass, although each
\* compares rows it loaded earlier with what the daemon lists later, and some
\* passes fail.
LingeringContainersAreFlagged ==
  \A l \in Labs :
    <>[]Lingering(l) => []<><<CommitPass /\ Flagged(l)>>_vars

-----------------------------------------------------------------------------
(* Why: who may remove what *)

Creating(d) ==
  driver[d].pc \in {"create.materialised", "create.networked", "create.built",
                    "cleanup.network", "cleanup.volumes"}

\* The caller has the network of lab l to itself: it has made it and not yet a
\* container, or it has removed the container.
Owns(d, l) ==
  /\ driver[d].pc \in {"create.networked", "create.built", "cleanup.network",
                       "destroy.removed"}
  /\ driver[d].lab = l

\* What a caller carries from step to step is its lab's; with the environment
\* built, what has expired did so since; the steps about a network are those of a
\* lab that has one.
CallsWellFounded ==
  \A d \in Drivers :
    /\ Creating(d) => /\ driver[d].made \subseteq Mounts[driver[d].lab]
                      /\ \A k \in driver[d].leases : k[1] = driver[d].lab
    /\ At(d, "create.built") =>
         \A k \in driver[d].leases : lease[k] = "expired" => k \in driver[d].late
    /\ driver[d].pc \in {"create.materialised", "cleanup.network", "destroy.removed"}
         => driver[d].lab \in Networked

\* A network belongs to the container or to a single caller; without either it
\* was left behind.
NetworksAreOwned ==
  \A l \in Networked :
    /\ \A d \in Drivers : Owns(d, l) => l \in network /\ container[l] = "absent"
    /\ \A d, e \in Drivers : Owns(d, l) /\ Owns(e, l) => d = e
    /\ l \in network /\ container[l] = "absent" =>
         l \in leaked \/ \E d \in Drivers : Owns(d, l)

IndInv ==
  /\ TypeOK
  /\ CallsWellFounded
  /\ NetworksAreOwned
  /\ LabsKeepTheirResources
=============================================================================
