------------------------ MODULE DockerRuntimeProofs -------------------------
(***************************************************************************)
(* The Docker runtime adapter for any labs, volumes, leases and callers:   *)
(* what a container keeps while it exists, whose networks are left over,   *)
(* which secrets get in and who removes what a guest wrote.                *)
(*                                                                         *)
(* The first part says what a step does to the call it belongs to, and so  *)
(* who has a network to himself before and after it.                       *)
(***************************************************************************)
EXTENDS DockerRuntime, TLAPS

-----------------------------------------------------------------------------
(* Calls *)

CreateState ==
  [pc: {"create.materialised", "create.networked", "create.built",
        "cleanup.network", "cleanup.volumes"},
   lab: Labs, leases: SUBSET Leases, made: SUBSET Volumes, late: SUBSET Leases]

DestroyState ==
  [pc: {"destroy.removed", "destroy.networked"}, lab: Labs,
   remove_persistent_volume: BOOLEAN]

\* The program counter of a caller tells which operation it is in.
LEMMA CallShape ==
  ASSUME TypeOK, NEW d \in Drivers
  PROVE /\ driver[d].pc = "idle" <=> driver[d] = Idle
        /\ Creating(d) <=> driver[d] \in CreateState
        /\ driver[d].pc \in {"destroy.removed", "destroy.networked"}
             <=> driver[d] \in DestroyState
        /\ driver[d] = Idle \/ driver[d] \in CreateState \/ driver[d] \in DestroyState
        /\ driver[d] # Idle => driver[d].lab \in Labs
<1>1. driver[d] = Idle \/ driver[d] \in CreateState \/ driver[d] \in DestroyState
  BY DEF TypeOK, DriverState, CreateState, DestroyState
<1> QED
  BY <1>1 DEF Creating, Idle, CreateState, DestroyState

\* A call begins.
LEMMA Starts ==
  ASSUME TypeOK, NEW d \in Drivers, NEW STATE r, Start(d, r)
  PROVE /\ driver[d] = Idle /\ driver'[d] = r
        /\ \A e \in Drivers \ {d} : driver'[e] = driver[e]
        /\ r \in DriverState => driver' \in [Drivers -> DriverState]
  BY DEF Start, TypeOK

\* A call ends.
LEMMA Finishes ==
  ASSUME TypeOK, NEW d \in Drivers, Finish(d)
  PROVE /\ driver'[d] = Idle
        /\ \A e \in Drivers \ {d} : driver'[e] = driver[e]
        /\ driver' \in [Drivers -> DriverState]
  BY DEF Finish, TypeOK, DriverState

\* A call goes on to its next step.
LEMMA GoesTo ==
  ASSUME TypeOK, NEW d \in Drivers, NEW STATE p, GoTo(d, p), driver[d] # Idle
  PROVE /\ driver'[d] = [driver[d] EXCEPT !.pc = p]
        /\ driver'[d].pc = p
        /\ driver'[d].lab = driver[d].lab
        /\ driver'[d].made = driver[d].made
        /\ driver'[d].leases = driver[d].leases
        /\ \A e \in Drivers \ {d} : driver'[e] = driver[e]
        /\ driver'[d] \in DriverState => driver' \in [Drivers -> DriverState]
<1>1. driver \in [Drivers -> DriverState]
  BY DEF TypeOK
<1>2. /\ driver'[d] = [driver[d] EXCEPT !.pc = p]
      /\ \A e \in Drivers \ {d} : driver'[e] = driver[e]
      /\ driver' = [driver EXCEPT ![d] = driver'[d]]
  BY <1>1 DEF GoTo
<1>3. "pc" \in DOMAIN driver[d]
  BY CallShape DEF CreateState, DestroyState
<1>4. driver'[d] \in DriverState => driver' \in [Drivers -> DriverState]
  BY <1>1, <1>2
<1> QED
  BY <1>2, <1>3, <1>4

\* ... in the operation it is in.
LEMMA GoesOn ==
  ASSUME TypeOK, NEW d \in Drivers, NEW STATE p, GoTo(d, p),
         \/ Creating(d) /\ p \in {"create.materialised", "create.networked",
                                  "create.built", "cleanup.network",
                                  "cleanup.volumes"}
         \/ /\ driver[d].pc \in {"destroy.removed", "destroy.networked"}
            /\ p \in {"destroy.removed", "destroy.networked"}
  PROVE driver' \in [Drivers -> DriverState]
<1>1. driver[d] # Idle
  BY DEF Idle, Creating
<1>2. driver'[d] \in DriverState
  <2>1. driver'[d] = [driver[d] EXCEPT !.pc = p]
    BY <1>1, GoesTo
  <2>2. CASE Creating(d)
    BY <2>1, <2>2, CallShape DEF CreateState, DriverState, Creating
  <2>3. CASE driver[d].pc \in {"destroy.removed", "destroy.networked"}
    BY <2>1, <2>3, CallShape DEF DestroyState, DriverState, Creating
  <2> QED
    BY <2>2, <2>3
<1> QED
  BY <1>1, <1>2, GoesTo

\* _ensure_volume takes down the volume it has made or found.
LEMMA Notes ==
  ASSUME TypeOK, NEW d \in Drivers, NEW v \in Volumes, EnsureVolume(d, v)
  PROVE /\ driver'[d].pc = "create.networked"
        /\ driver[d].pc = "create.networked"
        /\ driver'[d].lab = driver[d].lab
        /\ driver'[d].made = driver[d].made \cup {v}
        /\ driver'[d].leases = driver[d].leases
        /\ v \in Mounts[driver[d].lab]
        /\ \A e \in Drivers \ {d} : driver'[e] = driver[e]
        /\ driver' \in [Drivers -> DriverState]
<1>1. driver \in [Drivers -> DriverState]
  BY DEF TypeOK
<1>2. driver[d] \in CreateState /\ driver[d].pc = "create.networked"
  BY CallShape DEF EnsureVolume, At, Creating
<1>3. /\ driver'[d] = [driver[d] EXCEPT !.made = @ \cup {v}]
      /\ \A e \in Drivers \ {d} : driver'[e] = driver[e]
      /\ driver' = [driver EXCEPT ![d] = driver'[d]]
  BY <1>1 DEF EnsureVolume
<1>4. driver'[d] \in CreateState
  BY <1>2, <1>3 DEF CreateState
<1>5. driver' \in [Drivers -> DriverState]
  BY <1>1, <1>3, <1>4 DEF DriverState, CreateState
<1>6. /\ driver'[d].pc = driver[d].pc
      /\ driver'[d].lab = driver[d].lab
      /\ driver'[d].made = driver[d].made \cup {v}
      /\ driver'[d].leases = driver[d].leases
  BY <1>2, <1>3 DEF CreateState
<1>7. v \in Mounts[driver[d].lab]
  BY DEF EnsureVolume
<1> QED
  BY <1>2, <1>3, <1>5, <1>6, <1>7

\* The except block of create_lab is entered.
LEMMA CleansUp ==
  ASSUME TypeOK, NEW d \in Drivers, CreateFails(d)
  PROVE /\ driver[d].pc \in {"create.networked", "create.built"}
        /\ driver'[d].pc = IF driver[d].lab \in Networked THEN "cleanup.network"
                                                         ELSE "cleanup.volumes"
        /\ driver'[d].lab = driver[d].lab
        /\ driver'[d].made = driver[d].made
        /\ driver'[d].leases = driver[d].leases
        /\ \A e \in Drivers \ {d} : driver'[e] = driver[e]
        /\ driver' \in [Drivers -> DriverState]
<1> DEFINE p == IF driver[d].lab \in Networked THEN "cleanup.network"
                                              ELSE "cleanup.volumes"
<1>1. driver \in [Drivers -> DriverState]
  BY DEF TypeOK
<1>2. /\ driver[d] \in CreateState
      /\ driver[d].pc \in {"create.networked", "create.built"}
  BY CallShape DEF CreateFails, At, Creating
<1>3. /\ driver' = [driver EXCEPT ![d] = [driver[d] EXCEPT !.pc = p, !.late = {}]]
      /\ driver'[d] = [driver[d] EXCEPT !.pc = p, !.late = {}]
      /\ \A e \in Drivers \ {d} : driver'[e] = driver[e]
  BY <1>1 DEF CreateFails, CleanUp
<1>4. p \in {"cleanup.network", "cleanup.volumes"}
  OBVIOUS
<1> HIDE DEF p
<1>5. driver'[d] \in CreateState
  <2>1. [driver[d] EXCEPT !.pc = p] \in CreateState
    BY <1>2, <1>4 DEF CreateState
  <2>2. driver'[d] = [[driver[d] EXCEPT !.pc = p] EXCEPT !.late = {}]
    BY <1>2, <1>3 DEF CreateState
  <2> QED
    BY <2>1, <2>2 DEF CreateState
<1>6. driver' \in [Drivers -> DriverState]
  BY <1>1, <1>3, <1>5 DEF DriverState, CreateState
<1> QED
  BY <1>2, <1>3, <1>6 DEF CreateState, p

\* A lease that expires is noted by the calls that have looked at it.
LEMMA Expires ==
  ASSUME TypeOK, NEW k \in Leases, LeaseExpires(k)
  PROVE /\ \A d \in Drivers :
             \/ driver'[d] = driver[d] /\ ~(At(d, "create.built") /\ k \in driver[d].leases)
             \/ /\ driver'[d].pc = driver[d].pc
                /\ driver'[d].lab = driver[d].lab
                /\ driver'[d].made = driver[d].made
                /\ driver'[d].leases = driver[d].leases
                /\ driver'[d].late = driver[d].late \cup {k}
        /\ driver' \in [Drivers -> DriverState]
<1>1. driver' = [d \in Drivers |->
                  IF At(d, "create.built") /\ k \in driver[d].leases
                  THEN [driver[d] EXCEPT !.late = @ \cup {k}] ELSE driver[d]]
  BY DEF LeaseExpires
<1>2. ASSUME NEW d \in Drivers, At(d, "create.built"), k \in driver[d].leases
      PROVE /\ driver'[d].pc = driver[d].pc
            /\ driver'[d].lab = driver[d].lab
            /\ driver'[d].made = driver[d].made
            /\ driver'[d].leases = driver[d].leases
            /\ driver'[d].late = driver[d].late \cup {k}
            /\ driver'[d] \in DriverState
  <2>1. driver[d] \in CreateState
    BY <1>2, CallShape DEF At, Creating
  <2>2. driver'[d] = [driver[d] EXCEPT !.late = @ \cup {k}]
    BY <1>1, <1>2
  <2>3. driver'[d] \in CreateState
    BY <2>1, <2>2 DEF CreateState
  <2> QED
    BY <2>1, <2>2, <2>3 DEF CreateState, DriverState
<1>3. ASSUME NEW d \in Drivers, ~(At(d, "create.built") /\ k \in driver[d].leases)
      PROVE driver'[d] = driver[d] /\ driver'[d] \in DriverState
  BY <1>1, <1>3 DEF TypeOK
<1> QED
  BY <1>1, <1>2, <1>3

-----------------------------------------------------------------------------
(* The steps, by what they do to the networks *)

\* The caller's step leaves it with what it had.
Keeps(d) ==
  \/ \E l \in Labs : BeginCreate(d, l)
  \/ DuplicateNetwork(d) \/ BuildEnvironment(d) \/ CreateFails(d) \/ CleanupVolumes(d)
  \/ RemovePersistentVolumes(d)
  \/ \E v \in Volumes : EnsureVolume(d, v)

\* It gives up the network, or leaves it behind.
Leaves(d) == CleanupNetwork(d) \/ CleanupNetworkFails(d) \/ RemoveNetwork(d) \/ Abort(d)

\* Steps of nobody's call.
Outside ==
  \/ \E l \in Labs : \/ StartLab(l) \/ StopLab(l) \/ GuestWrites(l)
                     \/ RunLab(l) \/ DestroyRow(l)
  \/ \E k \in Leases : RevokeLease(k) \/ LeaseExpires(k)
  \/ BeginPass \/ CommitPass \/ PassFails

Takes(d) ==
  CreateNetwork(d) \/ \E l \in Labs, remove \in BOOLEAN : RemoveContainer(d, l, remove)

LEMMA Steps ==
  ASSUME [Next]_vars
  PROVE \/ UNCHANGED vars
        \/ \E d \in Drivers : Keeps(d) \/ Leaves(d) \/ Takes(d) \/ CreateContainer(d)
        \/ Outside
  BY DEF Next, CreateStep, Keeps, Leaves, Takes, Outside

\* A step belongs to one call at most.
LEMMA OnlyOwnCall ==
  ASSUME TypeOK, NEW d \in Drivers,
         Keeps(d) \/ Leaves(d) \/ Takes(d) \/ CreateContainer(d)
  PROVE \A e \in Drivers \ {d} : driver'[e] = driver[e]
<1>1. ASSUME NEW STATE r, Start(d, r) PROVE \A e \in Drivers \ {d} : driver'[e] = driver[e]
  BY <1>1, Starts
<1>2. ASSUME NEW STATE r, GoTo(d, r) PROVE \A e \in Drivers \ {d} : driver'[e] = driver[e]
  BY <1>2 DEF GoTo, TypeOK
<1>3. CASE Keeps(d)
  BY <1>1, <1>2, <1>3, Finishes, Notes, CleansUp
  DEF Keeps, BeginCreate, DuplicateNetwork, BuildEnvironment, CleanupVolumes,
      RemovePersistentVolumes
<1>4. CASE Leaves(d)
  BY <1>2, <1>4, Finishes
  DEF Leaves, CleanupNetwork, CleanupNetworkFails, RemoveNetwork, Abort
<1>5. CASE Takes(d)
  BY <1>1, <1>2, <1>5 DEF Takes, CreateNetwork, RemoveContainer
<1>6. CASE CreateContainer(d)
  BY <1>6, Finishes DEF CreateContainer
<1> QED
  BY <1>3, <1>4, <1>5, <1>6

\* Whose a network is changes only for the caller whose step it is ...
LEMMA OthersOwn ==
  ASSUME TypeOK, NEW d \in Drivers,
         Keeps(d) \/ Leaves(d) \/ Takes(d) \/ CreateContainer(d),
         NEW e \in Drivers \ {d}, NEW l \in Labs
  PROVE Owns(e, l)' <=> Owns(e, l)
  BY OnlyOwnCall DEF Owns

\* ... and not for that of a step of the first kind.
LEMMA KeepsOwns ==
  ASSUME TypeOK, NEW d \in Drivers, Keeps(d), NEW l \in Networked
  PROVE Owns(d, l)' <=> Owns(d, l)
<1>1. ASSUME NEW m \in Labs, BeginCreate(d, m) PROVE ~Owns(d, l) /\ ~Owns(d, l)'
  <2>1. driver[d] = Idle
    BY <1>1 DEF BeginCreate, Start
  <2>2. /\ driver'[d].pc = IF m \in Networked THEN "create.materialised"
                                              ELSE "create.networked"
        /\ driver'[d].lab = m
    BY <1>1 DEF BeginCreate, Start, TypeOK
  <2> QED
    BY <2>1, <2>2 DEF Owns, Idle
<1>2. ASSUME DuplicateNetwork(d) \/ CleanupVolumes(d) \/ RemovePersistentVolumes(d)
      PROVE ~Owns(d, l) /\ ~Owns(d, l)'
  BY <1>2, Finishes
  DEF DuplicateNetwork, CleanupVolumes, RemovePersistentVolumes, At, Owns, Idle
<1>3. CASE CreateFails(d)
  BY <1>3, CleansUp DEF Owns
<1>4. ASSUME NEW v \in Volumes, EnsureVolume(d, v) PROVE Owns(d, l)' <=> Owns(d, l)
  BY <1>4, Notes DEF Owns
<1>5. CASE BuildEnvironment(d)
  <2>1. driver[d].pc = "create.networked" /\ driver[d] # Idle
    BY <1>5 DEF BuildEnvironment, VolumesMade, At, Idle
  <2>2. driver'[d].pc = "create.built" /\ driver'[d].lab = driver[d].lab
    BY <1>5, <2>1, GoesTo DEF BuildEnvironment
  <2> QED
    BY <2>1, <2>2 DEF Owns
<1> QED
  BY <1>1, <1>2, <1>3, <1>4, <1>5 DEF Keeps

\* A call that gives up the network of its lab has none any more.
LEMMA LeavesOwns ==
  ASSUME TypeOK, NEW d \in Drivers, Leaves(d), NEW l \in Labs
  PROVE ~Owns(d, l)'
<1>1. CASE CleanupNetwork(d)
  <2>1. driver[d] # Idle /\ GoTo(d, "cleanup.volumes")
    BY <1>1 DEF CleanupNetwork, At, Idle
  <2>2. driver'[d].pc = "cleanup.volumes"
    BY <2>1, GoesTo
  <2> QED
    BY <2>2 DEF Owns
<1>2. CASE RemoveNetwork(d)
  <2>1. driver[d] # Idle /\ GoTo(d, "destroy.networked")
    BY <1>2 DEF RemoveNetwork, At, Idle
  <2>2. driver'[d].pc = "destroy.networked"
    BY <2>1, GoesTo
  <2> QED
    BY <2>2 DEF Owns
<1>3. CASE CleanupNetworkFails(d) \/ Abort(d)
  BY <1>3, Finishes DEF CleanupNetworkFails, Abort, Idle, Owns
<1> QED
  BY <1>1, <1>2, <1>3 DEF Leaves

-----------------------------------------------------------------------------
(* Types *)

\* The leases of a lab are its own.
LEMMA LeasesOfLab ==
  ASSUME NEW l \in Labs
  PROVE ActiveLeases(l) \subseteq Leases /\ \A k \in ActiveLeases(l) : k[1] = l
  BY DEF ActiveLeases

LEMMA DriverType ==
  ASSUME TypeOK, [Next]_vars
  PROVE driver' \in [Drivers -> DriverState]
<1>1. ASSUME NEW d \in Drivers, NEW l \in Labs, BeginCreate(d, l)
      PROVE driver' \in [Drivers -> DriverState]
  <2> DEFINE r == [pc |-> IF l \in Networked THEN "create.materialised"
                                             ELSE "create.networked",
                   lab |-> l, leases |-> ActiveLeases(l), made |-> {}, late |-> {}]
  <2>1. r \in DriverState
    BY LeasesOfLab DEF DriverState
  <2>2. Start(d, r)
    BY <1>1 DEF BeginCreate
  <2> HIDE DEF r
  <2> QED
    BY <2>1, <2>2, Starts
<1>2. ASSUME NEW d \in Drivers, NEW l \in Labs, NEW remove \in BOOLEAN,
             RemoveContainer(d, l, remove)
      PROVE driver' \in [Drivers -> DriverState]
  <2> DEFINE r == [pc |-> IF l \in Networked THEN "destroy.removed"
                                             ELSE "destroy.networked",
                   lab |-> l, remove_persistent_volume |-> remove]
  <2>1. r \in DriverState
    BY DEF DriverState
  <2>2. Start(d, r)
    BY <1>2 DEF RemoveContainer
  <2> HIDE DEF r
  <2> QED
    BY <2>1, <2>2, Starts
<1>3. ASSUME NEW d \in Drivers,
             CreateNetwork(d) \/ BuildEnvironment(d) \/ CleanupNetwork(d)
      PROVE driver' \in [Drivers -> DriverState]
  BY <1>3, GoesOn
  DEF CreateNetwork, BuildEnvironment, VolumesMade, CleanupNetwork, At, Creating
<1>4. ASSUME NEW d \in Drivers, RemoveNetwork(d)
      PROVE driver' \in [Drivers -> DriverState]
  BY <1>4, GoesOn DEF RemoveNetwork, At
<1>5. ASSUME NEW d \in Drivers, Finish(d)
      PROVE driver' \in [Drivers -> DriverState]
  BY <1>5, Finishes
<1>6. ASSUME NEW d \in Drivers, NEW v \in Volumes, EnsureVolume(d, v)
      PROVE driver' \in [Drivers -> DriverState]
  BY <1>6, Notes
<1>7. CASE UNCHANGED driver
  BY <1>7 DEF TypeOK
<1>8. CASE Outside
  BY <1>7, <1>8, Expires
  DEF Outside, StartLab, StopLab, SetStatus, GuestWrites, RunLab, DestroyRow,
      RevokeLease, BeginPass, CommitPass, PassFails
<1>9. ASSUME NEW d \in Drivers, Keeps(d) \/ Leaves(d) \/ Takes(d) \/ CreateContainer(d)
      PROVE driver' \in [Drivers -> DriverState]
  BY <1>1, <1>2, <1>3, <1>4, <1>5, <1>6, <1>9, CleansUp
  DEF Keeps, Leaves, Takes, CreateContainer, DuplicateNetwork, CleanupVolumes,
      RemovePersistentVolumes, CleanupNetworkFails, Abort
<1> QED
  BY <1>7, <1>8, <1>9, Steps DEF vars

\* The daemon's side of a step.
LEMMA DockerType ==
  ASSUME TypeOK, CallsWellFounded, LabsKeepTheirResources, [Next]_vars
  PROVE /\ container' \in [Labs -> ContainerStatus]
        /\ env' \in [Labs -> SUBSET Leases]
        /\ network' \subseteq Networked
        /\ data' \subseteq volume' /\ volume' \subseteq Volumes
        /\ leaked' \subseteq Labs
<1> DEFINE Goal == /\ container' \in [Labs -> ContainerStatus]
                   /\ env' \in [Labs -> SUBSET Leases]
                   /\ network' \subseteq Networked
                   /\ data' \subseteq volume' /\ volume' \subseteq Volumes
                   /\ leaked' \subseteq Labs
<1>1. ASSUME UNCHANGED <<docker, leaked>> PROVE Goal
  BY <1>1 DEF docker, TypeOK
<1>2. ASSUME NEW d \in Drivers, CreateNetwork(d) PROVE Goal
  <2>1. driver[d].lab \in Networked
    BY <1>2 DEF CreateNetwork, At, CallsWellFounded
  <2> QED
    BY <1>2, <2>1 DEF CreateNetwork, TypeOK
<1>3. ASSUME NEW d \in Drivers, NEW v \in Volumes, EnsureVolume(d, v) PROVE Goal
  BY <1>3 DEF EnsureVolume, TypeOK
<1>4. ASSUME NEW d \in Drivers, CreateContainer(d) PROVE Goal
  <2>1. driver[d] \in CreateState
    BY <1>4, CallShape DEF CreateContainer, VolumesMade, At, Creating
  <2>2. driver[d].lab \in Labs /\ driver[d].leases \subseteq Leases
    BY <2>1 DEF CreateState
  <2>3. Mounts[driver[d].lab] \subseteq Volumes
    BY <2>2, DockerRuntimeAssumption
  <2> QED
    BY <1>4, <2>2, <2>3 DEF CreateContainer, TypeOK, ContainerStatus
<1>5. ASSUME NEW d \in Drivers, CleanupNetwork(d) PROVE Goal
  BY <1>5 DEF CleanupNetwork, TypeOK
<1>6. ASSUME NEW d \in Drivers, CleanupNetworkFails(d) PROVE Goal
  <2>1. driver[d].lab \in Labs
    BY <1>6, CallShape DEF CleanupNetworkFails, At, Idle
  <2> QED
    BY <1>6, <2>1 DEF CleanupNetworkFails, TypeOK, docker
<1>7. ASSUME NEW d \in Drivers, CleanupVolumes(d) \/ RemovePersistentVolumes(d)
      PROVE Goal
  BY <1>7 DEF CleanupVolumes, RemovePersistentVolumes, RemoveVolumes, TypeOK
<1>8. ASSUME NEW l \in Labs, StartLab(l) \/ StopLab(l) PROVE Goal
  BY <1>8 DEF StartLab, StopLab, SetStatus, TypeOK, ContainerStatus
<1>9. ASSUME NEW d \in Drivers, NEW l \in Labs, NEW remove \in BOOLEAN,
             RemoveContainer(d, l, remove)
      PROVE Goal
  BY <1>9 DEF RemoveContainer, TypeOK, ContainerStatus
<1>10. ASSUME NEW d \in Drivers, RemoveNetwork(d) PROVE Goal
  <2>1. driver[d].lab \in Labs
    BY <1>10, CallShape DEF RemoveNetwork, At, Idle
  <2> QED
    BY <1>10, <2>1 DEF RemoveNetwork, TypeOK
<1>11. ASSUME NEW d \in Drivers, Abort(d) PROVE Goal
  <2>1. driver[d].lab \in Labs
    BY <1>11, CallShape DEF Abort
  <2> QED
    BY <1>11, <2>1 DEF Abort, TypeOK, docker
<1>12. ASSUME NEW l \in Labs, GuestWrites(l) PROVE Goal
  <2>1. Mounts[l] \subseteq volume
    BY <1>12 DEF GuestWrites, LabsKeepTheirResources
  <2> QED
    BY <1>12, <2>1 DEF GuestWrites, TypeOK
<1>13. CASE Outside
  BY <1>1, <1>8, <1>12, <1>13
  DEF Outside, RunLab, DestroyRow, RevokeLease, LeaseExpires, BeginPass, CommitPass,
      PassFails
<1>14. ASSUME NEW d \in Drivers, Keeps(d) \/ Leaves(d) \/ Takes(d) \/ CreateContainer(d)
       PROVE Goal
  BY <1>1, <1>2, <1>3, <1>4, <1>5, <1>6, <1>7, <1>9, <1>10, <1>11, <1>14
  DEF Keeps, Leaves, Takes, BeginCreate, DuplicateNetwork, BuildEnvironment, CreateFails
<1>15. CASE UNCHANGED vars
  BY <1>1, <1>15 DEF vars
<1> QED
  BY <1>13, <1>14, <1>15, Steps

LEMMA TypeStep ==
  ASSUME TypeOK, CallsWellFounded, LabsKeepTheirResources, [Next]_vars
  PROVE TypeOK'
<1>1. lab' \in [Labs -> LabStates]
  BY DEF TypeOK, LabStates, Next, vars, docker, CreateStep, BeginCreate, RemoveContainer,
         CreateNetwork, DuplicateNetwork, EnsureVolume, BuildEnvironment,
         CreateContainer, CreateFails, CleanupNetwork, CleanupNetworkFails,
         CleanupVolumes, RemoveNetwork, RemovePersistentVolumes, Abort, StartLab,
         StopLab, SetStatus, GuestWrites, RunLab, DestroyRow, RevokeLease,
         LeaseExpires, BeginPass, CommitPass, PassFails
<1>2. lease' \in [Leases -> LeaseState]
  BY DEF TypeOK, LeaseState, Next, vars, docker, CreateStep, BeginCreate, RemoveContainer,
         CreateNetwork, DuplicateNetwork, EnsureVolume, BuildEnvironment,
         CreateContainer, CreateFails, CleanupNetwork, CleanupNetworkFails,
         CleanupVolumes, RemoveNetwork, RemovePersistentVolumes, Abort, StartLab,
         StopLab, SetStatus, GuestWrites, RunLab, DestroyRow, RevokeLease,
         LeaseExpires, BeginPass, CommitPass, PassFails
<1>3. pass' \in PassState
  <2>1. \/ UNCHANGED pass \/ BeginPass \/ CommitPass \/ PassFails
    BY DEF Next, vars, CreateStep, BeginCreate, RemoveContainer, CreateNetwork,
           DuplicateNetwork, EnsureVolume, BuildEnvironment, CreateContainer,
           CreateFails, CleanupNetwork, CleanupNetworkFails, CleanupVolumes,
           RemoveNetwork, RemovePersistentVolumes, Abort, StartLab, StopLab,
           SetStatus, GuestWrites, RunLab, DestroyRow, RevokeLease, LeaseExpires
  <2>2. CASE UNCHANGED pass
    BY <2>2 DEF TypeOK
  <2>3. CASE BeginPass
    BY <2>3 DEF BeginPass, TypeOK, PassState
  <2>4. CASE CommitPass \/ PassFails
    BY <2>4 DEF CommitPass, PassFails, PassState
  <2> QED
    BY <2>1, <2>2, <2>3, <2>4
<1> QED
  BY <1>1, <1>2, <1>3, DriverType, DockerType DEF TypeOK

-----------------------------------------------------------------------------
(* The parts of the invariant *)

\* _build_environment is the only way to the call to the daemon.
LEMMA EndsElsewhere ==
  ASSUME TypeOK, NEW d \in Drivers,
         Keeps(d) \/ Leaves(d) \/ Takes(d) \/ CreateContainer(d), ~BuildEnvironment(d)
  PROVE ~At(d, "create.built")'
<1>1. ASSUME Finish(d) PROVE ~At(d, "create.built")'
  BY <1>1, Finishes DEF At, Idle
<1>2. ASSUME NEW l \in Labs, BeginCreate(d, l) PROVE ~At(d, "create.built")'
  BY <1>2 DEF BeginCreate, Start, At, TypeOK
<1>3. ASSUME NEW l \in Labs, NEW remove \in BOOLEAN, RemoveContainer(d, l, remove)
      PROVE ~At(d, "create.built")'
  BY <1>3 DEF RemoveContainer, Start, At, TypeOK
<1>4. ASSUME NEW v \in Volumes, EnsureVolume(d, v) PROVE ~At(d, "create.built")'
  BY <1>4, Notes DEF At
<1>5. CASE CreateFails(d)
  BY <1>5, CleansUp DEF At
<1>6. CASE CreateNetwork(d) \/ CleanupNetwork(d) \/ RemoveNetwork(d)
  <2>1. /\ driver[d] # Idle
        /\ \/ GoTo(d, "create.networked") \/ GoTo(d, "cleanup.volumes")
           \/ GoTo(d, "destroy.networked")
    BY <1>6 DEF CreateNetwork, CleanupNetwork, RemoveNetwork, At, Idle
  <2>2. driver'[d].pc \in {"create.networked", "cleanup.volumes", "destroy.networked"}
    BY <2>1, GoesTo
  <2> QED
    BY <2>2 DEF At
<1> QED
  BY <1>1, <1>2, <1>3, <1>4, <1>5, <1>6
  DEF Keeps, Leaves, Takes, CreateContainer, DuplicateNetwork, CleanupVolumes,
      RemovePersistentVolumes, CleanupNetworkFails, Abort

\* What a caller carries is changed by its own steps only, and for its lab.
LEMMA CallsStep ==
  ASSUME TypeOK, CallsWellFounded, [Next]_vars
  PROVE \A d \in Drivers :
          /\ Creating(d)' => /\ driver'[d].made \subseteq Mounts[driver'[d].lab]
                             /\ \A k \in driver'[d].leases : k[1] = driver'[d].lab
          /\ driver'[d].pc \in {"create.materialised", "cleanup.network",
                                "destroy.removed"}
               => driver'[d].lab \in Networked
<1> DEFINE Founded(d) ==
      /\ Creating(d) => /\ driver[d].made \subseteq Mounts[driver[d].lab]
                        /\ \A k \in driver[d].leases : k[1] = driver[d].lab
      /\ driver[d].pc \in {"create.materialised", "cleanup.network", "destroy.removed"}
           => driver[d].lab \in Networked
<1>1. ASSUME NEW d \in Drivers, driver'[d] = driver[d] PROVE Founded(d)'
  BY <1>1 DEF CallsWellFounded, Creating
<1>2. ASSUME NEW d \in Drivers, driver'[d] = Idle PROVE Founded(d)'
  BY <1>2 DEF Creating, Idle
<1>3. ASSUME NEW d \in Drivers, NEW l \in Labs, BeginCreate(d, l) PROVE Founded(d)'
  <2>1. driver'[d] = [pc |-> IF l \in Networked THEN "create.materialised"
                                               ELSE "create.networked",
                      lab |-> l, leases |-> ActiveLeases(l), made |-> {},
                      late |-> {}]
    BY <1>3 DEF BeginCreate, Start, TypeOK
  <2> QED
    BY <2>1, LeasesOfLab DEF Creating
<1>4. ASSUME NEW d \in Drivers, NEW l \in Labs, NEW remove \in BOOLEAN,
             RemoveContainer(d, l, remove)
      PROVE Founded(d)'
  <2>1. driver'[d] = [pc |-> IF l \in Networked THEN "destroy.removed"
                                               ELSE "destroy.networked",
                      lab |-> l, remove_persistent_volume |-> remove]
    BY <1>4 DEF RemoveContainer, Start, TypeOK
  <2> QED
    BY <2>1 DEF Creating
<1>5. ASSUME NEW d \in Drivers, NEW v \in Volumes, EnsureVolume(d, v) PROVE Founded(d)'
  <2>1. Founded(d) /\ Creating(d)
    BY <1>5 DEF CallsWellFounded, EnsureVolume, At, Creating
  <2> QED
    BY <1>5, <2>1, Notes DEF Creating
<1>6. ASSUME NEW d \in Drivers,
             \/ CreateNetwork(d) \/ BuildEnvironment(d) \/ CreateFails(d)
             \/ CleanupNetwork(d)
      PROVE Founded(d)'
  <2>1. Founded(d) /\ Creating(d) /\ driver[d] # Idle
    BY <1>6 DEF CallsWellFounded, CreateNetwork, BuildEnvironment, VolumesMade, CreateFails,
                CleanupNetwork, At, Creating, Idle
  <2>2. /\ driver'[d].lab = driver[d].lab
        /\ driver'[d].made = driver[d].made
        /\ driver'[d].leases = driver[d].leases
        /\ \/ driver'[d].pc \in {"create.networked", "create.built", "cleanup.volumes"}
           \/ driver'[d].pc = "cleanup.network" /\ driver[d].lab \in Networked
    <3>1. \/ GoTo(d, "create.networked") \/ GoTo(d, "create.built")
          \/ GoTo(d, "cleanup.volumes") \/ CreateFails(d)
      BY <1>6 DEF CreateNetwork, BuildEnvironment, CleanupNetwork
    <3> QED
      BY <2>1, <3>1, GoesTo, CleansUp
  <2> QED
    BY <2>1, <2>2 DEF Creating
<1>7. ASSUME NEW d \in Drivers, RemoveNetwork(d) PROVE Founded(d)'
  <2>1. driver[d] # Idle /\ GoTo(d, "destroy.networked")
    BY <1>7 DEF RemoveNetwork, At, Idle
  <2>2. driver'[d].pc = "destroy.networked"
    BY <2>1, GoesTo
  <2> QED
    BY <2>2 DEF Creating
<1>8. ASSUME NEW d \in Drivers, Keeps(d) \/ Leaves(d) \/ Takes(d) \/ CreateContainer(d)
      PROVE Founded(d)'
  <2>1. CASE Finish(d)
    BY <1>2, <2>1, Finishes
  <2> QED
    BY <1>3, <1>4, <1>5, <1>6, <1>7, <1>8, <2>1
    DEF Keeps, Leaves, Takes, CreateContainer, DuplicateNetwork, CleanupVolumes,
        RemovePersistentVolumes, CleanupNetworkFails, Abort
<1>9. CASE UNCHANGED driver
  BY <1>1, <1>9 DEF CallsWellFounded
<1>10. CASE Outside
  <2>1. ASSUME NEW k \in Leases, LeaseExpires(k), NEW d \in Drivers PROVE Founded(d)'
    <3>1. /\ driver'[d].pc = driver[d].pc
          /\ \/ driver'[d] = driver[d]
             \/ /\ driver'[d].lab = driver[d].lab
                /\ driver'[d].made = driver[d].made
                /\ driver'[d].leases = driver[d].leases
      BY <2>1, Expires
    <3> QED
      BY <3>1 DEF CallsWellFounded, Creating
  <2> QED
    BY <1>9, <1>10, <2>1
    DEF Outside, StartLab, StopLab, SetStatus, GuestWrites, RunLab, DestroyRow,
        RevokeLease, BeginPass, CommitPass, PassFails
<1>11. ASSUME NEW d \in Drivers, Keeps(d) \/ Leaves(d) \/ Takes(d) \/ CreateContainer(d)
       PROVE \A e \in Drivers : Founded(e)'
  BY <1>1, <1>8, <1>11, OnlyOwnCall
<1> QED
  BY <1>9, <1>10, <1>11, Steps DEF vars

\* A lease is looked at when the environment is built, and noted when it expires
\* after that.
LEMMA LateStep ==
  ASSUME TypeOK, CallsWellFounded, [Next]_vars, NEW d \in Drivers,
         At(d, "create.built")', NEW k \in driver'[d].leases, lease'[k] = "expired"
  PROVE k \in driver'[d].late
<1>1. k \in Leases
  BY DriverType, CallShape DEF At, DriverState, Idle
<1>2. CASE BuildEnvironment(d)
  <2>1. driver[d] # Idle /\ GoTo(d, "create.built")
    BY <1>2 DEF BuildEnvironment, VolumesMade, At, Idle
  <2>2. driver'[d].leases = driver[d].leases
    BY <2>1, GoesTo
  <2> QED
    BY <1>2, <2>2 DEF BuildEnvironment, EnvironmentBuilt
<1>3. CASE driver'[d] = driver[d] /\ (lease'[k] = "expired" => lease[k] = "expired")
  BY <1>3 DEF CallsWellFounded, At
<1>4. ASSUME NEW m \in Leases, LeaseExpires(m) PROVE k \in driver'[d].late
  <2>1. At(d, "create.built") /\ driver'[d].leases = driver[d].leases
    BY <1>4, Expires DEF At
  <2>2. k # m => lease'[k] = lease[k]
    BY <1>1, <1>4 DEF LeaseExpires, TypeOK
  <2>3. lease[k] = "expired" => k \in driver[d].late
    BY <2>1 DEF CallsWellFounded
  <2> QED
    BY <1>4, <2>1, <2>2, <2>3, Expires
<1>5. ASSUME NEW m \in Leases, RevokeLease(m)
      PROVE UNCHANGED driver /\ (lease'[k] = "expired" => lease[k] = "expired")
  BY <1>1, <1>5 DEF RevokeLease, TypeOK
<1>6. CASE Outside
  BY <1>3, <1>4, <1>5, <1>6
  DEF Outside, StartLab, StopLab, SetStatus, GuestWrites, RunLab, DestroyRow, BeginPass,
      CommitPass, PassFails
<1>7. ASSUME NEW e \in Drivers, Keeps(e) \/ Leaves(e) \/ Takes(e) \/ CreateContainer(e)
      PROVE k \in driver'[d].late
  <2>1. UNCHANGED lease
    BY <1>7
    DEF Keeps, Leaves, Takes, CreateContainer, BeginCreate, DuplicateNetwork, CreateFails,
        BuildEnvironment, CleanupVolumes, RemovePersistentVolumes, EnsureVolume,
        CleanupNetwork, CleanupNetworkFails, RemoveNetwork, Abort, CreateNetwork,
        RemoveContainer
  <2>2. CASE e # d
    BY <1>3, <1>7, <2>1, <2>2, OnlyOwnCall
  <2>3. CASE e = d
    <3>1. BuildEnvironment(d)
      BY <1>7, <2>3, EndsElsewhere
    <3> QED
      BY <1>2, <3>1
  <2> QED
    BY <2>2, <2>3
<1>8. CASE UNCHANGED vars
  BY <1>3, <1>8 DEF vars
<1> QED
  BY <1>6, <1>7, <1>8, Steps

LEMMA CallsWellFoundedStep ==
  ASSUME TypeOK, CallsWellFounded, [Next]_vars
  PROVE CallsWellFounded'
  BY CallsStep, LateStep DEF CallsWellFounded

\* How a step that gives up a network leaves it: removed by the caller that had
\* it, or recorded as left behind.
LEMMA LeavesBehind ==
  ASSUME TypeOK, CallsWellFounded, NEW d \in Drivers, Leaves(d), NEW l \in Networked
  PROVE /\ UNCHANGED container
        /\ l \in network' => l \in network
        /\ l \in leaked => l \in leaked'
        /\ l \in network /\ l \notin network' => Owns(d, l)
        /\ l \in network' /\ Owns(d, l) => l \in leaked'
<1>1. CASE CleanupNetwork(d)
  BY <1>1 DEF CleanupNetwork, At, Owns
<1>2. CASE CleanupNetworkFails(d)
  BY <1>2 DEF CleanupNetworkFails, At, Owns, docker
<1>3. CASE RemoveNetwork(d)
  BY <1>3 DEF RemoveNetwork, At, Owns
<1>4. CASE Abort(d)
  BY <1>4 DEF Abort, Owns, docker
<1> QED
  BY <1>1, <1>2, <1>3, <1>4 DEF Leaves

\* How a caller gets a network: it makes one, or removes the container of one.
LEMMA TakesOver ==
  ASSUME TypeOK, CallsWellFounded, NEW d \in Drivers, Takes(d)
  PROVE \E m \in Labs :
          /\ UNCHANGED leaked
          /\ \A l \in Networked : ~Owns(d, l)
          /\ \A l \in Networked : Owns(d, l)' <=> l = m
          /\ \/ /\ m \notin network /\ m \in Networked
                /\ network' = network \cup {m} /\ UNCHANGED container
             \/ /\ container[m] # "absent"
                /\ container' = [container EXCEPT ![m] = "absent"]
                /\ UNCHANGED network
<1>1. CASE CreateNetwork(d)
  <2>1. /\ driver[d] # Idle /\ GoTo(d, "create.networked")
        /\ driver[d].lab \in Networked
        /\ \A l \in Networked : ~Owns(d, l)
    BY <1>1 DEF CreateNetwork, At, Idle, CallsWellFounded, Owns
  <2>2. driver'[d].pc = "create.networked" /\ driver'[d].lab = driver[d].lab
    BY <2>1, GoesTo
  <2>3. \A l \in Networked : Owns(d, l)' <=> l = driver[d].lab
    BY <2>2 DEF Owns
  <2>4. driver[d].lab \in Labs
    BY <2>1, DockerRuntimeAssumption
  <2> QED
    BY <1>1, <2>1, <2>3, <2>4 DEF CreateNetwork
<1>2. ASSUME NEW m \in Labs, NEW remove \in BOOLEAN, RemoveContainer(d, m, remove)
      PROVE /\ UNCHANGED <<leaked, network>>
            /\ \A l \in Networked : ~Owns(d, l)
            /\ \A l \in Networked : Owns(d, l)' <=> l = m
            /\ container[m] # "absent"
            /\ container' = [container EXCEPT ![m] = "absent"]
  <2>1. /\ driver[d] = Idle
        /\ driver'[d].pc = IF m \in Networked THEN "destroy.removed"
                                              ELSE "destroy.networked"
        /\ driver'[d].lab = m
    BY <1>2 DEF RemoveContainer, Start, TypeOK
  <2>2. /\ \A l \in Networked : ~Owns(d, l)
        /\ \A l \in Networked : Owns(d, l)' <=> l = m
    BY <2>1 DEF Owns, Idle
  <2> QED
    BY <1>2, <2>2 DEF RemoveContainer
<1> QED
  BY <1>1, <1>2 DEF Takes

\* The container is created by the caller that has the lab's network.
LEMMA Creates ==
  ASSUME TypeOK, NEW d \in Drivers, CreateContainer(d)
  PROVE \E m \in Labs :
          /\ \A l \in Networked : Owns(d, l) <=> l = m
          /\ \A l \in Networked : ~Owns(d, l)'
          /\ container' = [container EXCEPT ![m] = "created"]
          /\ volume' = volume \cup Mounts[m]
          /\ UNCHANGED <<network, leaked>>
<1>1. driver[d].pc = "create.built" /\ driver[d].lab \in Labs
  BY CallShape DEF CreateContainer, At, Idle
<1>2. \A l \in Networked : Owns(d, l) <=> l = driver[d].lab
  BY <1>1 DEF Owns
<1>3. \A l \in Networked : ~Owns(d, l)'
  BY Finishes DEF CreateContainer, Owns, Idle
<1> QED
  BY <1>1, <1>2, <1>3 DEF CreateContainer

\* Nobody else has to do with containers, networks or calls.
LEMMA OutsideKeeps ==
  ASSUME TypeOK, Outside \/ UNCHANGED vars
  PROVE /\ UNCHANGED <<network, volume, leaked>>
        /\ \A d \in Drivers, l \in Labs : Owns(d, l)' <=> Owns(d, l)
        /\ \A l \in Labs : container'[l] = "absent" <=> container[l] = "absent"
<1>1. ASSUME NEW l \in Labs, StartLab(l) \/ StopLab(l)
      PROVE \A m \in Labs : container'[m] = "absent" <=> container[m] = "absent"
  BY <1>1 DEF StartLab, StopLab, SetStatus, TypeOK
<1>2. ASSUME UNCHANGED driver
      PROVE \A d \in Drivers, l \in Labs : Owns(d, l)' <=> Owns(d, l)
  BY <1>2 DEF Owns
<1>3. ASSUME NEW k \in Leases, LeaseExpires(k)
      PROVE \A d \in Drivers, l \in Labs : Owns(d, l)' <=> Owns(d, l)
  BY <1>3, Expires DEF Owns
<1>4. \A d \in Drivers, l \in Labs : Owns(d, l)' <=> Owns(d, l)
  BY <1>2, <1>3 DEF Outside, StartLab, StopLab, SetStatus, GuestWrites, RunLab, DestroyRow,
                    RevokeLease, BeginPass, CommitPass, PassFails, vars
<1> QED
  BY <1>1, <1>4 DEF Outside, StartLab, StopLab, SetStatus, GuestWrites, RunLab, DestroyRow,
              RevokeLease, LeaseExpires, BeginPass, CommitPass, PassFails, vars, docker

\* The other steps of a call have nothing to do with networks.
LEMMA KeepsDocker ==
  ASSUME NEW d \in Drivers, Keeps(d)
  PROVE UNCHANGED <<container, network, leaked>>
  BY DEF Keeps, BeginCreate, DuplicateNetwork, BuildEnvironment, CreateFails,
         CleanupVolumes, RemovePersistentVolumes, EnsureVolume, docker

\* check_duplicate lets nobody make a network that another caller or a container
\* has, and whoever removes a network has it to himself.
LEMMA NetworksStep ==
  ASSUME TypeOK, CallsWellFounded, NetworksAreOwned, LabsKeepTheirResources,
         [Next]_vars
  PROVE NetworksAreOwned'
<1> SUFFICES ASSUME NEW l \in Networked
             PROVE /\ \A d \in Drivers :
                        Owns(d, l)' => l \in network' /\ container'[l] = "absent"
                   /\ \A d, e \in Drivers : Owns(d, l)' /\ Owns(e, l)' => d = e
                   /\ l \in network' /\ container'[l] = "absent" =>
                        l \in leaked' \/ \E d \in Drivers : Owns(d, l)'
  BY DEF NetworksAreOwned
<1>1. /\ \A d \in Drivers : Owns(d, l) => l \in network /\ container[l] = "absent"
      /\ \A d, e \in Drivers : Owns(d, l) /\ Owns(e, l) => d = e
      /\ l \in network /\ container[l] = "absent" =>
           l \in leaked \/ \E d \in Drivers : Owns(d, l)
      /\ container[l] # "absent" => l \in network
      /\ l \in Labs
      /\ container \in [Labs -> ContainerStatus]
  BY DockerRuntimeAssumption DEF NetworksAreOwned, LabsKeepTheirResources, TypeOK
<1>2. ASSUME NEW d \in Drivers, Keeps(d) \/ Leaves(d) \/ Takes(d) \/ CreateContainer(d)
      PROVE \A e \in Drivers \ {d} : Owns(e, l)' <=> Owns(e, l)
  BY <1>1, <1>2, OthersOwn
<1>3. ASSUME NEW d \in Drivers, Keeps(d)
      PROVE /\ \A e \in Drivers : Owns(e, l)' <=> Owns(e, l)
            /\ UNCHANGED <<container, network, leaked>>
  BY <1>2, <1>3, KeepsOwns, KeepsDocker
<1>4. CASE \E d \in Drivers : Keeps(d)
  BY <1>1, <1>3, <1>4
<1>5. ASSUME NEW d \in Drivers, Leaves(d)
      PROVE /\ \A e \in Drivers : Owns(e, l)' <=> Owns(e, l) /\ e # d
            /\ UNCHANGED container
            /\ l \in network' => l \in network
            /\ l \in leaked => l \in leaked'
            /\ l \in network /\ l \notin network' => Owns(d, l)
            /\ l \in network' /\ Owns(d, l) => l \in leaked'
  BY <1>1, <1>2, <1>5, LeavesOwns, LeavesBehind
<1>6. CASE \E d \in Drivers : Leaves(d)
  BY <1>1, <1>5, <1>6
<1>7. ASSUME NEW d \in Drivers, Takes(d)
      PROVE /\ \A e \in Drivers : Owns(e, l)' => l \in network' /\ container'[l] = "absent"
            /\ \A e, f \in Drivers : Owns(e, l)' /\ Owns(f, l)' => e = f
            /\ l \in network' /\ container'[l] = "absent" =>
                 l \in leaked' \/ \E e \in Drivers : Owns(e, l)'
  <2>1. PICK m \in Labs :
          /\ UNCHANGED leaked
          /\ \A k \in Networked : ~Owns(d, k)
          /\ \A k \in Networked : Owns(d, k)' <=> k = m
          /\ \/ /\ m \notin network /\ m \in Networked
                /\ network' = network \cup {m} /\ UNCHANGED container
             \/ /\ container[m] # "absent"
                /\ container' = [container EXCEPT ![m] = "absent"]
                /\ UNCHANGED network
    BY <1>7, TakesOver
  <2> QED
    BY <1>1, <1>2, <1>7, <2>1
<1>8. CASE \E d \in Drivers : Takes(d)
  BY <1>7, <1>8
<1>9. ASSUME NEW d \in Drivers, CreateContainer(d)
      PROVE /\ \A e \in Drivers : Owns(e, l)' => l \in network' /\ container'[l] = "absent"
            /\ \A e, f \in Drivers : Owns(e, l)' /\ Owns(f, l)' => e = f
            /\ l \in network' /\ container'[l] = "absent" =>
                 l \in leaked' \/ \E e \in Drivers : Owns(e, l)'
  <2>1. PICK m \in Labs :
          /\ \A k \in Networked : Owns(d, k) <=> k = m
          /\ \A k \in Networked : ~Owns(d, k)'
          /\ container' = [container EXCEPT ![m] = "created"]
          /\ volume' = volume \cup Mounts[m]
          /\ UNCHANGED <<network, leaked>>
    BY <1>9, Creates
  <2> QED
    BY <1>1, <1>2, <1>9, <2>1
<1>10. CASE \E d \in Drivers : CreateContainer(d)
  BY <1>9, <1>10
<1>11. CASE Outside \/ UNCHANGED vars
  <2>1. \A d \in Drivers : Owns(d, l)' <=> Owns(d, l)
    BY <1>1, <1>11, OutsideKeeps
  <2> QED
    BY <1>1, <1>11, <2>1, OutsideKeeps
<1> QED
  BY <1>4, <1>6, <1>8, <1>10, <1>11, Steps

\* A volume is removed by the clean-up of a failed create_lab or by a
\* destroy_lab that is told to, of a lab that names it, and not while a
\* container mounts it.
LEMMA VolumeRemovers ==
  ASSUME TypeOK, CallsWellFounded, [Next]_vars,
         NEW v, v \in volume \ volume' \/ v \in data \ data'
  PROVE /\ ~InUse(v)
        /\ \E d \in Drivers : /\ driver[d] # Idle /\ driver'[d] = Idle
                              /\ v \in Mounts[driver[d].lab]
                              /\ \/ At(d, "cleanup.volumes")
                                 \/ driver[d].remove_persistent_volume
<1>1. PICK d \in Drivers : CleanupVolumes(d) \/ RemovePersistentVolumes(d)
  BY DEF Next, vars, docker, CreateStep, BeginCreate, RemoveContainer, CreateNetwork,
         DuplicateNetwork, EnsureVolume, BuildEnvironment, CreateContainer,
         CreateFails, CleanupNetwork, CleanupNetworkFails, RemoveNetwork, Abort,
         StartLab, StopLab, SetStatus, GuestWrites, RunLab, DestroyRow, RevokeLease,
         LeaseExpires, BeginPass, CommitPass, PassFails
<1>2. driver[d] # Idle /\ driver'[d] = Idle
  BY <1>1, Finishes DEF CleanupVolumes, RemovePersistentVolumes, At, Idle
<1>3. CASE CleanupVolumes(d)
  <2>1. v \in driver[d].made /\ ~InUse(v) /\ At(d, "cleanup.volumes")
    BY <1>3 DEF CleanupVolumes, RemoveVolumes
  <2>2. v \in Mounts[driver[d].lab]
    BY <2>1 DEF CallsWellFounded, Creating, At
  <2> QED
    BY <1>2, <1>3, <2>1, <2>2 DEF CleanupVolumes
<1>4. CASE RemovePersistentVolumes(d)
  <2>1. /\ v \in Mounts[driver[d].lab] /\ ~InUse(v)
        /\ driver[d].remove_persistent_volume
    BY <1>4 DEF RemovePersistentVolumes, RemoveVolumes
  <2> QED
    BY <1>2, <1>4, <2>1 DEF RemovePersistentVolumes
<1> QED
  BY <1>1, <1>3, <1>4

\* The network of a container has no other owner, and its volumes are in use.
LEMMA ResourcesStep ==
  ASSUME TypeOK, CallsWellFounded, NetworksAreOwned, LabsKeepTheirResources,
         [Next]_vars
  PROVE LabsKeepTheirResources'
<1> SUFFICES ASSUME NEW l \in Labs, container'[l] # "absent"
             PROVE /\ l \in Networked => l \in network'
                   /\ Mounts[l] \subseteq volume'
  BY DEF LabsKeepTheirResources
<1>1. container \in [Labs -> ContainerStatus]
  BY DEF TypeOK
<1>2. ASSUME container[l] # "absent" PROVE Mounts[l] \subseteq volume'
  <2>1. \A v \in Mounts[l] : v \in volume /\ InUse(v)
    BY <1>2 DEF LabsKeepTheirResources, InUse
  <2> QED
    BY <2>1, VolumeRemovers
<1>3. ASSUME NEW d \in Drivers, CreateContainer(d)
      PROVE /\ container[l] = "absent" => Mounts[l] \subseteq volume'
            /\ l \in Networked => l \in network'
  <2>1. PICK m \in Labs :
          /\ \A k \in Networked : Owns(d, k) <=> k = m
          /\ \A k \in Networked : ~Owns(d, k)'
          /\ container' = [container EXCEPT ![m] = "created"]
          /\ volume' = volume \cup Mounts[m]
          /\ UNCHANGED <<network, leaked>>
    BY <1>3, Creates
  <2> QED
    BY <1>1, <2>1 DEF NetworksAreOwned, LabsKeepTheirResources
<1>4. ASSUME NEW d \in Drivers, Takes(d)
      PROVE container[l] # "absent" /\ (l \in Networked => l \in network')
  <2>1. PICK m \in Labs :
          /\ UNCHANGED leaked
          /\ \A k \in Networked : ~Owns(d, k)
          /\ \A k \in Networked : Owns(d, k)' <=> k = m
          /\ \/ /\ m \notin network /\ m \in Networked
                /\ network' = network \cup {m} /\ UNCHANGED container
             \/ /\ container[m] # "absent"
                /\ container' = [container EXCEPT ![m] = "absent"]
                /\ UNCHANGED network
    BY <1>4, TakesOver
  <2> QED
    BY <1>1, <2>1 DEF LabsKeepTheirResources
<1>5. ASSUME NEW d \in Drivers, Leaves(d)
      PROVE container[l] # "absent" /\ (l \in Networked => l \in network')
  <2>1. container[l] # "absent"
    BY <1>5 DEF Leaves, CleanupNetwork, CleanupNetworkFails, RemoveNetwork, Abort, docker
  <2>2. ASSUME l \in Networked PROVE l \in network'
    <3>1. l \in network /\ ~Owns(d, l)
      BY <2>1, <2>2 DEF NetworksAreOwned, LabsKeepTheirResources
    <3> QED
      BY <1>5, <2>2, <3>1, LeavesBehind
  <2> QED
    BY <2>1, <2>2
<1>6. ASSUME NEW d \in Drivers, Keeps(d)
      PROVE container[l] # "absent" /\ (l \in Networked => l \in network')
  BY <1>6, KeepsDocker DEF LabsKeepTheirResources
<1>7. CASE Outside \/ UNCHANGED vars
  <2>1. container[l] # "absent" /\ UNCHANGED network
    BY <1>7, OutsideKeeps
  <2> QED
    BY <1>2, <2>1 DEF LabsKeepTheirResources
<1> QED
  BY <1>2, <1>3, <1>4, <1>5, <1>6, <1>7, Steps

LEMMA IndInvInit ==
  ASSUME Init
  PROVE IndInv
<1>1. TypeOK
  BY DEF Init, TypeOK, LabStates, ContainerStatus, LeaseState, DriverState, PassState
<1>2. \A d \in Drivers : driver[d].pc = "idle"
  BY DEF Init, Idle
<1>3. CallsWellFounded /\ NetworksAreOwned
  BY <1>2 DEF CallsWellFounded, NetworksAreOwned, Creating, At, Owns, Init
<1>4. LabsKeepTheirResources
  BY DEF Init, LabsKeepTheirResources
<1> QED
  BY <1>1, <1>3, <1>4 DEF IndInv

LEMMA IndInvStep ==
  ASSUME IndInv, [Next]_vars
  PROVE IndInv'
  BY TypeStep, CallsWellFoundedStep, NetworksStep, ResourcesStep DEF IndInv

-----------------------------------------------------------------------------
(* The theorems *)

\* Every reachable state satisfies the invariant.
THEOREM Inductive == Spec => []IndInv
  BY IndInvInit, IndInvStep, PTL DEF Spec

\* The daemon's resources, the rows, the leases and the calls keep their types.
THEOREM TypeCorrect == Spec => []TypeOK
<1>1. IndInv => TypeOK
  BY DEF IndInv
<1> QED
  BY <1>1, Inductive, PTL

\* A container has its network and its volumes for as long as it exists, also
\* when another create_lab or destroy_lab of the same lab, or of one that
\* shares a volume, fails half way.
THEOREM ContainersKeepTheirResources == Spec => []LabsKeepTheirResources
<1>1. IndInv => LabsKeepTheirResources
  BY DEF IndInv
<1> QED
  BY <1>1, Inductive, PTL

\* A network that check_duplicate will object to has a container, a caller at
\* work, or was left behind by one that died or could not remove it.
THEOREM NetworksAreAccountedFor == Spec => []NetworksHaveAnOwner
<1>1. IndInv => NetworksHaveAnOwner
  <2> SUFFICES ASSUME IndInv, NEW l \in network, container[l] = "absent", l \notin leaked
               PROVE \E d \in Drivers : WorkingOn(d, l)
    BY DEF NetworksHaveAnOwner
  <2>1. PICK d \in Drivers : Owns(d, l)
    BY DEF IndInv, TypeOK, NetworksAreOwned
  <2> QED
    BY <2>1 DEF Owns, WorkingOn, Idle
<1> QED
  BY <1>1, Inductive, PTL

\* _build_environment lets no secret of another lab into a container, and none of
\* a lease that expired before it looked.
THEOREM SecretsStayOut == Spec => ExpiredSecretsStayOut
<1> DEFINE Safe == \A l \in Labs : \A k \in env'[l] \ env[l] :
                     /\ k[1] = l
                     /\ lease[k] = "expired" =>
                          \E d \in Drivers :
                            /\ At(d, "create.built") /\ driver'[d] = Idle
                            /\ driver[d].lab = l /\ k \in driver[d].late
<1>1. ASSUME IndInv, [Next]_vars PROVE Safe
  <2>1. ASSUME NEW d \in Drivers, CreateContainer(d) PROVE Safe
    <3>1. /\ driver[d].lab \in Labs /\ At(d, "create.built")
          /\ \A k \in driver[d].leases :
               /\ k[1] = driver[d].lab
               /\ lease[k] = "expired" => k \in driver[d].late
      BY <1>1, <2>1, CallShape
      DEF CreateContainer, At, Idle, IndInv, CallsWellFounded, Creating
    <3>2. /\ env' = [env EXCEPT ![driver[d].lab] = driver[d].leases]
          /\ driver'[d] = Idle
      BY <1>1, <2>1, Finishes DEF CreateContainer, IndInv
    <3> QED
      BY <1>1, <3>1, <3>2 DEF IndInv, TypeOK
  <2>2. ASSUME NEW d \in Drivers, NEW l \in Labs, NEW remove \in BOOLEAN,
               RemoveContainer(d, l, remove)
        PROVE Safe
    BY <1>1, <2>2 DEF RemoveContainer, IndInv, TypeOK
  <2>3. CASE UNCHANGED env
    BY <2>3
  <2> QED
    BY <1>1, <2>1, <2>2, <2>3
    DEF Next, vars, docker, CreateStep, BeginCreate, CreateNetwork, DuplicateNetwork,
        EnsureVolume, BuildEnvironment, CreateFails, CleanupNetwork,
        CleanupNetworkFails, CleanupVolumes, RemoveNetwork, RemovePersistentVolumes,
        Abort, StartLab, StopLab, SetStatus, GuestWrites, RunLab, DestroyRow,
        RevokeLease, LeaseExpires, BeginPass, CommitPass, PassFails
<1>2. ASSUME IndInv, [Next]_vars PROVE [Safe]_vars
  BY <1>1, <1>2
<1> QED
  BY <1>2, Inductive, PTL DEF Spec, ExpiredSecretsStayOut

\* What a guest wrote is removed only by a destroy_lab that is told to or by
\* the clean-up of a create_lab that named the volume, and never under a
\* container.
THEOREM GuestsKeepTheirData == Spec => WrittenDataIsKept
<1> DEFINE Safe == \A v \in data \ data' :
                     /\ ~InUse(v)
                     /\ \E d \in Drivers :
                          /\ driver[d] # Idle /\ driver'[d] = Idle
                          /\ v \in Mounts[driver[d].lab]
                          /\ \/ At(d, "cleanup.volumes")
                             \/ driver[d].remove_persistent_volume
<1>1. ASSUME IndInv, [Next]_vars PROVE [Safe]_vars
  BY <1>1, VolumeRemovers DEF IndInv
<1> QED
  BY <1>1, Inductive, PTL DEF Spec, WrittenDataIsKept
=============================================================================
