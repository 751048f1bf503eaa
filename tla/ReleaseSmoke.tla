---------------------------- MODULE ReleaseSmoke ----------------------------
(***************************************************************************)
(* The release smokes of the operator CLI.  smoke-docs and smoke-cli       *)
(* create a lab through an API, read it back and destroy it; smoke-local   *)
(* makes a temporary root, boots an API of its own on a free port, runs    *)
(* both against that port in a process of their own, runs the Docker smoke *)
(* if the host has Docker, and cleans up.                                  *)
(*                                                                         *)
(* Requests reach whichever API listens on the port.  A request may be     *)
(* answered late or never, and may be carried out after its client gave up *)
(* on it; processes die, ports are taken and the operator interrupts.      *)
(***************************************************************************)
EXTENDS Naturals, FiniteSets

CONSTANTS
  Locals,    \* smoke-local commands; each names its API server too
  Directs,   \* smoke-docs or smoke-cli commands against the standing API
  Standing,  \* an API the operator runs, on a port of its choice
  Ports

Commands == Locals \cup Directs
Servers == Locals \cup {Standing}

ASSUME ReleaseSmokeAssumption ==
  /\ Locals \cap Directs = {}
  /\ Standing \notin Commands

VARIABLES
  pc,           \* where each command is
  smoke,        \* the smoke it is running, docs or cli
  port,         \* the port each command talks to and each server binds
  server,       \* the API processes
  root,         \* commands whose temporary root exists
  lab,          \* the lab each smoke creates, and in whose database
  known,        \* created_lab: the labs whose POST was answered
  requests,     \* requests sent, or left to a process to send, and not carried out
  waiting,      \* commands that wait for an answer
  result,       \* exit status
  gate,         \* what the Docker smoke of each smoke-local showed
  docker,       \* whether the Docker CLI and daemon answer
  faults,       \* failures each command has met (history)
  killed,       \* labs whose smoke was killed under way (history)
  cutShort,     \* commands whose own clean-up did not succeed (history)
  interrupted   \* commands the operator has interrupted, at most once each

api == <<port, server, lab, requests>>
ghosts == <<faults, killed, cutShort>>
vars == <<pc, smoke, api, root, known, waiting, result, gate, docker, ghosts,
          interrupted>>

Smokes == {"docs", "cli"}
Lab == Commands \X Smokes
NoPort == "no port"
NoServer == "no server"

\* The steps of release_smoke_docs and release_smoke_cli: check stands for
\* what they read before they create, read for what they read afterwards.
SmokeSteps == {"check", "create", "read", "destroy", "cleanup"}

Steps ==
  SmokeSteps \cup {"start", "prepare", "initialise", "spawn", "wait", "probe",
                   "pytest", "stop", "kill", "remove", "done"}

\* server is NoServer as long as an orphaned process has not sent the request.
Request == [client: Commands, op: {"create", "destroy"}, lab: Lab,
            server: Servers \cup {NoServer}]

TypeOK ==
  /\ pc \in [Commands -> Steps]
  /\ smoke \in [Commands -> Smokes]
  /\ port \in [Commands \cup Servers -> Ports \cup {NoPort}]
  /\ server \in [Servers -> {"none", "starting", "up", "exited"}]
  /\ root \subseteq Locals
  /\ lab \in [Lab -> [state: {"none", "live", "destroyed"},
                      server: Servers \cup {NoServer}]]
  /\ known \subseteq Lab
  /\ requests \subseteq Request
  /\ waiting \subseteq Commands
  /\ result \in [Commands -> {"none", "ok", "failed"}]
  /\ gate \in [Locals -> {"none", "closed", "ready", "passed", "skipped"}]
  /\ docker \in BOOLEAN
  /\ faults \in [Commands -> Nat]
  /\ killed \subseteq Locals \X Smokes
  /\ cutShort \subseteq Locals
  /\ interrupted \subseteq Commands

Init ==
  /\ pc = [c \in Commands |-> "start"]
  /\ smoke \in {f \in [Commands -> Smokes] : \A c \in Locals : f[c] = "docs"}
  /\ port = [x \in Commands \cup Servers |-> NoPort]
  /\ server = [s \in Servers |-> "none"]
  /\ root = {}
  /\ lab = [x \in Lab |-> [state |-> "none", server |-> NoServer]]
  /\ known = {}
  /\ requests = {}
  /\ waiting = {}
  /\ result = [c \in Commands |-> "none"]
  /\ gate = [c \in Locals |-> "none"]
  /\ docker \in BOOLEAN
  /\ faults = [c \in Commands |-> 0]
  /\ killed = {}
  /\ cutShort = {}
  /\ interrupted = {}

CurrentLab(c) == <<c, smoke[c]>>

Listeners(p) == {s \in Servers : server[s] = "up" /\ port[s] = p}

GoTo(c, step) == pc' = [pc EXCEPT ![c] = step]

-----------------------------------------------------------------------------
(* How a command fails *)

\* Mutant: the lab is cleaned up only when destroying it failed.
CleansUpAfterDestroy(c) ==
  IF CurrentLab(c) \in known /\ pc[c] = "destroy" THEN "cleanup"
  ELSE IF c \in Locals THEN "stop" ELSE "done"

\* except BaseException: destroy the lab if its id is known, then go on
\* failing; smoke-local's finally comes next.
AfterFailure(c) ==
  CASE pc[c] = "prepare" -> "done"
    [] pc[c] \in SmokeSteps \ {"cleanup"} /\ CurrentLab(c) \in known -> "cleanup"
    [] OTHER -> IF c \in Locals THEN "stop" ELSE "done"

Fail(c) ==
  /\ GoTo(c, AfterFailure(c))
  /\ result' = [result EXCEPT ![c] = "failed"]
  /\ faults' = [faults EXCEPT ![c] = @ + 1]
  /\ cutShort' = cutShort \cup (IF pc[c] = "prepare" THEN {c} ELSE {})
  /\ waiting' = waiting \ {c}
  /\ UNCHANGED <<smoke, api, root, known, gate, docker, killed>>

-----------------------------------------------------------------------------
(* smoke-docs and smoke-cli *)

StartDirect(c) ==
  /\ pc[c] = "start"
  /\ server[Standing] = "up"
  /\ port' = [port EXCEPT ![c] = port[Standing]]
  /\ GoTo(c, "check")
  /\ UNCHANGED <<smoke, server, lab, requests, root, known, waiting, result, gate,
                 docker, ghosts, interrupted>>

\* The GETs, and the CLI commands that only read.
Reads(c) ==
  /\ pc[c] \in {"check", "read"}
  /\ Listeners(port[c]) # {}
  /\ GoTo(c, IF pc[c] = "check" THEN "create" ELSE "destroy")
  /\ UNCHANGED <<smoke, api, root, known, waiting, result, gate, docker, ghosts,
                 interrupted>>

RequestOf(c, s) ==
  [client |-> c, op |-> IF pc[c] = "create" THEN "create" ELSE "destroy",
   lab |-> CurrentLab(c), server |-> s]

\* POST /labs and DELETE /labs/{id}; the best effort to clean up sends the
\* same DELETE.
Send(c) ==
  /\ pc[c] \in {"create", "destroy", "cleanup"}
  /\ c \notin waiting
  /\ \E s \in Listeners(port[c]) : requests' = requests \cup {RequestOf(c, s)}
  /\ waiting' = waiting \cup {c}
  /\ UNCHANGED <<pc, smoke, port, server, lab, root, known, result, gate, docker,
                 ghosts, interrupted>>

\* The request fails or is refused, or 10 seconds go by (_request_json); a step
\* that reads fails the same way.
RequestFails(c) ==
  /\ pc[c] \in SmokeSteps \ {"cleanup"}
  /\ Fail(c)
  /\ UNCHANGED interrupted

\* Whatever goes wrong with the best effort is suppressed, and the failure that
\* led to it goes on.
CleanupFails(c) ==
  /\ pc[c] = "cleanup"
  /\ Fail(c)
  /\ UNCHANGED interrupted

\* Which answer a request gets: a DELETE is refused unless the lab is there.
Accepted(q) ==
  q.op = "destroy" => lab[q.lab] = [state |-> "live", server |-> q.server]

\* The server carries out a request, whether or not anybody still waits.
Carry(q) ==
  /\ q \in requests
  /\ q.server \in Servers /\ server[q.server] = "up"
  /\ requests' = requests \ {q}
  /\ lab' = IF Accepted(q)
            THEN [lab EXCEPT ![q.lab] =
                    [state |-> IF q.op = "create" THEN "live" ELSE "destroyed",
                     server |-> q.server]]
            ELSE lab

\* Where a command goes when the answer it waited for is good: with a smoke
\* that ended well, smoke-local goes on, unless it was interrupted meanwhile.
AfterAnswer(c) ==
  CASE pc[c] = "create" -> "read"
    [] pc[c] = "destroy" /\ c \in Locals \ interrupted ->
         IF smoke[c] = "docs" THEN "check" ELSE "probe"
    [] OTHER -> IF c \in Locals THEN "stop" ELSE "done"

NextSmoke(c) == IF AfterAnswer(c) = "check" THEN "cli" ELSE smoke[c]

\* The answer arrives: the id of a lab becomes known, or the smoke goes on.
Answer(q) ==
  LET c == q.client
  IN /\ c \in waiting
     /\ q.lab = CurrentLab(c)
     /\ (q.op = "create") <=> (pc[c] = "create")
     /\ Carry(q)
     /\ Accepted(q)
     /\ known' = IF q.op = "create" THEN known \cup {q.lab} ELSE known
     /\ GoTo(c, AfterAnswer(c))
     /\ smoke' = [smoke EXCEPT ![c] = NextSmoke(c)]
     /\ result' = IF AfterAnswer(c) = "done" /\ result[c] = "none"
                  THEN [result EXCEPT ![c] = "ok"] ELSE result
     /\ waiting' = waiting \ {c}
     /\ UNCHANGED <<port, server, root, gate, docker, ghosts, interrupted>>

\* Nobody learns that the request was carried out.
AnswerLost(q) ==
  /\ Carry(q)
  /\ UNCHANGED <<pc, smoke, port, server, root, known, waiting, result, gate,
                 docker, ghosts, interrupted>>

-----------------------------------------------------------------------------
(* A smoke that is killed *)

\* smoke-cli sends each request from a process of its own.  The one it had just
\* started outlives it, and may still send.
Unsent(c) ==
  IF smoke[c] = "cli" /\ pc[c] \in {"create", "destroy", "cleanup"} /\ c \notin waiting
  THEN {RequestOf(c, NoServer)} ELSE {}

\* The process in which smoke-local runs a smoke is gone, and no handler of it
\* runs; smoke-local sees a CLI command that failed.
LoseSmoke(c) ==
  /\ c \in Locals /\ pc[c] \in SmokeSteps
  /\ GoTo(c, "stop")
  /\ result' = [result EXCEPT ![c] = "failed"]
  /\ killed' = killed \cup {CurrentLab(c)}
  /\ waiting' = waiting \ {c}
  /\ requests' \in {requests, requests \cup Unsent(c)}
  /\ UNCHANGED <<smoke, port, server, lab, root, known, gate, docker, cutShort,
                 interrupted>>

SmokeDies(c) ==
  /\ LoseSmoke(c)
  /\ faults' = [faults EXCEPT ![c] = @ + 1]

\* subprocess.run of an interrupted smoke-local gives the smoke a quarter of a
\* second more.
KillSmoke(c) ==
  /\ c \in interrupted
  /\ LoseSmoke(c)
  /\ UNCHANGED faults

OrphanSends(q) ==
  /\ q.server = NoServer
  /\ \E s \in Listeners(port[q.client]) :
       requests' = (requests \ {q}) \cup {[q EXCEPT !.server = s]}
  /\ UNCHANGED <<pc, smoke, port, server, lab, root, known, waiting, result, gate,
                 docker, ghosts, interrupted>>

OrphanEnds(q) ==
  /\ q.server = NoServer
  /\ requests' = requests \ {q}
  /\ UNCHANGED <<pc, smoke, port, server, lab, root, known, waiting, result, gate,
                 docker, ghosts, interrupted>>

-----------------------------------------------------------------------------
(* smoke-local *)

\* mkdtemp, before anything else and outside of the try.
MakeRoot(c) ==
  /\ pc[c] = "start"
  /\ root' = root \cup {c}
  /\ GoTo(c, "prepare")
  /\ UNCHANGED <<smoke, api, known, waiting, result, gate, docker, ghosts,
                 interrupted>>

\* _find_free_tcp_port binds a port and lets it go again.
FindPort(c) ==
  /\ pc[c] = "prepare"
  /\ \E p \in Ports :
       /\ Listeners(p) = {}
       /\ port' = [port EXCEPT ![c] = p]
  /\ GoTo(c, "initialise")
  /\ UNCHANGED <<smoke, server, lab, requests, root, known, waiting, result, gate,
                 docker, ghosts, interrupted>>

InitializeDatabase(c) ==
  /\ pc[c] = "initialise"
  /\ GoTo(c, "spawn")
  /\ UNCHANGED <<smoke, api, root, known, waiting, result, gate, docker, ghosts,
                 interrupted>>

StartServer(c) ==
  /\ pc[c] = "spawn"
  /\ server' = [server EXCEPT ![c] = "starting"]
  /\ GoTo(c, "wait")
  /\ UNCHANGED <<smoke, port, lab, requests, root, known, waiting, result, gate,
                 docker, ghosts, interrupted>>

\* _wait_for_api_ready is content with any API that answers on the port.
Ready(c) ==
  /\ pc[c] = "wait"
  /\ Listeners(port[c]) # {}
  /\ GoTo(c, "check")
  /\ UNCHANGED <<smoke, api, root, known, waiting, result, gate, docker, ghosts,
                 interrupted>>

\* Mutant: the wait has no deadline.
OnlyErrors(c) ==
  /\ pc[c] \in {"prepare", "initialise", "spawn", "pytest"}
  /\ Fail(c)
  /\ UNCHANGED interrupted

\* No port or no process to be had, a database error, no API within 15
\* seconds, or a Docker smoke that fails.
StepFails(c) ==
  /\ pc[c] \in {"prepare", "initialise", "spawn", "wait", "pytest"}
  /\ Fail(c)
  /\ UNCHANGED interrupted

\* Mutant: a host without Docker passes the gate.
PassesWithoutDocker(c) ==
  /\ pc[c] = "probe"
  /\ gate' = [gate EXCEPT ![c] = IF docker THEN "ready" ELSE "closed"]
  /\ result' = IF docker THEN result ELSE [result EXCEPT ![c] = "ok"]
  /\ GoTo(c, IF docker THEN "pytest" ELSE "stop")
  /\ UNCHANGED <<smoke, api, root, known, waiting, docker, ghosts, interrupted>>

\* probe_docker_environment; the smoke runs only if the host is ready.
ProbeDocker(c) ==
  /\ pc[c] = "probe"
  /\ gate' = [gate EXCEPT ![c] = IF docker THEN "ready" ELSE "closed"]
  /\ result' = IF docker THEN result ELSE [result EXCEPT ![c] = "failed"]
  /\ GoTo(c, IF docker THEN "pytest" ELSE "stop")
  /\ UNCHANGED <<smoke, api, root, known, waiting, docker, ghosts, interrupted>>

\* The test probes again and is skipped, without an error, if Docker has gone.
RunPytest(c) ==
  /\ pc[c] = "pytest"
  /\ gate' = [gate EXCEPT ![c] = IF docker THEN "passed" ELSE "skipped"]
  /\ result' = [result EXCEPT ![c] = "ok"]
  /\ GoTo(c, "stop")
  /\ UNCHANGED <<smoke, api, root, known, waiting, docker, ghosts, interrupted>>

\* A server that goes down takes the requests it has not carried out with it.
Down(s) ==
  /\ server' = [server EXCEPT ![s] = "exited"]
  /\ requests' = {q \in requests : q.server # s}

\* Mutant: a process that has to be killed is left alone.
TerminatesOnly(c) ==
  /\ pc[c] = "stop"
  /\ \/ /\ server[c] \in {"none", "exited"}
        /\ UNCHANGED <<server, requests>>
        /\ GoTo(c, "remove")
     \/ /\ server[c] \in {"starting", "up"}
        /\ Down(c) \/ UNCHANGED <<server, requests>>
        /\ GoTo(c, "remove")
  /\ UNCHANGED <<smoke, port, lab, root, known, waiting, result, gate, docker,
                 ghosts, interrupted>>

\* _stop_process: nothing if it has ended, else terminate and wait 5 seconds.
StopServer(c) ==
  /\ pc[c] = "stop"
  /\ \/ /\ server[c] \in {"none", "exited"}
        /\ UNCHANGED <<server, requests>>
        /\ GoTo(c, "remove")
     \/ /\ server[c] \in {"starting", "up"}
        /\ \/ Down(c) /\ GoTo(c, "remove")
           \/ UNCHANGED <<server, requests>> /\ GoTo(c, "kill")
  /\ UNCHANGED <<smoke, port, lab, root, known, waiting, result, gate, docker,
                 ghosts, interrupted>>

KillServer(c) ==
  /\ pc[c] = "kill"
  /\ Down(c)
  /\ GoTo(c, "remove")
  /\ UNCHANGED <<smoke, port, lab, root, known, waiting, result, gate, docker,
                 ghosts, interrupted>>

\* An exception leaves the finally block: what comes after it is not done.
LeaveFinally(c) ==
  /\ GoTo(c, "done")
  /\ result' = [result EXCEPT ![c] = "failed"]
  /\ faults' = [faults EXCEPT ![c] = @ + 1]
  /\ cutShort' = cutShort \cup {c}
  /\ UNCHANGED <<smoke, api, root, known, waiting, gate, docker, killed>>

\* The process outlives the kill by 5 seconds: TimeoutExpired.
KillTimesOut(c) ==
  /\ pc[c] = "kill"
  /\ server[c] # "exited"
  /\ LeaveFinally(c)
  /\ UNCHANGED interrupted

\* rmtree(ignore_errors=True) may leave the root, and nobody is told.
RemoveRoot(c) ==
  /\ pc[c] = "remove"
  /\ \/ root' = root \ {c} /\ UNCHANGED cutShort
     \/ UNCHANGED root /\ cutShort' = cutShort \cup {c}
  /\ GoTo(c, "done")
  /\ UNCHANGED <<smoke, api, known, waiting, result, gate, docker, faults, killed,
                 interrupted>>

-----------------------------------------------------------------------------
(* The environment *)

\* The signal reaches smoke-local while its smoke runs, and not the smoke.
InterruptParent(c) ==
  /\ c \in Locals /\ pc[c] \in SmokeSteps
  /\ result' = [result EXCEPT ![c] = "failed"]
  /\ faults' = [faults EXCEPT ![c] = @ + 1]
  /\ UNCHANGED <<pc, smoke, api, root, known, waiting, gate, docker, killed, cutShort>>

\* KeyboardInterrupt: an exception like any other, except while cleaning up; a
\* smoke in a process of its own may be interrupted with smoke-local or not.
Interrupt(c) ==
  /\ pc[c] \notin {"start", "done"}
  /\ c \notin interrupted
  /\ interrupted' = interrupted \cup {c}
  /\ \/ pc[c] \in {"stop", "kill", "remove"} /\ LeaveFinally(c)
     \/ pc[c] \notin {"stop", "kill", "remove"} /\ Fail(c)
     \/ InterruptParent(c)

\* Uvicorn binds its port, or exits because somebody else has it.
Bind(s) ==
  /\ server[s] = "starting"
  /\ server' = [server EXCEPT ![s] = IF Listeners(port[s]) = {} THEN "up" ELSE "exited"]
  /\ UNCHANGED <<pc, smoke, port, lab, requests, root, known, waiting, result, gate,
                 docker, ghosts, interrupted>>

StartStanding(p) ==
  /\ server[Standing] = "none"
  /\ Listeners(p) = {}
  /\ server' = [server EXCEPT ![Standing] = "up"]
  /\ port' = [port EXCEPT ![Standing] = p]
  /\ UNCHANGED <<pc, smoke, lab, requests, root, known, waiting, result, gate,
                 docker, ghosts, interrupted>>

ServerDies(s) ==
  /\ server[s] \in {"starting", "up"}
  /\ Down(s)
  /\ UNCHANGED <<pc, smoke, port, lab, root, known, waiting, result, gate, docker,
                 ghosts, interrupted>>

DockerChanges ==
  /\ \E c \in Locals : pc[c] = "pytest"
  /\ docker' = ~docker
  /\ UNCHANGED <<pc, smoke, api, root, known, waiting, result, gate, ghosts,
                 interrupted>>

-----------------------------------------------------------------------------

SmokeStep(c) ==
  \/ Reads(c) \/ Send(c) \/ RequestFails(c) \/ CleanupFails(c) \/ KillSmoke(c)

LocalStep(c) ==
  \/ MakeRoot(c) \/ FindPort(c) \/ InitializeDatabase(c) \/ StartServer(c)
  \/ Ready(c) \/ StepFails(c) \/ ProbeDocker(c) \/ RunPytest(c)
  \/ StopServer(c) \/ KillServer(c) \/ KillTimesOut(c) \/ RemoveRoot(c)

Done ==
  /\ \A c \in Commands : pc[c] = "done"
  /\ requests = {}
  /\ UNCHANGED vars

Next ==
  \/ \E c \in Commands : SmokeStep(c) \/ Interrupt(c)
  \/ \E c \in Directs : StartDirect(c)
  \/ \E c \in Locals : LocalStep(c) \/ SmokeDies(c) \/ Bind(c) \/ ServerDies(c)
  \/ \E q \in requests : Answer(q) \/ AnswerLost(q) \/ OrphanSends(q) \/ OrphanEnds(q)
  \/ \E p \in Ports : StartStanding(p)
  \/ DockerChanges
  \/ Done

Spec == Init /\ [][Next]_vars

\* A command that runs goes on: each request, the wait for the API and the stop of
\* the server have a deadline, and a smoke in a process of its own consists of
\* those.  The Docker smoke has none: pytest may hang on the daemon for ever.
Fairness ==
  \A c \in Commands :
    WF_vars(/\ pc[c] \notin {"start", "pytest"}
            /\ SmokeStep(c) \/ (c \in Locals /\ LocalStep(c)))

FairSpec == Spec /\ Fairness

-----------------------------------------------------------------------------
(* What the commands promise *)

\* A smoke has ended and its lab is still live on an API that still runs.
Left(x) ==
  /\ lab[x].state = "live"
  /\ server[lab[x].server] = "up"
  /\ pc[x[1]] \notin SmokeSteps \/ smoke[x[1]] # x[2]

\* One failure, whichever API answered, never leaves a lab whose id its smoke has
\* learnt, unless that failure kills the smoke itself (the interrupt of a
\* smoke-local does): otherwise a second one has to hit the clean-up.  A lab
\* whose POST went unanswered is left after one.
LeftoversHaveACause ==
  \A x \in Lab :
    Left(x) => faults[x[1]] >= (IF x \in known \ killed THEN 2 ELSE 1)

\* A smoke that exits with 0 has destroyed the labs it made; smoke-local has
\* run the Docker smoke too, which is skipped only if Docker has gone since.
SuccessIsEarned ==
  \A c \in Commands :
    result[c] = "ok" =>
      /\ c \in Directs => lab[CurrentLab(c)].state = "destroyed"
      /\ c \in Locals => /\ \A k \in Smokes : lab[<<c, k>>].state = "destroyed"
                         /\ gate[c] \in {"passed", "skipped"}

\* The server of smoke-local and its files go together: no server runs on a
\* root that was removed, and none is left when the command has ended, however
\* it ended, unless its own clean-up was cut short.
NothingOfLocalIsLeft ==
  \A c \in Locals :
    /\ server[c] \in {"starting", "up"} => c \in root
    /\ pc[c] = "done" /\ c \notin cutShort =>
         c \notin root /\ server[c] \in {"none", "exited"}

\* Every command that is started ends, or waits for ever for the one thing it
\* has no deadline for.
CommandsEnd ==
  \A c \in Commands : <>[](pc[c] \in {"start", "pytest", "done"})

-----------------------------------------------------------------------------
(* Why: what a command knows of its labs *)

\* The smoke of c that creates lab <<c, k>> has not sent its POST.
NotYet(c, k) ==
  IF smoke[c] = k
  THEN \/ pc[c] \in {"start", "prepare", "initialise", "spawn", "wait", "check"}
       \/ pc[c] = "create" /\ c \notin waiting
  ELSE smoke[c] = "docs" \/ c \in Directs

\* Nothing has been heard of a lab.
Untouched(x) ==
  /\ lab[x].state = "none"
  /\ x \notin known
  /\ \A q \in requests : q.lab # x

CommandsWellFounded ==
  \A c \in Commands :
    /\ c \in Directs => pc[c] \in SmokeSteps \cup {"start", "done"}
    /\ c \in waiting => pc[c] \in {"create", "destroy", "cleanup"}
    /\ pc[c] \in {"read", "destroy", "cleanup"} => CurrentLab(c) \in known
    /\ pc[c] = "cleanup" => result[c] = "failed" /\ faults[c] >= 1
    /\ result[c] = "ok" => pc[c] \in {"stop", "kill", "remove", "done"}
    /\ c \in interrupted =>
         /\ pc[c] \in SmokeSteps \cup {"stop", "kill", "remove", "done"}
         /\ result[c] = "failed" /\ faults[c] >= 1

\* One POST is sent for a lab, and none is under way once it was answered.
CreatedOnce ==
  /\ \A c \in Commands, k \in Smokes : NotYet(c, k) => Untouched(<<c, k>>)
  /\ \A q, r \in requests :
       q.op = "create" => /\ q.lab \notin known
                          /\ r.op = "create" /\ r.lab = q.lab => r = q

\* A POST that went out is waited for, or a failure was met; a lab that is known
\* and live has its smoke at work on it, or it was killed, or two were.
FailuresAreCounted ==
  \A c \in Commands, k \in Smokes :
    LET x == <<c, k>>
    IN /\ /\ x \notin known
          /\ \/ lab[x].state # "none"
             \/ \E q \in requests : q.op = "create" /\ q.lab = x
          => \/ faults[c] >= 1
             \/ smoke[c] = k /\ pc[c] = "create" /\ c \in waiting
       /\ x \in known /\ lab[x].state = "live"
          => \/ faults[c] >= 2
             \/ x \in killed /\ faults[c] >= 1
             \/ smoke[c] = k /\ pc[c] \in SmokeSteps

Destroyed(x) == x \in known /\ lab[x].state = "destroyed"

\* What the steps of a command have behind them.
ProgressIsReal ==
  /\ \A c \in Locals :
       /\ smoke[c] = "cli" => Destroyed(<<c, "docs">>)
       /\ pc[c] \in {"probe", "pytest"} => smoke[c] = "cli" /\ Destroyed(<<c, "cli">>)
  /\ \A c \in Commands :
       result[c] = "ok" =>
         /\ c \in Directs => Destroyed(CurrentLab(c))
         /\ c \in Locals => /\ \A k \in Smokes : Destroyed(<<c, k>>)
                            /\ gate[c] \in {"passed", "skipped"}

\* A server is started on a root, and the root is removed after the server.
ServersHaveRoots ==
  \A c \in Locals :
    /\ pc[c] \in {"start", "prepare", "initialise", "spawn"} => server[c] = "none"
    /\ pc[c] \notin {"start", "done"} => c \in root
    /\ pc[c] = "remove" => server[c] \in {"none", "exited"}

IndInv ==
  /\ TypeOK
  /\ CommandsWellFounded
  /\ CreatedOnce
  /\ FailuresAreCounted
  /\ ProgressIsReal
  /\ ServersHaveRoots
  /\ NothingOfLocalIsLeft
=============================================================================
