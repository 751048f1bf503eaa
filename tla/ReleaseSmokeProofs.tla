------------------------- MODULE ReleaseSmokeProofs -------------------------
(***************************************************************************)
(* The release smokes for any commands and ports: which labs a command may *)
(* leave behind, what a success stands for, and what smoke-local cleans    *)
(* up.                                                                     *)
(*                                                                         *)
(* The first part sorts the steps into a few kinds; the parts of the       *)
(* invariant that are about commands and their labs are preserved kind by  *)
(* kind, the ones about servers and roots action by action.                *)
(***************************************************************************)
EXTENDS ReleaseSmoke, TLAPS

-----------------------------------------------------------------------------
(* Kinds of steps *)

SmokeMoves == {<<"check", "create">>, <<"read", "destroy">>}

LocalMoves ==
  {<<"start", "prepare">>, <<"prepare", "initialise">>, <<"initialise", "spawn">>,
   <<"spawn", "wait">>, <<"wait", "check">>, <<"stop", "remove">>, <<"stop", "kill">>,
   <<"kill", "remove">>, <<"remove", "done">>}

LabView ==
  <<smoke, known, waiting, result, gate, lab, faults, killed, interrupted>>

\* A command goes on and nothing happens to a lab.
MovesOn(c) ==
  /\ UNCHANGED LabView
  /\ requests' \subseteq requests
  /\ \E p \in Steps : /\ GoTo(c, p)
                      /\ \/ <<pc[c], p>> \in SmokeMoves
                         \/ c \in Locals /\ <<pc[c], p>> \in LocalMoves
                         \/ c \in Directs /\ pc[c] = "start" /\ p = "check"

\* A failure, and what it lets a command do next.
Fails(c) ==
  /\ pc[c] \notin {"start", "stop", "kill", "remove", "done"}
  /\ Fail(c)
  /\ interrupted' \subseteq interrupted \cup {c}

\* An exception in smoke-local's finally.
Leaves(c) ==
  /\ pc[c] \in {"stop", "kill", "remove"}
  /\ LeaveFinally(c)
  /\ interrupted' \subseteq interrupted \cup {c}

\* The smoke of a smoke-local is gone.
Loses(c) ==
  /\ LoseSmoke(c)
  /\ \/ faults' = [faults EXCEPT ![c] = @ + 1]
     \/ c \in interrupted /\ UNCHANGED faults

\* A smoke-local is interrupted and its smoke is not.
Hit(c) ==
  /\ InterruptParent(c)
  /\ interrupted' = interrupted \cup {c}

\* Servers and Docker come and go, and requests with them.
Around ==
  /\ UNCHANGED <<LabView, pc>>
  /\ requests' \subseteq requests

\* A process that outlived its smoke sends its request.
Sends(q) ==
  /\ UNCHANGED <<LabView, pc>>
  /\ \E s \in Servers : requests' = (requests \ {q}) \cup {[q EXCEPT !.server = s]}

LEMMA Kinds ==
  ASSUME TypeOK, [Next]_vars
  PROVE \/ Around
        \/ \E c \in Commands : MovesOn(c) \/ Fails(c) \/ Leaves(c) \/ Send(c)
        \/ \E c \in Commands : Loses(c) \/ Hit(c)
        \/ \E c \in Locals : ProbeDocker(c) \/ RunPytest(c)
        \/ \E q \in requests : Answer(q) \/ AnswerLost(q) \/ Sends(q)
<1>1. ASSUME NEW c \in Directs, StartDirect(c) PROVE MovesOn(c)
  BY <1>1 DEF StartDirect, MovesOn, LabView, ghosts, Steps, SmokeSteps
<1>2. ASSUME NEW c \in Commands, Reads(c) PROVE MovesOn(c)
  BY <1>2 DEF Reads, MovesOn, LabView, ghosts, api, Steps, SmokeSteps, SmokeMoves
<1>3. ASSUME NEW c \in Locals,
             \/ MakeRoot(c) \/ FindPort(c) \/ InitializeDatabase(c) \/ StartServer(c)
             \/ Ready(c) \/ RemoveRoot(c)
      PROVE MovesOn(c)
  BY <1>3 DEF MakeRoot, FindPort, InitializeDatabase, StartServer, Ready, RemoveRoot,
              MovesOn, LabView, ghosts, api, Steps, SmokeSteps, LocalMoves
<1>4. ASSUME NEW c \in Locals, StopServer(c) \/ KillServer(c) PROVE MovesOn(c)
  BY <1>4 DEF StopServer, KillServer, Down, MovesOn, LabView, ghosts, Steps, SmokeSteps,
              LocalMoves
<1>5. ASSUME NEW c \in Commands, RequestFails(c) \/ CleanupFails(c) \/ StepFails(c)
      PROVE Fails(c)
  BY <1>5 DEF RequestFails, CleanupFails, StepFails, Fails, SmokeSteps
<1>6. ASSUME NEW c \in Commands, KillTimesOut(c) PROVE Leaves(c)
  BY <1>6 DEF KillTimesOut, Leaves
<1>7. ASSUME NEW c \in Commands, Interrupt(c) PROVE Fails(c) \/ Leaves(c) \/ Hit(c)
  BY <1>7 DEF Interrupt, Fails, Leaves, Hit
<1>8. ASSUME NEW s \in Servers, Bind(s) \/ ServerDies(s) PROVE Around
  BY <1>8 DEF Bind, ServerDies, Down, Around, LabView, ghosts
<1>9. CASE (\E p \in Ports : StartStanding(p)) \/ DockerChanges
  BY <1>9 DEF StartStanding, DockerChanges, Around, LabView, ghosts, api
<1>10. CASE Done \/ UNCHANGED vars
  BY <1>10 DEF Done, vars, Around, LabView, ghosts, api
<1>11. Locals \subseteq Commands /\ Directs \subseteq Commands /\ Locals \subseteq Servers
  BY DEF Commands, Servers
<1>12. ASSUME NEW c \in Commands, SmokeStep(c) \/ Interrupt(c)
       PROVE MovesOn(c) \/ Fails(c) \/ Leaves(c) \/ Send(c) \/ Loses(c) \/ Hit(c)
  BY <1>2, <1>5, <1>7, <1>12 DEF SmokeStep, KillSmoke, Loses
<1>13. ASSUME NEW c \in Locals, LocalStep(c)
       PROVE MovesOn(c) \/ Fails(c) \/ Leaves(c) \/ ProbeDocker(c) \/ RunPytest(c)
  BY <1>3, <1>4, <1>5, <1>6, <1>11, <1>13 DEF LocalStep
<1>14. ASSUME NEW c \in Locals, SmokeDies(c) PROVE Loses(c)
  BY <1>14 DEF SmokeDies, Loses
<1>15. ASSUME NEW q \in requests, OrphanSends(q) PROVE Sends(q)
  BY <1>15 DEF OrphanSends, Sends, Listeners, LabView, ghosts
<1>16. ASSUME NEW q \in requests, OrphanEnds(q) PROVE Around
  BY <1>16 DEF OrphanEnds, Around, LabView, ghosts
<1> QED
  BY <1>1, <1>8, <1>9, <1>10, <1>11, <1>12, <1>13, <1>14, <1>15, <1>16 DEF Next

-----------------------------------------------------------------------------
(* Where a failure and an answer lead *)

LEMMA FailureLeads ==
  ASSUME NEW c \in Commands
  PROVE /\ AfterFailure(c) = "cleanup" =>
             pc[c] \in SmokeSteps \ {"cleanup"} /\ CurrentLab(c) \in known
        /\ pc[c] \in SmokeSteps \ {"cleanup"} /\ CurrentLab(c) \in known =>
             AfterFailure(c) = "cleanup"
        /\ AfterFailure(c) \in {"cleanup", "stop", "done"}
        /\ AfterFailure(c) = "stop" => c \in Locals
        /\ c \in Locals /\ AfterFailure(c) = "done" => pc[c] = "prepare"
        /\ pc[c] = "prepare" => AfterFailure(c) = "done"
  BY DEF AfterFailure, SmokeSteps

LEMMA AnswerLeads ==
  ASSUME NEW c \in Commands, pc[c] \in {"create", "destroy", "cleanup"}
  PROVE /\ pc[c] = "create" => AfterAnswer(c) = "read"
        /\ pc[c] = "cleanup" /\ c \in Locals => AfterAnswer(c) = "stop"
        /\ pc[c] = "cleanup" /\ c \notin Locals => AfterAnswer(c) = "done"
        /\ pc[c] = "destroy" /\ c \notin Locals => AfterAnswer(c) = "done"
        /\ pc[c] = "destroy" /\ c \in Locals \cap interrupted =>
             AfterAnswer(c) = "stop"
        /\ pc[c] = "destroy" /\ c \in Locals \ interrupted /\ smoke[c] = "docs" =>
             AfterAnswer(c) = "check"
        /\ pc[c] = "destroy" /\ c \in Locals \ interrupted /\ smoke[c] # "docs" =>
             AfterAnswer(c) = "probe"
        /\ AfterAnswer(c) = "check" => pc[c] = "destroy" /\ smoke[c] = "docs"
  BY DEF AfterAnswer

\* A command of one kind is not of the other.
LEMMA CommandKinds ==
  ASSUME NEW c \in Commands
  PROVE c \in Directs <=> c \notin Locals
  BY ReleaseSmokeAssumption DEF Commands

LEMMA LabPairs ==
  /\ \A c \in Commands, k \in Smokes : <<c, k>> \in Lab
  /\ \A x \in Lab : /\ x[1] \in Commands /\ x[2] \in Smokes
                    /\ x = <<x[1], x[2]>>
  BY DEF Lab

\* What is left of an answer: the request is carried out, and its lab is the
\* only one that changes.
LEMMA Carries ==
  ASSUME TypeOK, NEW q \in requests, Carry(q)
  PROVE /\ q.lab \in Lab
        /\ requests' = requests \ {q}
        /\ \A x \in Lab : x # q.lab => lab'[x] = lab[x]
        /\ q.op = "create" => lab'[q.lab].state = "live"
        /\ q.op # "create" => \/ lab'[q.lab] = lab[q.lab]
                              \/ /\ lab[q.lab].state = "live"
                                 /\ lab'[q.lab].state = "destroyed"
        /\ q.op # "create" /\ Accepted(q) => lab'[q.lab].state = "destroyed"
        /\ lab' \in [Lab -> [state: {"none", "live", "destroyed"},
                             server: Servers \cup {NoServer}]]
<1>1. q \in Request /\ q.lab \in Lab /\ q.op \in {"create", "destroy"} /\ q.server \in Servers
  BY DEF TypeOK, Request, Carry
<1>2. CASE Accepted(q)
  BY <1>1, <1>2 DEF Carry, TypeOK, Accepted
<1>3. CASE ~Accepted(q)
  BY <1>1, <1>3 DEF Carry, TypeOK, Accepted
<1> QED
  BY <1>2, <1>3

-----------------------------------------------------------------------------
(* Types *)

\* The parts of the state that a command's view of its labs is made of.
LEMMA ViewType ==
  ASSUME TypeOK, CommandsWellFounded, [Next]_vars
  PROVE /\ pc' \in [Commands -> Steps]
        /\ smoke' \in [Commands -> Smokes]
        /\ lab' \in [Lab -> [state: {"none", "live", "destroyed"},
                             server: Servers \cup {NoServer}]]
        /\ known' \subseteq Lab
        /\ requests' \subseteq Request
        /\ waiting' \subseteq Commands
        /\ result' \in [Commands -> {"none", "ok", "failed"}]
        /\ gate' \in [Locals -> {"none", "closed", "ready", "passed", "skipped"}]
        /\ faults' \in [Commands -> Nat]
        /\ killed' \subseteq Locals \X Smokes
<1>1. /\ pc \in [Commands -> Steps]
      /\ smoke \in [Commands -> Smokes]
      /\ lab \in [Lab -> [state: {"none", "live", "destroyed"},
                          server: Servers \cup {NoServer}]]
      /\ known \subseteq Lab
      /\ requests \subseteq Request
      /\ waiting \subseteq Commands
      /\ result \in [Commands -> {"none", "ok", "failed"}]
      /\ gate \in [Locals -> {"none", "closed", "ready", "passed", "skipped"}]
      /\ faults \in [Commands -> Nat]
      /\ killed \subseteq Locals \X Smokes
      /\ Locals \subseteq Commands
  BY DEF TypeOK, Commands
<1>2. CASE Around
  BY <1>1, <1>2 DEF Around, LabView
<1>3. ASSUME NEW c \in Commands, MovesOn(c)
      PROVE /\ pc' \in [Commands -> Steps]
            /\ requests' \subseteq Request
            /\ UNCHANGED LabView
  BY <1>1, <1>3 DEF MovesOn, GoTo
<1>4. ASSUME NEW c \in Commands, Fails(c)
      PROVE /\ pc' \in [Commands -> Steps]
            /\ waiting' \subseteq Commands
            /\ result' \in [Commands -> {"none", "ok", "failed"}]
            /\ faults' \in [Commands -> Nat]
            /\ UNCHANGED <<smoke, lab, known, requests, gate, killed>>
  <2>1. AfterFailure(c) \in Steps
    BY FailureLeads DEF Steps, SmokeSteps
  <2> QED
    BY <1>1, <1>4, <2>1 DEF Fails, Fail, GoTo, api
<1>5. ASSUME NEW c \in Commands, Leaves(c)
      PROVE /\ pc' \in [Commands -> Steps]
            /\ result' \in [Commands -> {"none", "ok", "failed"}]
            /\ faults' \in [Commands -> Nat]
            /\ UNCHANGED <<smoke, lab, known, requests, gate, waiting, killed>>
  <2>1. "done" \in Steps
    BY DEF Steps
  <2> QED
    BY <1>1, <1>5, <2>1 DEF Leaves, LeaveFinally, GoTo, api
<1>6. ASSUME NEW c \in Commands, Send(c)
      PROVE /\ requests' \subseteq Request
            /\ waiting' \subseteq Commands
            /\ UNCHANGED <<pc, smoke, lab, known, result, gate, faults, killed>>
  <2>1. CurrentLab(c) \in Lab
    BY <1>1 DEF CurrentLab, Lab
  <2>2. \A s \in Listeners(port[c]) : s \in Servers
    BY DEF Listeners
  <2>3. \A s \in Servers : RequestOf(c, s) \in Request
    BY <2>1 DEF Request, RequestOf
  <2> QED
    BY <1>1, <1>6, <2>2, <2>3 DEF Send, ghosts
<1>7. ASSUME NEW c \in Locals, ProbeDocker(c) \/ RunPytest(c)
      PROVE /\ pc' \in [Commands -> Steps]
            /\ result' \in [Commands -> {"none", "ok", "failed"}]
            /\ gate' \in [Locals -> {"none", "closed", "ready", "passed", "skipped"}]
            /\ UNCHANGED <<smoke, lab, known, requests, waiting, faults, killed>>
  <2>1. {"pytest", "stop"} \subseteq Steps
    BY DEF Steps
  <2> QED
    BY <1>1, <1>7, <2>1 DEF ProbeDocker, RunPytest, GoTo, api, ghosts
<1>8. ASSUME NEW q \in requests, Answer(q)
      PROVE /\ pc' \in [Commands -> Steps]
            /\ smoke' \in [Commands -> Smokes]
            /\ known' \subseteq Lab
            /\ waiting' \subseteq Commands
            /\ result' \in [Commands -> {"none", "ok", "failed"}]
            /\ UNCHANGED <<gate, faults, killed>>
  <2>1. q.client \in Commands /\ q.lab \in Lab /\ q.client \in waiting
    BY <1>1, <1>8 DEF Request, Answer
  <2>2. pc[q.client] \in {"create", "destroy", "cleanup"}
    BY <2>1 DEF CommandsWellFounded
  <2>3. AfterAnswer(q.client) \in Steps
    BY <2>1, <2>2, AnswerLeads, CommandKinds DEF Steps, SmokeSteps
  <2>4. NextSmoke(q.client) \in Smokes
    BY <1>1, <2>1 DEF NextSmoke, Smokes
  <2> QED
    BY <1>1, <1>8, <2>1, <2>3, <2>4 DEF Answer, GoTo, ghosts
<1>9. ASSUME NEW q \in requests, Answer(q) \/ AnswerLost(q)
      PROVE /\ requests' \subseteq Request
            /\ lab' \in [Lab -> [state: {"none", "live", "destroyed"},
                                 server: Servers \cup {NoServer}]]
  BY <1>1, <1>9, Carries DEF Answer, AnswerLost
<1>10. ASSUME NEW q \in requests, AnswerLost(q)
       PROVE UNCHANGED <<pc, smoke, known, waiting, result, gate, faults, killed>>
  BY <1>10 DEF AnswerLost, ghosts
<1>11. CASE \E c \in Commands : MovesOn(c)
  BY <1>1, <1>3, <1>11 DEF LabView
<1>12. CASE \E c \in Commands : Fails(c)
  BY <1>1, <1>4, <1>12
<1>13. CASE \E c \in Commands : Leaves(c)
  BY <1>1, <1>5, <1>13
<1>14. CASE \E c \in Commands : Send(c)
  BY <1>1, <1>6, <1>14
<1>15. CASE \E c \in Locals : ProbeDocker(c) \/ RunPytest(c)
  BY <1>1, <1>7, <1>15
<1>16. CASE \E q \in requests : Answer(q)
  BY <1>1, <1>8, <1>9, <1>16
<1>17. CASE \E q \in requests : AnswerLost(q)
  BY <1>1, <1>9, <1>10, <1>17
<1>18. ASSUME NEW c \in Commands, Loses(c)
       PROVE /\ pc' \in [Commands -> Steps]
             /\ requests' \subseteq Request
             /\ waiting' \subseteq Commands
             /\ result' \in [Commands -> {"none", "ok", "failed"}]
             /\ faults' \in [Commands -> Nat]
             /\ killed' \subseteq Locals \X Smokes
             /\ UNCHANGED <<smoke, lab, known, gate>>
  <2>1. /\ CurrentLab(c) \in Lab /\ "stop" \in Steps
        /\ c \in Locals => CurrentLab(c) \in Locals \X Smokes
    BY <1>1 DEF CurrentLab, Lab, Steps
  <2>2. RequestOf(c, NoServer) \in Request
    BY <2>1 DEF Request, RequestOf
  <2>3. Unsent(c) \subseteq Request
    BY <2>2 DEF Unsent
  <2> QED
    BY <1>1, <1>18, <2>1, <2>3 DEF Loses, LoseSmoke, GoTo
<1>19. ASSUME NEW c \in Commands, Hit(c)
       PROVE /\ result' \in [Commands -> {"none", "ok", "failed"}]
             /\ faults' \in [Commands -> Nat]
             /\ UNCHANGED <<pc, smoke, lab, known, requests, waiting, gate, killed>>
  BY <1>1, <1>19 DEF Hit, InterruptParent, api
<1>20. ASSUME NEW q \in requests, Sends(q)
       PROVE requests' \subseteq Request /\ UNCHANGED <<LabView, pc>>
  <2>1. \A s \in Servers : [q EXCEPT !.server = s] \in Request
    BY <1>1 DEF Request
  <2> QED
    BY <1>1, <1>20, <2>1 DEF Sends
<1>21. CASE \E c \in Commands : Loses(c)
  BY <1>1, <1>18, <1>21
<1>22. CASE \E c \in Commands : Hit(c)
  BY <1>1, <1>19, <1>22
<1>23. CASE \E q \in requests : Sends(q)
  BY <1>1, <1>20, <1>23 DEF LabView
<1> QED
  BY <1>2, <1>11, <1>12, <1>13, <1>14, <1>15, <1>16, <1>17, <1>21, <1>22, <1>23, Kinds

\* The rest: ports, processes, files and the record of what went wrong.
LEMMA TypeStep ==
  ASSUME TypeOK, CommandsWellFounded, [Next]_vars
  PROVE TypeOK'
<1>1. /\ port \in [Commands \cup Servers -> Ports \cup {NoPort}]
      /\ server \in [Servers -> {"none", "starting", "up", "exited"}]
      /\ root \subseteq Locals
      /\ docker \in BOOLEAN
      /\ cutShort \subseteq Locals
      /\ interrupted \subseteq Commands
      /\ Locals \subseteq Servers /\ Locals \subseteq Commands /\ Directs \subseteq Commands
      /\ Standing \in Servers
  BY DEF TypeOK, Servers, Commands
<1> DEFINE Rest == /\ port' \in [Commands \cup Servers -> Ports \cup {NoPort}]
                   /\ server' \in [Servers -> {"none", "starting", "up", "exited"}]
                   /\ root' \subseteq Locals
                   /\ docker' \in BOOLEAN
                   /\ cutShort' \subseteq Locals
                   /\ interrupted' \subseteq Commands
<1>2. ASSUME NEW c \in Commands, Fail(c) PROVE cutShort' \subseteq Locals
  <2>1. pc[c] = "prepare" => c \in Locals
    BY CommandKinds DEF CommandsWellFounded, SmokeSteps
  <2> QED
    BY <1>1, <1>2, <2>1 DEF Fail
<1>3. ASSUME NEW c \in Commands, LeaveFinally(c), pc[c] \in {"stop", "kill", "remove"}
      PROVE cutShort' \subseteq Locals
  <2>1. c \in Locals
    BY <1>3, CommandKinds DEF CommandsWellFounded, SmokeSteps
  <2> QED
    BY <1>1, <1>3, <2>1 DEF LeaveFinally
<1>4. ASSUME NEW c \in Commands, SmokeStep(c) \/ Interrupt(c) PROVE Rest
  <2>1. CASE Reads(c) \/ Send(c)
    BY <1>1, <2>1 DEF Reads, Send, api, ghosts
  <2>2. CASE RequestFails(c) \/ CleanupFails(c)
    BY <1>1, <1>2, <2>2 DEF RequestFails, CleanupFails, Fail, api
  <2>3. CASE Interrupt(c)
    BY <1>1, <1>2, <1>3, <2>3 DEF Interrupt, InterruptParent, Fail, LeaveFinally, api
  <2>4. CASE KillSmoke(c)
    BY <1>1, <2>4 DEF KillSmoke, LoseSmoke
  <2> QED
    BY <1>4, <2>1, <2>2, <2>3, <2>4 DEF SmokeStep
<1>5. ASSUME NEW c \in Directs, StartDirect(c) PROVE Rest
  BY <1>1, <1>5 DEF StartDirect, ghosts
<1>6. ASSUME NEW c \in Locals, LocalStep(c) PROVE Rest
  <2>1. CASE MakeRoot(c) \/ InitializeDatabase(c) \/ Ready(c) \/ ProbeDocker(c)
             \/ RunPytest(c)
    BY <1>1, <2>1 DEF MakeRoot, InitializeDatabase, Ready, ProbeDocker, RunPytest, api,
                      ghosts
  <2>2. CASE FindPort(c) \/ StartServer(c)
    BY <1>1, <2>2 DEF FindPort, StartServer, ghosts
  <2>3. CASE StepFails(c)
    BY <1>1, <1>2, <2>3 DEF StepFails, Fail, api
  <2>4. CASE StopServer(c) \/ KillServer(c)
    BY <1>1, <2>4 DEF StopServer, KillServer, Down, ghosts
  <2>5. CASE KillTimesOut(c)
    BY <1>1, <1>3, <2>5 DEF KillTimesOut, LeaveFinally, api
  <2>6. CASE RemoveRoot(c)
    BY <1>1, <2>6 DEF RemoveRoot, api
  <2> QED
    BY <1>6, <2>1, <2>2, <2>3, <2>4, <2>5, <2>6 DEF LocalStep
<1>7. ASSUME NEW c \in Locals, Bind(c) \/ ServerDies(c) \/ SmokeDies(c) PROVE Rest
  BY <1>1, <1>7 DEF Bind, ServerDies, Down, ghosts, SmokeDies, LoseSmoke
<1>8. ASSUME NEW q \in requests, \/ Answer(q) \/ AnswerLost(q)
                                 \/ OrphanSends(q) \/ OrphanEnds(q)
      PROVE Rest
  BY <1>1, <1>8 DEF Answer, AnswerLost, OrphanSends, OrphanEnds, ghosts
<1>9. ASSUME NEW p \in Ports, StartStanding(p) PROVE Rest
  BY <1>1, <1>9 DEF StartStanding, ghosts
<1>10. ASSUME DockerChanges PROVE Rest
  BY <1>1, <1>10 DEF DockerChanges, api, ghosts
<1>11. ASSUME Done \/ UNCHANGED vars PROVE Rest
  BY <1>1, <1>11 DEF Done, vars, api, ghosts
<1>12. Rest
  BY <1>4, <1>5, <1>6, <1>7, <1>8, <1>9, <1>10, <1>11 DEF Next
<1> QED
  BY <1>12, ViewType DEF TypeOK

-----------------------------------------------------------------------------
(* Commands and their labs *)

\* A command that does not take the step stays where it is.
LEMMA OthersStay ==
  ASSUME TypeOK, NEW c \in Commands,
         \/ MovesOn(c) \/ Fails(c) \/ Leaves(c) \/ Send(c) \/ Loses(c) \/ Hit(c)
         \/ c \in Locals /\ (ProbeDocker(c) \/ RunPytest(c))
         \/ \E q \in requests : q.client = c /\ Answer(q),
         NEW e \in Commands, e # c
  PROVE /\ pc'[e] = pc[e] /\ smoke'[e] = smoke[e] /\ result'[e] = result[e]
        /\ faults'[e] = faults[e]
        /\ e \in waiting' <=> e \in waiting
        /\ e \in interrupted' => e \in interrupted
        /\ e \in Locals => gate'[e] = gate[e]
<1>1. CASE MovesOn(c)
  BY <1>1 DEF MovesOn, GoTo, LabView, TypeOK
<1>2. CASE Fails(c) \/ Leaves(c)
  BY <1>2 DEF Fails, Fail, Leaves, LeaveFinally, GoTo, TypeOK
<1>3. CASE Send(c)
  BY <1>3 DEF Send, ghosts
<1>4. CASE c \in Locals /\ (ProbeDocker(c) \/ RunPytest(c))
  BY <1>4 DEF ProbeDocker, RunPytest, GoTo, ghosts, TypeOK
<1>5. ASSUME NEW q \in requests, q.client = c, Answer(q)
      PROVE /\ pc'[e] = pc[e] /\ smoke'[e] = smoke[e] /\ result'[e] = result[e]
            /\ UNCHANGED <<faults, gate, interrupted>>
            /\ e \in waiting' <=> e \in waiting
  BY <1>5 DEF Answer, GoTo, ghosts, TypeOK
<1>6. CASE Loses(c) \/ Hit(c)
  BY <1>6 DEF Loses, LoseSmoke, Hit, InterruptParent, GoTo, TypeOK
<1> QED
  BY <1>1, <1>2, <1>3, <1>4, <1>5, <1>6

\* What becomes of the command whose answer arrives.
LEMMA Answered ==
  ASSUME TypeOK, CommandsWellFounded, NEW q \in requests, Answer(q), NEW c, c = q.client
  PROVE /\ c \in Commands /\ c \in waiting /\ c \notin waiting'
        /\ q.lab = CurrentLab(c)
        /\ pc[c] \in {"create", "destroy", "cleanup"}
        /\ q.op = "create" <=> pc[c] = "create"
        /\ pc'[c] = AfterAnswer(c)
        /\ smoke'[c] = NextSmoke(c)
        /\ result'[c] = (IF AfterAnswer(c) = "done" /\ result[c] = "none"
                         THEN "ok" ELSE result[c])
        /\ known' = IF q.op = "create" THEN known \cup {q.lab} ELSE known
        /\ Carry(q) /\ Accepted(q)
        /\ UNCHANGED <<faults, gate, killed, interrupted>>
<1>1. c \in Commands /\ c \in waiting
  BY DEF TypeOK, Request, Answer
<1>2. pc[c] \in {"create", "destroy", "cleanup"}
  BY <1>1 DEF CommandsWellFounded
<1> QED
  BY <1>1, <1>2 DEF Answer, GoTo, ghosts, TypeOK

\* What becomes of the command that fails.
LEMMA Failed ==
  ASSUME TypeOK, NEW c \in Commands, Fails(c)
  PROVE /\ pc'[c] = AfterFailure(c) /\ result'[c] = "failed"
        /\ faults'[c] = faults[c] + 1 /\ faults[c] \in Nat
        /\ c \notin waiting'
        /\ UNCHANGED <<smoke, known, gate, lab, requests, killed>>
  BY DEF Fails, Fail, GoTo, api, TypeOK

LEMMA LeftFinally ==
  ASSUME TypeOK, NEW c \in Commands, Leaves(c)
  PROVE /\ pc'[c] = "done" /\ result'[c] = "failed"
        /\ faults'[c] = faults[c] + 1 /\ faults[c] \in Nat
        /\ UNCHANGED <<smoke, known, gate, lab, requests, waiting, killed>>
  BY DEF Leaves, LeaveFinally, GoTo, api, TypeOK

\* What becomes of a smoke-local whose smoke is gone, and of one that is
\* interrupted while its smoke goes on.
LEMMA LostSmoke ==
  ASSUME TypeOK, CommandsWellFounded, NEW c \in Commands, Loses(c)
  PROVE /\ c \in Locals /\ pc[c] \in SmokeSteps
        /\ pc'[c] = "stop" /\ result'[c] = "failed"
        /\ faults[c] \in Nat /\ faults'[c] >= faults[c] /\ faults'[c] >= 1
        /\ c \notin waiting'
        /\ killed' = killed \cup {CurrentLab(c)}
        /\ UNCHANGED <<smoke, known, gate, lab, interrupted>>
        /\ \/ requests' = requests
           \/ /\ requests' = requests \cup {RequestOf(c, NoServer)}
              /\ c \notin waiting /\ pc[c] \in {"create", "destroy", "cleanup"}
<1>1. c \in interrupted => faults[c] >= 1
  BY DEF CommandsWellFounded
<1>2. faults[c] \in Nat /\ faults'[c] >= faults[c] /\ faults'[c] >= 1
  BY <1>1 DEF Loses, TypeOK
<1> QED
  BY <1>2 DEF Loses, LoseSmoke, Unsent, GoTo, TypeOK

LEMMA HitSmoke ==
  ASSUME TypeOK, NEW c \in Commands, Hit(c)
  PROVE /\ c \in Locals /\ pc[c] \in SmokeSteps
        /\ result'[c] = "failed"
        /\ faults'[c] = faults[c] + 1 /\ faults[c] \in Nat
        /\ UNCHANGED <<pc, smoke, known, gate, lab, requests, waiting, killed>>
  BY DEF Hit, InterruptParent, api, TypeOK

LEMMA MovedOn ==
  ASSUME TypeOK, NEW c \in Commands, MovesOn(c)
  PROVE /\ \/ <<pc[c], pc'[c]>> \in SmokeMoves
           \/ c \in Locals /\ <<pc[c], pc'[c]>> \in LocalMoves
           \/ c \in Directs /\ pc[c] = "start" /\ pc'[c] = "check"
        /\ UNCHANGED LabView
        /\ requests' \subseteq requests
  BY DEF MovesOn, GoTo, TypeOK

LEMMA Probed ==
  ASSUME TypeOK, NEW c \in Locals, ProbeDocker(c) \/ RunPytest(c)
  PROVE /\ c \in Commands
        /\ \/ /\ pc[c] = "probe" /\ pc'[c] = "pytest" /\ result'[c] = result[c]
           \/ /\ pc[c] = "probe" /\ pc'[c] = "stop" /\ result'[c] = "failed"
           \/ /\ pc[c] = "pytest" /\ pc'[c] = "stop" /\ result'[c] = "ok"
              /\ gate'[c] \in {"passed", "skipped"}
        /\ UNCHANGED <<smoke, known, lab, requests, waiting, faults, killed, interrupted>>
<1>1. c \in Commands
  BY DEF Commands
<1> QED
  BY <1>1 DEF ProbeDocker, RunPytest, GoTo, api, ghosts, TypeOK

LEMMA CommandsStep ==
  ASSUME TypeOK, CommandsWellFounded, [Next]_vars
  PROVE CommandsWellFounded'
<1> DEFINE Founded(c) ==
      /\ c \in Directs => pc[c] \in SmokeSteps \cup {"start", "done"}
      /\ c \in waiting => pc[c] \in {"create", "destroy", "cleanup"}
      /\ pc[c] \in {"read", "destroy", "cleanup"} => CurrentLab(c) \in known
      /\ pc[c] = "cleanup" => result[c] = "failed" /\ faults[c] >= 1
      /\ result[c] = "ok" => pc[c] \in {"stop", "kill", "remove", "done"}
      /\ c \in interrupted =>
           /\ pc[c] \in SmokeSteps \cup {"stop", "kill", "remove", "done"}
           /\ result[c] = "failed" /\ faults[c] >= 1
<1>1. \A c \in Commands : Founded(c)
  BY DEF CommandsWellFounded
<1>2. (\A c \in Commands : Founded(c)') => CommandsWellFounded'
  BY DEF CommandsWellFounded
<1>3. known \subseteq known'
  <2>1. ASSUME NEW q \in requests, Answer(q) PROVE known \subseteq known'
    BY <2>1 DEF Answer
  <2> QED
    BY <2>1, Kinds DEF Around, Sends, LabView, MovesOn, Fails, Fail, Leaves, LeaveFinally,
                       Send, Loses, LoseSmoke, Hit, InterruptParent, ProbeDocker, RunPytest,
                       AnswerLost
<1>4. ASSUME NEW c \in Commands, pc'[c] = pc[c], smoke'[c] = smoke[c],
             result'[c] = result[c], faults'[c] = faults[c],
             c \in waiting' <=> c \in waiting, c \in interrupted' => c \in interrupted
      PROVE Founded(c)'
  BY <1>1, <1>3, <1>4 DEF CurrentLab
<1>5. CASE Around \/ \E q \in requests : Sends(q)
  BY <1>2, <1>4, <1>5 DEF Around, Sends, LabView
<1>6. ASSUME NEW c \in Commands, MovesOn(c) PROVE Founded(c)'
  <2>1. UNCHANGED LabView /\ pc[c] \notin {"create", "destroy", "cleanup"}
    BY <1>6, MovedOn DEF SmokeMoves, LocalMoves
  <2>2. CASE <<pc[c], pc'[c]>> \in SmokeMoves
    BY <1>1, <2>1, <2>2 DEF SmokeMoves, LabView, CurrentLab, SmokeSteps
  <2>3. CASE c \in Locals /\ <<pc[c], pc'[c]>> \in LocalMoves
    BY <1>1, <2>1, <2>3, CommandKinds DEF LocalMoves, LabView, SmokeSteps
  <2>4. CASE c \in Directs /\ pc[c] = "start" /\ pc'[c] = "check"
    BY <1>1, <2>1, <2>4 DEF LabView, SmokeSteps
  <2> QED
    BY <1>6, <2>2, <2>3, <2>4, MovedOn
<1>7. ASSUME NEW c \in Commands, Fails(c) PROVE Founded(c)'
  <2>1. /\ pc'[c] = AfterFailure(c) /\ result'[c] = "failed"
        /\ faults'[c] >= 1
        /\ c \notin waiting'
        /\ smoke' = smoke /\ known' = known
    BY <1>7, Failed
  <2>2. c \in Directs => AfterFailure(c) \in {"cleanup", "done"}
    BY FailureLeads, CommandKinds
  <2> QED
    BY <2>1, <2>2, FailureLeads DEF CurrentLab, SmokeSteps
<1>8. ASSUME NEW c \in Commands, Leaves(c) PROVE Founded(c)'
  <2>1. c \notin waiting
    BY <1>1, <1>8 DEF Leaves
  <2> QED
    BY <1>8, <2>1, LeftFinally
<1>9. ASSUME NEW c \in Commands, Send(c) PROVE Founded(c)'
  BY <1>1, <1>9 DEF Send, CurrentLab, ghosts
<1>10. ASSUME NEW c \in Locals, ProbeDocker(c) \/ RunPytest(c) PROVE Founded(c)'
  <2>1. c \in Commands /\ c \notin waiting /\ result[c] # "ok" /\ c \notin interrupted
    BY <1>1, <1>10, Probed DEF SmokeSteps
  <2> QED
    BY <1>10, <2>1, Probed, CommandKinds
<1>11. ASSUME NEW q \in requests, Answer(q), NEW c, c = q.client PROVE Founded(c)'
  <2>1. /\ c \in Commands /\ c \notin waiting'
        /\ q.lab = CurrentLab(c)
        /\ pc[c] \in {"create", "destroy", "cleanup"}
        /\ q.op = "create" <=> pc[c] = "create"
        /\ pc'[c] = AfterAnswer(c)
        /\ smoke'[c] = NextSmoke(c)
        /\ result'[c] = (IF AfterAnswer(c) = "done" /\ result[c] = "none"
                         THEN "ok" ELSE result[c])
        /\ known' = IF q.op = "create" THEN known \cup {q.lab} ELSE known
        /\ UNCHANGED <<faults, interrupted>>
    BY <1>11, Answered
  <2>2. result[c] # "ok" /\ (c \in interrupted => result[c] = "failed" /\ faults[c] >= 1)
    BY <1>1, <2>1
  <2>3. CASE pc[c] = "create"
    <3>1. pc'[c] = "read" /\ smoke'[c] = smoke[c] /\ result'[c] = result[c]
      BY <2>1, <2>3, AnswerLeads DEF NextSmoke
    <3> QED
      BY <2>1, <2>2, <2>3, <3>1 DEF CurrentLab, SmokeSteps
  <2>4. CASE pc[c] # "create"
    <3>1. /\ pc'[c] \in {"stop", "done", "check", "probe"}
          /\ c \in Directs => pc'[c] = "done"
          /\ pc'[c] \in {"check", "probe"} => result'[c] = result[c]
          /\ c \in interrupted => pc'[c] # "probe"
      BY <2>1, <2>4, AnswerLeads, CommandKinds
    <3> QED
      BY <2>1, <2>2, <3>1 DEF SmokeSteps
  <2> QED
    BY <2>3, <2>4
<1>12. ASSUME NEW c \in Commands, Founded(c)',
              \/ MovesOn(c) \/ Fails(c) \/ Leaves(c) \/ Send(c) \/ Loses(c) \/ Hit(c)
              \/ c \in Locals /\ (ProbeDocker(c) \/ RunPytest(c))
              \/ \E q \in requests : q.client = c /\ Answer(q)
       PROVE CommandsWellFounded'
  <2>1. \A e \in Commands : e # c => Founded(e)'
    BY <1>4, <1>12, OthersStay
  <2> QED
    BY <1>2, <1>12, <2>1
<1>13. CASE \E c \in Commands : MovesOn(c) \/ Fails(c) \/ Leaves(c) \/ Send(c)
  BY <1>6, <1>7, <1>8, <1>9, <1>12, <1>13
<1>14. CASE \E c \in Locals : ProbeDocker(c) \/ RunPytest(c)
  BY <1>10, <1>12, <1>14 DEF Commands
<1>15. CASE \E q \in requests : Answer(q)
  BY <1>11, <1>12, <1>15, Answered
<1>16. CASE \E q \in requests : AnswerLost(q)
  BY <1>2, <1>4, <1>16 DEF AnswerLost, ghosts
<1>17. ASSUME NEW c \in Commands, Loses(c) PROVE Founded(c)'
  BY <1>17, LostSmoke, CommandKinds
<1>18. ASSUME NEW c \in Commands, Hit(c) PROVE Founded(c)'
  <2>1. /\ c \notin Directs /\ pc[c] \in SmokeSteps
        /\ result'[c] = "failed" /\ faults'[c] >= 1
        /\ UNCHANGED <<pc, smoke, known, waiting>>
    BY <1>18, HitSmoke, CommandKinds
  <2> QED
    BY <1>1, <2>1 DEF CurrentLab, SmokeSteps
<1>19. CASE \E c \in Commands : Loses(c) \/ Hit(c)
  BY <1>12, <1>17, <1>18, <1>19
<1> QED
  BY <1>5, <1>13, <1>14, <1>15, <1>16, <1>19, Kinds

\* A lab of a command whose smoke has not got to it is nobody else's either.
LEMMA NotYetUntouched ==
  ASSUME TypeOK, CommandsWellFounded, CreatedOnce, [Next]_vars,
         NEW c \in Commands, NEW k \in Smokes, NotYet(c, k)'
  PROVE Untouched(<<c, k>>)'
<1>1. NotYet(c, k) => Untouched(<<c, k>>)
  BY DEF CreatedOnce
<1>2. <<c, k>> \in Lab /\ smoke[c] \in Smokes
  BY LabPairs DEF TypeOK
<1>3. ASSUME Untouched(<<c, k>>), requests' \subseteq requests, UNCHANGED <<lab, known>>
      PROVE Untouched(<<c, k>>)'
  BY <1>3 DEF Untouched
<1>4. ASSUME pc'[c] = pc[c], smoke'[c] = smoke[c], c \in waiting' <=> c \in waiting
      PROVE NotYet(c, k)
  BY <1>4 DEF NotYet
<1>5. CASE Around \/ \E q \in requests : Sends(q)
  <2>1. NotYet(c, k) /\ UNCHANGED <<lab, known>>
    BY <1>4, <1>5 DEF Around, Sends, LabView
  <2>2. ASSUME NEW q \in requests, Sends(q)
        PROVE \A r \in requests' : \E o \in requests : o.lab = r.lab
    BY <2>2 DEF Sends, TypeOK, Request
  <2> QED
    BY <1>1, <1>3, <1>5, <2>1, <2>2 DEF Around, Untouched
<1>6. ASSUME NEW e \in Commands, MovesOn(e) PROVE Untouched(<<c, k>>)'
  <2>1. CASE e # c
    BY <1>1, <1>3, <1>4, <1>6, <2>1, MovedOn, OthersStay DEF LabView
  <2>2. CASE e = c
    <3>1. NotYet(c, k)
      BY <1>6, <2>2, MovedOn DEF NotYet, LabView, SmokeMoves, LocalMoves
    <3> QED
      BY <1>1, <1>3, <1>6, <3>1, MovedOn DEF LabView
  <2> QED
    BY <2>1, <2>2
<1>7. ASSUME NEW e \in Commands, Fails(e) \/ Leaves(e) PROVE Untouched(<<c, k>>)'
  <2>1. UNCHANGED <<smoke, known, lab, requests>>
    BY <1>7, Failed, LeftFinally
  <2>2. CASE e # c
    BY <1>1, <1>3, <1>4, <1>7, <2>1, <2>2, OthersStay
  <2>3. CASE e = c
    <3>1. pc'[c] \in {"cleanup", "stop", "done"}
      BY <1>7, <2>3, Failed, LeftFinally, FailureLeads
    <3>2. NotYet(c, k)
      BY <2>1, <3>1 DEF NotYet
    <3> QED
      BY <1>1, <1>3, <2>1, <3>2
  <2> QED
    BY <2>2, <2>3
<1>8. ASSUME NEW e \in Commands, Send(e) PROVE Untouched(<<c, k>>)'
  <2>1. NotYet(c, k)
    BY <1>8 DEF Send, NotYet
  <2>2. <<c, k>> # CurrentLab(e)
    <3>1. CASE e # c
      BY <3>1 DEF CurrentLab
    <3>2. CASE e = c
      <4>1. smoke[c] # k
        BY <1>8, <3>2 DEF Send, NotYet
      <4> QED
        BY <4>1, <3>2 DEF CurrentLab
    <3> QED
      BY <3>1, <3>2
  <2>3. \A q \in requests' : q \in requests \/ q.lab = CurrentLab(e)
    BY <1>8 DEF Send, RequestOf
  <2> QED
    BY <1>1, <1>8, <2>1, <2>2, <2>3 DEF Send, Untouched
<1>9. ASSUME NEW e \in Locals, ProbeDocker(e) \/ RunPytest(e) PROVE Untouched(<<c, k>>)'
  <2>1. e \in Commands /\ UNCHANGED <<smoke, known, lab, requests, waiting>>
    BY <1>9, Probed
  <2>2. NotYet(c, k)
    BY <1>4, <1>9, <2>1, Probed, OthersStay DEF NotYet
  <2> QED
    BY <1>1, <1>3, <2>1, <2>2
<1>10. ASSUME NEW q \in requests, Carry(q), NotYet(c, k), known' = known \/ q.lab # <<c, k>>,
              known' \subseteq known \cup {q.lab}
       PROVE Untouched(<<c, k>>)'
  <2>1. q.lab # <<c, k>>
    BY <1>1, <1>10 DEF Untouched
  <2>2. lab'[<<c, k>>] = lab[<<c, k>>] /\ requests' = requests \ {q}
    BY <1>2, <1>10, <2>1, Carries
  <2> QED
    BY <1>1, <1>10, <2>1, <2>2 DEF Untouched
<1>11. ASSUME NEW q \in requests, AnswerLost(q) PROVE Untouched(<<c, k>>)'
  BY <1>4, <1>10, <1>11 DEF AnswerLost
<1>12. ASSUME NEW q \in requests, Answer(q) PROVE Untouched(<<c, k>>)'
  <2>1. q.client \in Commands
    BY <1>12, Answered
  <2>2. NotYet(c, k)
    <3>1. CASE q.client # c
      BY <1>4, <1>12, <2>1, <3>1, OthersStay
    <3>2. CASE q.client = c
      <4>1. /\ pc[c] \in {"create", "destroy", "cleanup"} /\ c \in waiting
            /\ pc'[c] = AfterAnswer(c)
            /\ smoke'[c] = NextSmoke(c)
        BY <1>12, <3>2, Answered
      <4>2. CASE c \in Directs
        <5>1. pc'[c] \in {"read", "done"} /\ smoke'[c] = smoke[c]
          BY <4>1, <4>2, AnswerLeads, CommandKinds DEF NextSmoke
        <5> QED
          BY <4>2, <5>1 DEF NotYet
      <4>3. CASE c \notin Directs
        <5>1. CASE AfterAnswer(c) = "check"
          <6>1. smoke'[c] = "cli" /\ pc[c] = "destroy" /\ smoke[c] = "docs"
            BY <4>1, <4>3, <5>1, AnswerLeads DEF NextSmoke
          <6>2. k = "cli"
            BY <4>3, <6>1 DEF NotYet, Smokes
          <6> QED
            BY <6>1, <6>2 DEF NotYet
        <5>2. CASE AfterAnswer(c) # "check"
          <6>1. /\ smoke'[c] = smoke[c]
                /\ pc'[c] \in {"read", "stop", "probe"}
            BY <4>1, <4>3, <5>2, AnswerLeads, CommandKinds DEF NextSmoke
          <6> QED
            BY <4>3, <6>1 DEF NotYet
        <5> QED
          BY <5>1, <5>2
      <4> QED
        BY <4>2, <4>3
    <3> QED
      BY <3>1, <3>2
  <2>3. known' \subseteq known \cup {q.lab} /\ q.lab # <<c, k>>
    BY <1>1, <1>12, <2>2 DEF Answer, Untouched
  <2> QED
    BY <1>10, <1>12, <2>2, <2>3 DEF Answer
<1>13. ASSUME NEW e \in Commands, Loses(e) PROVE Untouched(<<c, k>>)'
  <2>1. /\ pc'[e] = "stop" /\ UNCHANGED <<smoke, known, lab>>
        /\ \A q \in requests' : q \in requests \/ q.lab = CurrentLab(e)
    BY <1>13, LostSmoke DEF RequestOf
  <2>2. NotYet(c, k) /\ <<c, k>> # CurrentLab(e)
    <3>1. CASE e # c
      BY <1>4, <1>13, <3>1, OthersStay DEF CurrentLab
    <3>2. CASE e = c
      BY <2>1, <3>2 DEF NotYet, CurrentLab
    <3> QED
      BY <3>1, <3>2
  <2> QED
    BY <1>1, <2>1, <2>2 DEF Untouched
<1>14. ASSUME NEW e \in Commands, Hit(e) PROVE Untouched(<<c, k>>)'
  BY <1>1, <1>3, <1>4, <1>14, HitSmoke
<1> QED
  BY <1>5, <1>6, <1>7, <1>8, <1>9, <1>11, <1>12, <1>13, <1>14, Kinds

\* Who knows what: an answer to a POST makes its lab known, and nothing else.
LEMMA KnownGrows ==
  ASSUME TypeOK, [Next]_vars
  PROVE \/ known' = known
        \/ \E q \in requests : /\ Answer(q) /\ q.op = "create"
                               /\ known' = known \cup {q.lab}
<1>1. ASSUME NEW q \in requests, Answer(q)
      PROVE \/ known' = known
            \/ q.op = "create" /\ known' = known \cup {q.lab}
  BY <1>1 DEF Answer
<1> QED
  BY <1>1, Kinds DEF Around, Sends, LabView, MovesOn, Fails, Fail, Leaves, LeaveFinally,
                     Send, Loses, LoseSmoke, Hit, InterruptParent, ProbeDocker, RunPytest,
                     AnswerLost

\* A smoke that was killed stays so.
LEMMA KilledGrows ==
  ASSUME TypeOK, [Next]_vars
  PROVE killed \subseteq killed'
  BY Kinds DEF Around, Sends, LabView, MovesOn, Fails, Fail, Leaves, LeaveFinally, Send,
               Loses, LoseSmoke, Hit, InterruptParent, ProbeDocker, RunPytest, Answer,
               AnswerLost, ghosts

\* Who asks for what: a command that is to send a request adds one, itself or
\* through the process that outlives its smoke.
LEMMA RequestsGrow ==
  ASSUME TypeOK, CommandsWellFounded, [Next]_vars
  PROVE \/ requests' \subseteq requests
        \/ \E q \in requests : Sends(q)
        \/ \E c \in Commands :
             /\ Send(c) \/ Loses(c)
             /\ c \notin waiting
             /\ UNCHANGED <<smoke, known, lab>>
             /\ \E r : /\ requests' = requests \cup {r}
                       /\ r.lab = CurrentLab(c)
                       /\ r.op = IF pc[c] = "create" THEN "create" ELSE "destroy"
<1>1. ASSUME NEW c \in Commands, NEW s, requests' = requests \cup {RequestOf(c, s)}
      PROVE \E r : /\ requests' = requests \cup {r}
                   /\ r.lab = CurrentLab(c)
                   /\ r.op = IF pc[c] = "create" THEN "create" ELSE "destroy"
  <2>1. /\ RequestOf(c, s).lab = CurrentLab(c)
        /\ RequestOf(c, s).op = IF pc[c] = "create" THEN "create" ELSE "destroy"
    BY DEF RequestOf
  <2> QED
    BY <1>1, <2>1
<1>2. ASSUME NEW c \in Commands, Send(c)
      PROVE /\ c \notin waiting /\ UNCHANGED <<smoke, known, lab>>
            /\ \E s : requests' = requests \cup {RequestOf(c, s)}
  BY <1>2 DEF Send
<1>3. ASSUME NEW c \in Commands, Loses(c), ~(requests' \subseteq requests)
      PROVE /\ c \notin waiting /\ UNCHANGED <<smoke, known, lab>>
            /\ \E s : requests' = requests \cup {RequestOf(c, s)}
  BY <1>3, LostSmoke
<1>4. ASSUME NEW q \in requests, Answer(q) \/ AnswerLost(q)
      PROVE requests' \subseteq requests
  BY <1>4 DEF Answer, AnswerLost, Carry
<1>5. CASE \E c \in Commands : Send(c) \/ Loses(c)
  BY <1>1, <1>2, <1>3, <1>5
<1> QED
  BY <1>4, <1>5, Kinds
  DEF Around, MovesOn, Fails, Fail, Leaves, LeaveFinally, Hit, InterruptParent, ProbeDocker,
      RunPytest, api

\* release_smoke_docs and release_smoke_cli send one POST.
LEMMA CreatedOnceStep ==
  ASSUME TypeOK, CommandsWellFounded, CreatedOnce, [Next]_vars
  PROVE CreatedOnce'
<1>1. \A c \in Commands, k \in Smokes : NotYet(c, k)' => Untouched(<<c, k>>)'
  BY NotYetUntouched
<1>2. ASSUME NEW q \in requests, q.op = "create", q \in requests'
      PROVE q.lab \notin known'
  <2>1. q.lab \notin known
    BY <1>2 DEF CreatedOnce
  <2>2. ASSUME NEW r \in requests, Answer(r), r.op = "create", r.lab = q.lab PROVE FALSE
    <3>1. r = q
      BY <1>2, <2>2 DEF CreatedOnce
    <3> QED
      BY <1>2, <2>2, <3>1 DEF Answer, Carry
  <2> QED
    BY <2>1, <2>2, KnownGrows
<1>3. CASE requests' \subseteq requests
  BY <1>1, <1>2, <1>3 DEF CreatedOnce
<1>4. ASSUME NEW c \in Commands, Send(c) \/ Loses(c), c \notin waiting,
             UNCHANGED <<smoke, known, lab>>,
             NEW r, requests' = requests \cup {r}, r.lab = CurrentLab(c),
             r.op = IF pc[c] = "create" THEN "create" ELSE "destroy"
      PROVE CreatedOnce'
  <2>1. ASSUME r.op = "create" PROVE Untouched(r.lab)
    <3>1. pc[c] = "create" /\ c \notin waiting /\ smoke[c] \in Smokes
      BY <1>4, <2>1 DEF TypeOK
    <3>2. NotYet(c, smoke[c])
      BY <3>1 DEF NotYet
    <3> QED
      BY <1>4, <3>1, <3>2 DEF CreatedOnce, CurrentLab
  <2>2. \A q \in requests' : q.op = "create" => q.lab \notin known'
    BY <1>4, <2>1 DEF CreatedOnce, Untouched
  <2>3. \A q1, q2 \in requests' :
          q1.op = "create" /\ q2.op = "create" /\ q2.lab = q1.lab => q2 = q1
    BY <1>4, <2>1 DEF CreatedOnce, Untouched
  <2> QED
    BY <1>1, <2>2, <2>3 DEF CreatedOnce
<1>5. ASSUME NEW q \in requests, Sends(q) PROVE CreatedOnce'
  <2>1. known' = known
    BY <1>5 DEF Sends, LabView
  <2>2. PICK s \in Servers : requests' = (requests \ {q}) \cup {[q EXCEPT !.server = s]}
    BY <1>5 DEF Sends
  <2> DEFINE sent == [q EXCEPT !.server = s]
  <2>3. sent.op = q.op /\ sent.lab = q.lab /\ requests' = (requests \ {q}) \cup {sent}
    BY <2>2 DEF TypeOK, Request
  <2> HIDE DEF sent
  <2> QED
    BY <1>1, <2>1, <2>3 DEF CreatedOnce
<1> QED
  BY <1>3, <1>4, <1>5, RequestsGrow

\* The failures a command has met only become more.
LEMMA FaultsGrow ==
  ASSUME TypeOK, CommandsWellFounded, [Next]_vars, NEW c \in Commands
  PROVE faults[c] \in Nat /\ faults'[c] \in Nat /\ faults'[c] >= faults[c]
<1>1. faults[c] \in Nat /\ faults'[c] \in Nat
  BY TypeStep DEF TypeOK
<1>2. ASSUME NEW e \in Commands, Fails(e) \/ Leaves(e) PROVE faults'[c] >= faults[c]
  BY <1>1, <1>2, Failed, LeftFinally, OthersStay
<1>3. ASSUME NEW e \in Commands, Loses(e) \/ Hit(e) PROVE faults'[c] >= faults[c]
  BY <1>1, <1>3, LostSmoke, HitSmoke, OthersStay
<1> QED
  BY <1>1, <1>2, <1>3, Kinds
  DEF Around, Sends, LabView, MovesOn, Send, ProbeDocker, RunPytest, Answer, AnswerLost,
      ghosts

\* A lab that nobody knows of.
LEMMA UnknownStep ==
  ASSUME TypeOK, CommandsWellFounded, CreatedOnce, FailuresAreCounted, [Next]_vars,
         NEW c \in Commands, NEW k \in Smokes, NEW x, x = <<c, k>>,
         x \notin known',
         \/ lab'[x].state # "none"
         \/ \E q \in requests' : q.op = "create" /\ q.lab = x
  PROVE \/ faults'[c] >= 1
        \/ smoke'[c] = k /\ pc'[c] = "create" /\ c \in waiting'
<1>1. x \in Lab /\ x \notin known
  BY LabPairs, KnownGrows
<1>2. faults[c] \in Nat /\ faults'[c] \in Nat /\ faults'[c] >= faults[c]
  BY FaultsGrow
<1>3. ASSUME lab[x].state # "none" \/ \E q \in requests : q.op = "create" /\ q.lab = x
      PROVE \/ faults'[c] >= 1
            \/ smoke'[c] = k /\ pc'[c] = "create" /\ c \in waiting'
  <2>1. CASE faults[c] >= 1
    BY <1>2, <2>1
  <2>2. CASE ~(faults[c] >= 1)
    <3>1. smoke[c] = k /\ pc[c] = "create" /\ c \in waiting
      BY <1>1, <1>3, <2>2 DEF FailuresAreCounted
    <3>2. ASSUME NEW e \in Commands, MovesOn(e) \/ Fails(e) \/ Leaves(e) \/ Send(e)
          PROVE \/ faults'[c] >= 1
                \/ smoke'[c] = k /\ pc'[c] = "create" /\ c \in waiting'
      <4>1. CASE e # c
        BY <3>1, <3>2, <4>1, OthersStay
      <4>2. CASE e = c
        <5>1. Fails(e)
          BY <3>1, <3>2, <4>2, MovedOn DEF SmokeMoves, LocalMoves, Leaves, Send
        <5> QED
          BY <1>2, <4>2, <5>1, Failed
      <4> QED
        BY <4>1, <4>2
    <3>3. ASSUME NEW e \in Locals, ProbeDocker(e) \/ RunPytest(e)
          PROVE smoke'[c] = k /\ pc'[c] = "create" /\ c \in waiting'
      <4>1. e \in Commands /\ e # c
        BY <3>1, <3>3, Probed
      <4> QED
        BY <3>1, <3>3, <4>1, OthersStay
    <3>4. ASSUME NEW q \in requests, Answer(q)
          PROVE smoke'[c] = k /\ pc'[c] = "create" /\ c \in waiting'
      <4>1. q.client # c
        <5>1. SUFFICES ASSUME q.client = c PROVE FALSE
          OBVIOUS
        <5>2. q.lab = x /\ q.op = "create" /\ known' = known \cup {q.lab}
          BY <3>1, <3>4, <5>1, Answered DEF CurrentLab
        <5> QED
          BY <5>2
      <4> QED
        BY <3>1, <3>4, <4>1, OthersStay, Answered
    <3>5. ASSUME NEW q \in requests, AnswerLost(q)
          PROVE smoke'[c] = k /\ pc'[c] = "create" /\ c \in waiting'
      BY <3>1, <3>5 DEF AnswerLost
    <3>6. CASE Around \/ \E q \in requests : Sends(q)
      BY <3>1, <3>6 DEF Around, Sends, LabView
    <3>7. ASSUME NEW e \in Commands, Loses(e) \/ Hit(e)
          PROVE \/ faults'[c] >= 1
                \/ smoke'[c] = k /\ pc'[c] = "create" /\ c \in waiting'
      BY <1>2, <3>1, <3>7, LostSmoke, HitSmoke, OthersStay
    <3> QED
      BY <3>2, <3>3, <3>4, <3>5, <3>6, <3>7, Kinds
  <2> QED
    BY <2>1, <2>2
<1>4. CASE \E q \in requests : q.op = "create" /\ q.lab = x
  BY <1>3, <1>4
<1>5. CASE ~\E q \in requests : q.op = "create" /\ q.lab = x
  <2>1. CASE lab'[x].state # "none"
    <3>1. ASSUME NEW q \in requests, Carry(q) PROVE lab[x].state # "none"
      BY <1>1, <1>5, <2>1, <3>1, Carries
    <3>2. CASE UNCHANGED lab
      BY <1>3, <2>1, <3>2
    <3> QED
      BY <1>3, <3>1, <3>2, Kinds
      DEF Around, Sends, LabView, MovesOn, Fails, Fail, Leaves, LeaveFinally, Send, Loses,
          LoseSmoke, Hit, InterruptParent, ProbeDocker, RunPytest, api, Answer, AnswerLost
  <2>2. CASE \E q \in requests' : q.op = "create" /\ q.lab = x
    <3>1. ASSUME NEW q \in requests, Sends(q) PROVE FALSE
      <4>1. \A r \in requests' : \E t \in requests : t.op = r.op /\ t.lab = r.lab
        BY <3>1 DEF Sends, TypeOK, Request
      <4> QED
        BY <1>5, <2>2, <4>1
    <3>2. PICK e \in Commands :
            /\ Send(e) \/ Loses(e)
            /\ c \notin waiting \/ e # c
            /\ UNCHANGED <<smoke, known, lab>>
            /\ \E r : /\ requests' = requests \cup {r}
                      /\ r.lab = CurrentLab(e)
                      /\ r.op = IF pc[e] = "create" THEN "create" ELSE "destroy"
      BY <1>5, <2>2, <3>1, RequestsGrow
    <3>3. CurrentLab(e) = x /\ pc[e] = "create"
      BY <1>5, <2>2, <3>2
    <3>4. e = c /\ smoke[c] = k
      BY <3>3 DEF CurrentLab
    <3>5. CASE Send(e)
      BY <3>2, <3>3, <3>4, <3>5 DEF Send
    <3>6. CASE Loses(e)
      BY <3>4, <3>6, LostSmoke
    <3> QED
      BY <3>2, <3>5, <3>6
  <2> QED
    BY <2>1, <2>2
<1> QED
  BY <1>4, <1>5

\* A lab whose POST was answered.
LEMMA KnownStep ==
  ASSUME TypeOK, CommandsWellFounded, CreatedOnce, FailuresAreCounted, [Next]_vars,
         NEW c \in Commands, NEW k \in Smokes, NEW x, x = <<c, k>>,
         x \in known', lab'[x].state = "live"
  PROVE \/ faults'[c] >= 2
        \/ x \in killed' /\ faults'[c] >= 1
        \/ smoke'[c] = k /\ pc'[c] \in SmokeSteps
<1>1. x \in Lab
  BY LabPairs
<1>2. faults[c] \in Nat /\ faults'[c] \in Nat /\ faults'[c] >= faults[c]
  BY FaultsGrow
<1>3. CASE x \notin known
  <2>1. PICK q \in requests : /\ Answer(q) /\ q.op = "create"
                              /\ known' = known \cup {q.lab}
    BY <1>3, KnownGrows
  <2>2. /\ q.client \in Commands /\ q.lab = CurrentLab(q.client)
        /\ pc[q.client] = "create"
        /\ pc'[q.client] = AfterAnswer(q.client)
        /\ smoke'[q.client] = NextSmoke(q.client)
    BY <2>1, Answered
  <2>3. q.client = c /\ smoke[c] = k
    BY <1>3, <2>1, <2>2 DEF CurrentLab
  <2>4. pc'[c] = "read" /\ smoke'[c] = k
    BY <2>2, <2>3, AnswerLeads DEF NextSmoke
  <2> QED
    BY <2>4 DEF SmokeSteps
<1>4. CASE x \in known
  <2>1. lab[x].state = "live"
    <3>1. ASSUME NEW q \in requests, Carry(q) PROVE lab[x].state = "live"
      <4>1. q.op = "create" => q.lab # x
        BY <1>4 DEF CreatedOnce
      <4> QED
        BY <1>1, <3>1, <4>1, Carries
    <3>2. CASE UNCHANGED lab
      BY <3>2
    <3> QED
      BY <3>1, <3>2, Kinds
      DEF Around, Sends, LabView, MovesOn, Fails, Fail, Leaves, LeaveFinally, Send, Loses,
          LoseSmoke, Hit, InterruptParent, ProbeDocker, RunPytest, api, Answer, AnswerLost
  <2>2. CASE faults[c] >= 2 \/ (x \in killed /\ faults[c] >= 1)
    BY <1>2, <2>2, KilledGrows
  <2>3. CASE smoke[c] = k /\ pc[c] \in SmokeSteps
    <3>1. smoke[c] = k /\ pc[c] \in SmokeSteps
      BY <2>3
    <3>2. ASSUME NEW e \in Commands, MovesOn(e) \/ Fails(e) \/ Leaves(e) \/ Send(e)
          PROVE \/ faults'[c] >= 2
                \/ smoke'[c] = k /\ pc'[c] \in SmokeSteps
      <4>1. CASE e # c
        BY <3>1, <3>2, <4>1, OthersStay
      <4>2. CASE e = c /\ Send(e)
        BY <3>1, <4>2 DEF Send
      <4>3. CASE e = c /\ MovesOn(e)
        BY <3>1, <4>3, MovedOn DEF SmokeMoves, LocalMoves, SmokeSteps, LabView
      <4>4. CASE e = c /\ Fails(e)
        <5>1. CASE pc[c] = "cleanup"
          <6>1. faults[c] >= 1
            BY <5>1 DEF CommandsWellFounded
          <6> QED
            BY <1>2, <4>4, <6>1, Failed
        <5>2. CASE pc[c] # "cleanup"
          <6>1. AfterFailure(c) = "cleanup"
            BY <1>4, <3>1, <5>2, FailureLeads DEF CurrentLab
          <6> QED
            BY <3>1, <4>4, <6>1, Failed DEF SmokeSteps
        <5> QED
          BY <5>1, <5>2
      <4>5. CASE e = c /\ Leaves(e)
        BY <3>1, <4>5 DEF Leaves, SmokeSteps
      <4> QED
        BY <3>2, <4>1, <4>2, <4>3, <4>4, <4>5
    <3>3. ASSUME NEW e \in Locals, ProbeDocker(e) \/ RunPytest(e)
          PROVE smoke'[c] = k /\ pc'[c] \in SmokeSteps
      <4>1. e \in Commands /\ e # c
        BY <3>1, <3>3, Probed DEF SmokeSteps
      <4> QED
        BY <3>1, <3>3, <4>1, OthersStay
    <3>4. ASSUME NEW q \in requests, Answer(q)
          PROVE smoke'[c] = k /\ pc'[c] \in SmokeSteps
      <4>1. ASSUME q.client = c PROVE FALSE
        <5>1. q.lab = x /\ Carry(q) /\ Accepted(q)
          BY <3>1, <3>4, <4>1, Answered DEF CurrentLab
        <5>2. CASE q.op = "create"
          BY <1>4, <5>1, <5>2 DEF CreatedOnce
        <5>3. CASE q.op # "create"
          BY <5>1, <5>3, Carries
        <5> QED
          BY <5>2, <5>3
      <4> QED
        BY <3>1, <3>4, <4>1, OthersStay, Answered
    <3>5. ASSUME NEW q \in requests, AnswerLost(q)
          PROVE smoke'[c] = k /\ pc'[c] \in SmokeSteps
      BY <3>1, <3>5 DEF AnswerLost
    <3>6. CASE Around \/ \E q \in requests : Sends(q)
      BY <3>1, <3>6 DEF Around, Sends, LabView
    <3>7. ASSUME NEW e \in Commands, Loses(e)
          PROVE \/ x \in killed' /\ faults'[c] >= 1
                \/ smoke'[c] = k /\ pc'[c] \in SmokeSteps
      <4>1. CASE e # c
        BY <3>1, <3>7, <4>1, OthersStay
      <4>2. CASE e = c
        BY <3>1, <3>7, <4>2, LostSmoke DEF CurrentLab
      <4> QED
        BY <4>1, <4>2
    <3>8. ASSUME NEW e \in Commands, Hit(e)
          PROVE smoke'[c] = k /\ pc'[c] \in SmokeSteps
      BY <3>1, <3>8, HitSmoke
    <3> QED
      BY <3>2, <3>3, <3>4, <3>5, <3>6, <3>7, <3>8, Kinds
  <2>4. \/ faults[c] >= 2
        \/ x \in killed /\ faults[c] >= 1
        \/ smoke[c] = k /\ pc[c] \in SmokeSteps
    BY <1>4, <2>1 DEF FailuresAreCounted
  <2> QED
    BY <2>2, <2>3, <2>4
<1> QED
  BY <1>3, <1>4

LEMMA FailuresStep ==
  ASSUME TypeOK, CommandsWellFounded, CreatedOnce, FailuresAreCounted, [Next]_vars
  PROVE FailuresAreCounted'
  BY UnknownStep, KnownStep DEF FailuresAreCounted

-----------------------------------------------------------------------------
(* What a success stands for *)

\* A lab whose POST was answered and that was destroyed stays so: nothing
\* creates it again.
LEMMA DestroyedStays ==
  ASSUME TypeOK, CreatedOnce, [Next]_vars, NEW x \in Lab, Destroyed(x)
  PROVE Destroyed(x)'
<1>1. x \in known'
  BY KnownGrows DEF Destroyed
<1>2. lab'[x].state = "destroyed"
  <2>1. ASSUME NEW q \in requests, Carry(q) PROVE lab'[x].state = "destroyed"
    <3>1. q.op = "create" => q.lab # x
      BY DEF CreatedOnce, Destroyed
    <3> QED
      BY <2>1, <3>1, Carries DEF Destroyed
  <2>2. CASE UNCHANGED lab
    BY <2>2 DEF Destroyed
  <2> QED
    BY <2>1, <2>2, Kinds
    DEF Around, Sends, LabView, MovesOn, Fails, Fail, Leaves, LeaveFinally, Send, Loses,
        LoseSmoke, Hit, InterruptParent, ProbeDocker, RunPytest, api, Answer, AnswerLost
<1> QED
  BY <1>1, <1>2 DEF Destroyed

\* A command gets past a DELETE, and past pytest, only with what they show.
LEMMA ProgressStep ==
  ASSUME TypeOK, CommandsWellFounded, CreatedOnce, ProgressIsReal, [Next]_vars
  PROVE ProgressIsReal'
<1> DEFINE Local(c) ==
      /\ smoke[c] = "cli" => Destroyed(<<c, "docs">>)
      /\ pc[c] \in {"probe", "pytest"} => smoke[c] = "cli" /\ Destroyed(<<c, "cli">>)
<1> DEFINE Earned(c) ==
      result[c] = "ok" =>
        /\ c \in Directs => Destroyed(CurrentLab(c))
        /\ c \in Locals => /\ \A k \in Smokes : Destroyed(<<c, k>>)
                           /\ gate[c] \in {"passed", "skipped"}
<1>1. /\ \A c \in Locals : Local(c)
      /\ \A c \in Commands : Earned(c)
  BY DEF ProgressIsReal
<1>2. (\A c \in Locals : Local(c)') /\ (\A c \in Commands : Earned(c)') => ProgressIsReal'
  BY DEF ProgressIsReal
<1>3. \A c \in Commands, k \in Smokes : Destroyed(<<c, k>>) => Destroyed(<<c, k>>)'
  BY LabPairs, DestroyedStays
<1>4. Locals \subseteq Commands /\ Directs \subseteq Commands /\ Smokes = {"docs", "cli"}
  BY DEF Commands, Smokes
<1>5. \A c \in Commands : smoke[c] \in Smokes
  BY DEF TypeOK
<1>6. ASSUME NEW c \in Locals, smoke'[c] = smoke[c],
             pc'[c] \in {"probe", "pytest"} => pc[c] \in {"probe", "pytest"}
      PROVE Local(c)'
  BY <1>1, <1>3, <1>4, <1>6
<1>7. ASSUME NEW c \in Commands, smoke'[c] = smoke[c],
             result'[c] = "ok" => result[c] = "ok" /\ (c \in Locals => gate'[c] = gate[c])
      PROVE Earned(c)'
  <2>1. CurrentLab(c)' = <<c, smoke[c]>>
    BY <1>7 DEF CurrentLab
  <2> QED
    BY <1>1, <1>3, <1>5, <1>7, <2>1 DEF CurrentLab
<1>8. ASSUME NEW c \in Commands, pc'[c] = pc[c], smoke'[c] = smoke[c],
             result'[c] = result[c], c \in Locals => gate'[c] = gate[c]
      PROVE (c \in Locals => Local(c)') /\ Earned(c)'
  BY <1>6, <1>7, <1>8
<1>9. ASSUME NEW c \in Commands, MovesOn(c) PROVE (c \in Locals => Local(c)') /\ Earned(c)'
  BY <1>6, <1>7, <1>9, MovedOn DEF LabView, SmokeMoves, LocalMoves
<1>10. ASSUME NEW c \in Commands, Fails(c) \/ Leaves(c)
       PROVE (c \in Locals => Local(c)') /\ Earned(c)'
  <2>1. /\ pc'[c] \in {"cleanup", "stop", "done"} /\ result'[c] = "failed"
        /\ smoke'[c] = smoke[c]
    BY <1>10, Failed, LeftFinally, FailureLeads
  <2> QED
    BY <1>6, <1>7, <2>1
<1>11. ASSUME NEW c \in Commands, Send(c) PROVE (c \in Locals => Local(c)') /\ Earned(c)'
  BY <1>8, <1>11 DEF Send
<1>12. ASSUME NEW c \in Locals, ProbeDocker(c) \/ RunPytest(c)
       PROVE Local(c)' /\ Earned(c)'
  <2>1. smoke'[c] = smoke[c] /\ c \in Commands /\ c \notin Directs
    BY <1>12, Probed, CommandKinds
  <2>2. Local(c)'
    BY <1>6, <1>12, <2>1, Probed
  <2>3. CASE pc[c] = "probe"
    <3>1. result[c] # "ok" /\ result'[c] # "ok"
      BY <1>12, <2>1, <2>3, Probed DEF CommandsWellFounded
    <3> QED
      BY <1>7, <2>1, <2>2, <3>1
  <2>4. CASE pc[c] = "pytest"
    <3>1. gate'[c] \in {"passed", "skipped"}
      BY <1>12, <2>4, Probed
    <3>2. \A k \in Smokes : Destroyed(<<c, k>>)
      BY <1>1, <1>4, <2>4
    <3> QED
      BY <1>3, <2>1, <2>2, <3>1, <3>2
  <2> QED
    BY <1>12, <2>3, <2>4, Probed
<1>13. ASSUME NEW q \in requests, Answer(q), NEW c, c = q.client
       PROVE c \in Commands /\ (c \in Locals => Local(c)') /\ Earned(c)'
  <2>1. /\ c \in Commands
        /\ q.lab = CurrentLab(c)
        /\ pc[c] \in {"create", "destroy", "cleanup"}
        /\ q.op = "create" <=> pc[c] = "create"
        /\ pc'[c] = AfterAnswer(c)
        /\ smoke'[c] = NextSmoke(c)
        /\ result'[c] = (IF AfterAnswer(c) = "done" /\ result[c] = "none"
                         THEN "ok" ELSE result[c])
        /\ known' = IF q.op = "create" THEN known \cup {q.lab} ELSE known
        /\ Carry(q) /\ Accepted(q)
    BY <1>13, Answered
  <2>2. result[c] # "ok"
    BY <2>1 DEF CommandsWellFounded
  <2>3. CASE pc[c] = "create" \/ pc[c] = "cleanup"
    <3>1. smoke'[c] = smoke[c]
      BY <2>1, <2>3, AnswerLeads DEF NextSmoke
    <3>2. pc'[c] \in {"read", "stop", "done"}
      BY <2>1, <2>3, AnswerLeads
    <3>3. result'[c] # "ok"
      <4>1. CASE pc[c] = "create"
        BY <2>1, <2>2, <4>1, AnswerLeads
      <4>2. CASE pc[c] = "cleanup"
        <5>1. result[c] = "failed"
          BY <2>1, <4>2 DEF CommandsWellFounded
        <5> QED
          BY <2>1, <5>1
      <4> QED
        BY <2>3, <4>1, <4>2
    <3> QED
      BY <1>6, <1>7, <2>1, <3>1, <3>2, <3>3
  <2>4. CASE pc[c] = "destroy"
    <3>1. /\ <<c, smoke[c]>> \in known'
          /\ lab'[<<c, smoke[c]>>].state = "destroyed"
      <4>1. q.lab = <<c, smoke[c]>> /\ q.op # "create" /\ q.lab \in known
        BY <2>1, <2>4 DEF CurrentLab, CommandsWellFounded
      <4>2. lab'[q.lab].state = "destroyed"
        BY <2>1, <4>1, Carries
      <4> QED
        BY <2>1, <4>1, <4>2
    <3>2. CASE c \in Directs
      <4>1. smoke'[c] = smoke[c] /\ c \notin Locals
        BY <2>1, <2>4, <3>2, AnswerLeads, CommandKinds DEF NextSmoke
      <4>2. CurrentLab(c)' = <<c, smoke[c]>>
        BY <4>1 DEF CurrentLab
      <4> QED
        BY <2>1, <3>1, <4>1, <4>2 DEF Destroyed
    <3>3. CASE c \notin Directs
      <4>1. c \in Locals
        BY <2>1, <3>3, CommandKinds
      <4>2. result'[c] # "ok"
        BY <2>1, <2>2, <2>4, <4>1, AnswerLeads
      <4>3. CASE smoke[c] = "docs"
        <5>1. /\ smoke'[c] = "cli" \/ smoke'[c] = "docs"
              /\ pc'[c] \in {"check", "stop"}
          BY <2>1, <2>4, <4>1, <4>3, AnswerLeads DEF NextSmoke
        <5> QED
          BY <2>1, <3>1, <4>2, <4>3, <5>1 DEF Destroyed
      <4>4. CASE smoke[c] = "cli"
        <5>1. smoke'[c] = "cli"
          BY <2>1, <4>4, AnswerLeads DEF NextSmoke
        <5>2. Destroyed(<<c, "cli">>)'
          BY <3>1, <4>4 DEF Destroyed
        <5>3. Destroyed(<<c, "docs">>)'
          BY <1>1, <1>3, <1>4, <2>1, <4>1, <4>4
        <5> QED
          BY <2>1, <4>2, <5>1, <5>2, <5>3
      <4> QED
        BY <1>4, <1>5, <2>1, <4>3, <4>4
    <3> QED
      BY <3>2, <3>3
  <2> QED
    BY <2>1, <2>3, <2>4
<1>14. ASSUME NEW c \in Commands, (c \in Locals => Local(c)') /\ Earned(c)',
              \/ MovesOn(c) \/ Fails(c) \/ Leaves(c) \/ Send(c) \/ Loses(c) \/ Hit(c)
              \/ c \in Locals /\ (ProbeDocker(c) \/ RunPytest(c))
              \/ \E q \in requests : q.client = c /\ Answer(q)
       PROVE ProgressIsReal'
  <2>1. \A e \in Commands : e # c => (e \in Locals => Local(e)') /\ Earned(e)'
    BY <1>8, <1>14, OthersStay
  <2> QED
    BY <1>2, <1>4, <1>14, <2>1
<1>15. CASE \E c \in Commands : MovesOn(c) \/ Fails(c) \/ Leaves(c) \/ Send(c)
  BY <1>9, <1>10, <1>11, <1>14, <1>15
<1>16. CASE \E c \in Locals : ProbeDocker(c) \/ RunPytest(c)
  BY <1>4, <1>12, <1>14, <1>16
<1>17. CASE \E q \in requests : Answer(q)
  BY <1>13, <1>14, <1>17
<1>18. CASE Around \/ \E q \in requests : AnswerLost(q) \/ Sends(q)
  <2>1. UNCHANGED <<pc, smoke, result, gate>>
    BY <1>18 DEF Around, Sends, LabView, AnswerLost
  <2>2. \A c \in Commands : (c \in Locals => Local(c)') /\ Earned(c)'
    BY <1>8, <2>1
  <2> QED
    BY <1>2, <1>4, <2>2
<1>19. ASSUME NEW c \in Commands, Loses(c) \/ Hit(c)
       PROVE (c \in Locals => Local(c)') /\ Earned(c)'
  <2>1. /\ pc'[c] = "stop" \/ pc'[c] = pc[c]
        /\ result'[c] = "failed" /\ smoke'[c] = smoke[c]
    BY <1>19, LostSmoke, HitSmoke
  <2> QED
    BY <1>6, <1>7, <2>1
<1>20. CASE \E c \in Commands : Loses(c) \/ Hit(c)
  BY <1>14, <1>19, <1>20
<1> QED
  BY <1>15, <1>16, <1>17, <1>18, <1>20, Kinds

-----------------------------------------------------------------------------
(* What smoke-local cleans up *)

\* The root of a command, its server, and whether it got to its clean-up, are
\* changed by its own steps and by its server's.
LEMMA LocalsStep ==
  ASSUME TypeOK, CommandsWellFounded, ServersHaveRoots, NothingOfLocalIsLeft, [Next]_vars
  PROVE ServersHaveRoots' /\ NothingOfLocalIsLeft'
<1> DEFINE Clean(c) ==
      /\ pc[c] \in {"start", "prepare", "initialise", "spawn"} => server[c] = "none"
      /\ pc[c] \notin {"start", "done"} => c \in root
      /\ pc[c] = "remove" => server[c] \in {"none", "exited"}
      /\ server[c] \in {"starting", "up"} => c \in root
      /\ pc[c] = "done" /\ c \notin cutShort =>
           c \notin root /\ server[c] \in {"none", "exited"}
<1>1. \A c \in Locals : Clean(c)
  BY DEF ServersHaveRoots, NothingOfLocalIsLeft
<1>2. (\A c \in Locals : Clean(c)') => ServersHaveRoots' /\ NothingOfLocalIsLeft'
  BY DEF ServersHaveRoots, NothingOfLocalIsLeft
<1>3. /\ pc \in [Commands -> Steps]
      /\ server \in [Servers -> {"none", "starting", "up", "exited"}]
      /\ Locals \subseteq Servers /\ Locals \subseteq Commands
      /\ Standing \notin Locals
  BY ReleaseSmokeAssumption DEF TypeOK, Servers, Commands
<1> SUFFICES ASSUME NEW c \in Locals PROVE Clean(c)'
  BY <1>2
<1>4. ASSUME pc'[c] = pc[c], server'[c] = server[c], c \in root' <=> c \in root,
             c \in cutShort => c \in cutShort'
      PROVE Clean(c)'
  BY <1>1, <1>4
<1>5. ASSUME NEW e \in Commands, Fail(e),
             pc[e] \notin {"start", "done", "stop", "kill", "remove"}
      PROVE Clean(c)'
  <2>1. UNCHANGED <<server, root>> /\ cutShort \subseteq cutShort'
    BY <1>5 DEF Fail, api
  <2>2. CASE e # c
    BY <1>3, <1>4, <1>5, <2>1, <2>2 DEF Fail, GoTo
  <2>3. CASE e = c
    <3>1. pc'[c] = AfterFailure(c) /\ c \in root
      BY <1>1, <1>3, <1>5, <2>3 DEF Fail, GoTo
    <3>2. pc'[c] \in {"cleanup", "stop", "done"}
      BY <1>3, <3>1, FailureLeads
    <3>3. pc'[c] = "done" => c \in cutShort'
      BY <1>3, <1>5, <2>3, <3>1, FailureLeads DEF Fail
    <3> QED
      BY <2>1, <3>1, <3>2, <3>3
  <2> QED
    BY <2>2, <2>3
<1>6. ASSUME NEW e \in Commands, LeaveFinally(e), pc[e] \in {"stop", "kill", "remove"}
      PROVE Clean(c)'
  <2>1. UNCHANGED <<server, root>> /\ cutShort' = cutShort \cup {e}
    BY <1>6 DEF LeaveFinally, api
  <2>2. CASE e # c
    BY <1>3, <1>4, <1>6, <2>1, <2>2 DEF LeaveFinally, GoTo
  <2>3. CASE e = c
    <3>1. pc'[c] = "done" /\ c \in root
      BY <1>1, <1>3, <1>6, <2>3 DEF LeaveFinally, GoTo
    <3> QED
      BY <2>1, <2>3, <3>1
  <2> QED
    BY <2>2, <2>3
<1>7. ASSUME NEW e \in Commands, LoseSmoke(e) PROVE Clean(c)'
  <2>1. UNCHANGED <<server, root, cutShort>> /\ pc[e] \in SmokeSteps
    BY <1>7 DEF LoseSmoke
  <2>2. CASE e # c
    BY <1>3, <1>4, <1>7, <2>1, <2>2 DEF LoseSmoke, GoTo
  <2>3. CASE e = c
    <3>1. pc'[c] = "stop" /\ pc[c] \in SmokeSteps
      BY <1>3, <1>7, <2>3 DEF LoseSmoke, GoTo
    <3> QED
      BY <1>1, <2>1, <3>1 DEF SmokeSteps
  <2> QED
    BY <2>2, <2>3
<1>8. ASSUME NEW e \in Commands, SmokeStep(e) \/ Interrupt(e) PROVE Clean(c)'
  <2>1. CASE Reads(e)
    BY <1>1, <1>3, <2>1 DEF Reads, GoTo, api, ghosts
  <2>2. CASE Send(e)
    BY <1>4, <2>2 DEF Send, ghosts
  <2>3. CASE RequestFails(e) \/ CleanupFails(e)
    BY <1>5, <2>3 DEF RequestFails, CleanupFails, SmokeSteps
  <2>4. CASE Interrupt(e)
    <3>1. CASE InterruptParent(e)
      BY <1>4, <3>1 DEF InterruptParent, api
    <3> QED
      BY <1>5, <1>6, <2>4, <3>1 DEF Interrupt
  <2>5. CASE KillSmoke(e)
    BY <1>7, <2>5 DEF KillSmoke
  <2> QED
    BY <1>8, <2>1, <2>2, <2>3, <2>4, <2>5 DEF SmokeStep
<1>9. ASSUME NEW e \in Directs, StartDirect(e) PROVE Clean(c)'
  <2>1. e # c /\ e \in Commands
    BY ReleaseSmokeAssumption DEF Commands
  <2> QED
    BY <1>3, <1>4, <1>9, <2>1 DEF StartDirect, GoTo, ghosts
<1>10. ASSUME NEW e \in Locals, LocalStep(e) PROVE Clean(c)'
  <2>1. CASE MakeRoot(e)
    BY <1>1, <1>3, <2>1 DEF MakeRoot, GoTo, api, ghosts
  <2>2. CASE FindPort(e) \/ InitializeDatabase(e)
    BY <1>1, <1>3, <2>2 DEF FindPort, InitializeDatabase, GoTo, api, ghosts
  <2>3. CASE StartServer(e)
    BY <1>1, <1>3, <2>3 DEF StartServer, GoTo, ghosts
  <2>4. CASE Ready(e)
    BY <1>1, <1>3, <2>4 DEF Ready, GoTo, api, ghosts
  <2>5. CASE StepFails(e)
    BY <1>3, <1>5, <2>5 DEF StepFails
  <2>6. CASE ProbeDocker(e) \/ RunPytest(e)
    BY <1>1, <1>3, <2>6 DEF ProbeDocker, RunPytest, GoTo, api, ghosts
  <2>7. CASE StopServer(e)
    BY <1>1, <1>3, <2>7 DEF StopServer, Down, GoTo, ghosts
  <2>8. CASE KillServer(e)
    BY <1>1, <1>3, <2>8 DEF KillServer, Down, GoTo, ghosts
  <2>9. CASE KillTimesOut(e)
    BY <1>3, <1>6, <2>9 DEF KillTimesOut
  <2>10. CASE RemoveRoot(e)
    BY <1>1, <1>3, <2>10 DEF RemoveRoot, GoTo, api
  <2> QED
    BY <1>10, <2>1, <2>2, <2>3, <2>4, <2>5, <2>6, <2>7, <2>8, <2>9, <2>10 DEF LocalStep
<1>11. ASSUME NEW e \in Locals, Bind(e) \/ ServerDies(e) PROVE Clean(c)'
  BY <1>1, <1>3, <1>11 DEF Bind, ServerDies, Down, ghosts
<1>12. ASSUME NEW e \in Locals, SmokeDies(e) PROVE Clean(c)'
  BY <1>3, <1>7, <1>12 DEF SmokeDies
<1>13. ASSUME NEW q \in requests, AnswerLost(q) \/ OrphanSends(q) \/ OrphanEnds(q)
       PROVE Clean(c)'
  BY <1>4, <1>13 DEF AnswerLost, OrphanSends, OrphanEnds, ghosts
<1>14. ASSUME NEW q \in requests, Answer(q) PROVE Clean(c)'
  <2>1. UNCHANGED <<server, root, cutShort>> /\ q.client \in Commands
    BY <1>14, Answered DEF Answer, ghosts
  <2>2. CASE q.client # c
    BY <1>3, <1>4, <1>14, <2>1, <2>2, OthersStay
  <2>3. CASE q.client = c
    <3>1. pc[c] \in {"create", "destroy", "cleanup"} /\ pc'[c] = AfterAnswer(c)
      BY <1>14, <2>3, Answered
    <3>2. pc'[c] \in {"read", "stop", "check", "probe"}
      BY <1>3, <3>1, AnswerLeads, CommandKinds
    <3> QED
      BY <1>1, <2>1, <3>1, <3>2
  <2> QED
    BY <2>2, <2>3
<1>15. ASSUME NEW p \in Ports, StartStanding(p) PROVE Clean(c)'
  BY <1>1, <1>3, <1>15 DEF StartStanding, ghosts
<1>16. CASE DockerChanges
  BY <1>4, <1>16 DEF DockerChanges, api, ghosts
<1>17. CASE Done \/ UNCHANGED vars
  BY <1>4, <1>17 DEF Done, vars, api, ghosts
<1> QED
  BY <1>8, <1>9, <1>10, <1>11, <1>12, <1>13, <1>14, <1>15, <1>16, <1>17 DEF Next

-----------------------------------------------------------------------------
(* The invariant *)

LEMMA IndInvInit ==
  ASSUME Init
  PROVE IndInv
<1>1. TypeOK
  BY DEF Init, TypeOK, Steps
<1>2. \A c \in Commands : /\ pc[c] = "start" /\ result[c] = "none" /\ c \notin waiting
                          /\ c \notin interrupted
                          /\ c \in Locals => smoke[c] = "docs"
  BY DEF Init
<1>3. CommandsWellFounded
  BY <1>2 DEF CommandsWellFounded
<1>4. \A x \in Lab : Untouched(x) /\ lab[x].state = "none"
  BY DEF Init, Untouched
<1>5. CreatedOnce /\ FailuresAreCounted
  BY <1>4, LabPairs DEF CreatedOnce, FailuresAreCounted, Init, Untouched
<1>6. ProgressIsReal
  BY <1>2 DEF ProgressIsReal, Commands
<1>7. ServersHaveRoots /\ NothingOfLocalIsLeft
  BY <1>2 DEF Init, ServersHaveRoots, NothingOfLocalIsLeft, Servers, Commands
<1> QED
  BY <1>1, <1>3, <1>5, <1>6, <1>7 DEF IndInv

LEMMA IndInvStep ==
  ASSUME IndInv, [Next]_vars
  PROVE IndInv'
  BY TypeStep, CommandsStep, CreatedOnceStep, FailuresStep, ProgressStep, LocalsStep
  DEF IndInv

-----------------------------------------------------------------------------
(* The theorems *)

\* Every reachable state satisfies the invariant.
THEOREM Inductive == Spec => []IndInv
  BY IndInvInit, IndInvStep, PTL DEF Spec

\* Commands, servers, labs, requests and what is recorded of them keep their
\* types.
THEOREM TypeCorrect == Spec => []TypeOK
<1>1. IndInv => TypeOK
  BY DEF IndInv
<1> QED
  BY <1>1, Inductive, PTL

\* A smoke that has ended leaves a live lab only after a failure; if it knew the
\* id, only after a second one that hit its clean-up, or because it was killed.
THEOREM LeftoversAreExplained == Spec => []LeftoversHaveACause
<1>1. IndInv => LeftoversHaveACause
  <2> SUFFICES ASSUME IndInv, NEW x \in Lab, Left(x)
               PROVE faults[x[1]] >= (IF x \in known \ killed THEN 2 ELSE 1)
    BY DEF LeftoversHaveACause
  <2>1. x[1] \in Commands /\ x[2] \in Smokes /\ x = <<x[1], x[2]>>
    BY LabPairs
  <2>2. /\ x \notin known /\ lab[x].state # "none" =>
             \/ faults[x[1]] >= 1
             \/ smoke[x[1]] = x[2] /\ pc[x[1]] = "create" /\ x[1] \in waiting
        /\ x \in known /\ lab[x].state = "live" =>
             \/ faults[x[1]] >= 2
             \/ x \in killed /\ faults[x[1]] >= 1
             \/ smoke[x[1]] = x[2] /\ pc[x[1]] \in SmokeSteps
    BY <2>1 DEF IndInv, FailuresAreCounted
  <2>3. faults[x[1]] \in Nat
    BY <2>1 DEF IndInv, TypeOK
  <2> QED
    BY <2>2, <2>3 DEF Left, SmokeSteps
<1> QED
  BY <1>1, Inductive, PTL

\* An exit status of 0 stands for labs that were made and destroyed, and for
\* smoke-local for a Docker smoke that ran or was skipped.
THEOREM SuccessStandsForWork == Spec => []SuccessIsEarned
<1>1. IndInv => SuccessIsEarned
  BY DEF IndInv, ProgressIsReal, SuccessIsEarned, Destroyed
<1> QED
  BY <1>1, Inductive, PTL

\* smoke-local leaves neither its server nor its root behind, unless its
\* clean-up was cut short.
THEOREM LocalCleansUp == Spec => []NothingOfLocalIsLeft
<1>1. IndInv => NothingOfLocalIsLeft
  BY DEF IndInv
<1> QED
  BY <1>1, Inductive, PTL
=============================================================================
