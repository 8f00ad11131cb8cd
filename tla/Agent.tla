------------------------------- MODULE Agent --------------------------------
(***************************************************************************)
(* The agents of one remote account: run_agent --replace of                *)
(* crates/cxs-shim/src/main.rs with unix/agent_process.rs.  A bridge that  *)
(* connects starts an agent over ssh, which stops the agents before it,    *)
(* takes the socket and the pid file, and serves until its ssh ends or a   *)
(* later agent stops it.  Agents meet in the two files and in signals.     *)
(*                                                                         *)
(* Linux and macOS find the agents to stop in different ways; a behaviour  *)
(* is of one of them.  Every socket an agent binds is a new inode, named   *)
(* by the agent.  Waiting is bounded by the code; how long is left open.   *)
(* A signal takes effect at once, a killed process goes in time, and       *)
(* files and processes fail no call for reasons of their own.  An agent    *)
(* is gone when run_agent has returned; its process may outlive that in a  *)
(* read of its stdin (Mux), without the socket, the pid file and children. *)
(***************************************************************************)
EXTENDS Integers

CONSTANTS
  MaxAgents,     \* bound of the model: agent processes in one behaviour
  NoAgent        \* no process: an absent file

ASSUME MaxAgentsAssumption == MaxAgents \in Nat \ {0}

Agents == 1..MaxAgents
SomeAgent == Agents \cup {NoAgent}

ASSUME NoAgentAssumption == NoAgent \notin Agents

VARIABLES
  linux,         \* the platform: Linux, else macOS
  phase,         \* per agent, how far run_agent has come
  victims,       \* per agent, what existing_agent_processes found, less those stopped
  target,        \* per agent, the process stop_agent_process waits for
  guard,         \* per agent, the inode its SocketGuard has noted
  listening,     \* agents whose listener is open
  handled,       \* agents whose SIGTERM handler is installed
  signalled,     \* agents with a SIGTERM their select! has not looked at
  exec,          \* per agent, its Exec Server
  linked,        \* agents whose desktop holds the ssh connection
  socket,        \* the inode at config.agent_socket
  pid_file,
  killed,        \* history: agents ended by a signal
  refused,       \* history: agents that could not take the socket
  crossed        \* history: two agents have handled the files at once

processVars == <<phase, listening, handled, signalled, linked, killed>>
stopVars == <<victims, target>>
fileVars == <<socket, pid_file, crossed>>
vars == <<linux, processVars, stopVars, guard, exec, fileVars, refused>>

Stopping == {"list", "stop", "await_victim", "kill_victim"}
Replacing ==
  {"inspect", "replace", "await_listener", "kill_listener", "remove", "unlink", "unlink_pid", "bind", "guard", "write_pid"}
Working == {"hello", "spawn", "startup", "serving", "stop_exec"}
Dropping == {"drop_pid", "unlink_own_pid", "drop_socket", "unlink_own_socket"}
Phases == {"unborn", "gone"} \cup Stopping \cup Replacing \cup Working \cup Dropping

Alive(a) == phase[a] \notin {"unborn", "gone"}

\* About to remove what is at a path, whoever put it there.
Removing(a) ==
  phase[a] \in {"replace", "await_listener", "kill_listener", "remove", "unlink", "unlink_pid",
               "unlink_own_pid", "unlink_own_socket"}

\* Types; a signal waits only where it is listened for.
TypeOK ==
  /\ linux \in BOOLEAN
  /\ phase \in [Agents -> Phases]
  /\ victims \in [Agents -> SUBSET Agents]
  /\ target \in [Agents -> SomeAgent]
  /\ guard \in [Agents -> SomeAgent]
  /\ listening \subseteq {a \in Agents : Alive(a)}
  /\ handled \subseteq {a \in Agents : Alive(a)}
  /\ signalled \subseteq handled
  /\ exec \in [Agents -> {"none", "running", "stopped"}]
  /\ linked \subseteq {a \in Agents : Alive(a)}
  /\ socket \in SomeAgent /\ pid_file \in SomeAgent
  /\ killed \subseteq Agents /\ refused \subseteq Agents
  /\ crossed \in BOOLEAN

Init ==
  /\ linux \in BOOLEAN
  /\ phase = [a \in Agents |-> "unborn"]
  /\ victims = [a \in Agents |-> {}]
  /\ target = [a \in Agents |-> NoAgent]
  /\ guard = [a \in Agents |-> NoAgent]
  /\ listening = {} /\ handled = {} /\ signalled = {}
  /\ exec = [a \in Agents |-> "none"]
  /\ linked = {}
  /\ socket = NoAgent /\ pid_file = NoAgent
  /\ killed = {} /\ refused = {}
  /\ crossed = FALSE

-----------------------------------------------------------------------------
(* Processes *)

\* A process is over: its descriptors close, its ssh ends, its locals go.
Closes(a) ==
  /\ listening' = listening \ {a}
  /\ handled' = handled \ {a}
  /\ signalled' = signalled \ {a}
  /\ linked' = linked \ {a}
  /\ guard' = [guard EXCEPT ![a] = NoAgent]

Ends(a) ==
  /\ phase' = [phase EXCEPT ![a] = "gone"]
  /\ victims' = [victims EXCEPT ![a] = {}]
  /\ target' = [target EXCEPT ![a] = NoAgent]
  /\ Closes(a)

Goes(a, from, to) ==
  /\ phase[a] = from
  /\ phase' = [phase EXCEPT ![a] = to]

SameProcesses == UNCHANGED <<listening, handled, signalled, linked, killed>>

OnlyGoes(a, from, to) ==
  /\ Goes(a, from, to)
  /\ SameProcesses
  /\ UNCHANGED <<linux, stopVars, guard, exec, fileVars, refused>>

\* A bridge runs ssh with __cxs-agent --replace.
Start(a) ==
  /\ \A b \in 1..(a - 1) : phase[b] # "unborn"
  /\ Goes(a, "unborn", IF linux THEN "list" ELSE "inspect")
  /\ linked' = linked \cup {a}
  /\ UNCHANGED <<linux, listening, handled, signalled, killed, stopVars, guard, exec, fileVars, refused>>

\* The bridge gives up or loses the connection; the agent has not noticed yet.
LoseLink(a) ==
  /\ a \in linked
  /\ linked' = linked \ {a}
  /\ UNCHANGED <<linux, phase, listening, handled, signalled, killed, stopVars, guard, exec, fileVars, refused>>

\* Killed by the system, by the user or with the ssh session.
Crash(a) ==
  /\ Alive(a)
  /\ Ends(a)
  /\ killed' = killed \cup {a}
  /\ UNCHANGED <<linux, exec, fileVars, refused>>

\* An Exec Server exits, by itself or because its stdin was closed.
ExecExits(a) ==
  /\ exec[a] = "running"
  /\ exec' = [exec EXCEPT ![a] = "stopped"]
  /\ UNCHANGED <<linux, processVars, stopVars, guard, fileVars, refused>>

-----------------------------------------------------------------------------
(* Stopping the agents before it *)

\* Defect: only agents that have come as far as a listener are found.
List_Listeners(a) ==
  /\ Goes(a, "list", "stop")
  /\ victims' = [victims EXCEPT ![a] = listening]
  /\ SameProcesses
  /\ UNCHANGED <<linux, target, guard, exec, fileVars, refused>>

\* existing_agent_processes, on Linux: every other agent of the account.
List(a) ==
  /\ Goes(a, "list", "stop")
  /\ victims' = [victims EXCEPT ![a] = {b \in Agents \ {a} : Alive(b)}]
  /\ SameProcesses
  /\ UNCHANGED <<linux, target, guard, exec, fileVars, refused>>

\* SIGTERM from a to b: without a handler it ends b, with one it waits for
\* the select! of serve_agent_mux.
Terminate(a, b, next) ==
  IF b \in handled
  THEN /\ phase' = [phase EXCEPT ![a] = next]
       /\ target' = [target EXCEPT ![a] = b]
       /\ signalled' = signalled \cup {b}
       /\ UNCHANGED <<listening, handled, linked, killed, victims, guard>>
  ELSE /\ phase' = [phase EXCEPT ![a] = next, ![b] = "gone"]
       /\ target' = [target EXCEPT ![a] = b, ![b] = NoAgent]
       /\ victims' = [victims EXCEPT ![b] = {}]
       /\ killed' = killed \cup {b}
       /\ Closes(b)

\* stop_agent_process waits three seconds for the process to go.
Await(a, kill, next) ==
  IF Alive(target[a])
  THEN /\ phase' = [phase EXCEPT ![a] = kill]
       /\ UNCHANGED stopVars
  ELSE /\ phase' = [phase EXCEPT ![a] = next]
       /\ target' = [target EXCEPT ![a] = NoAgent]
       /\ victims' = [victims EXCEPT ![a] = @ \ {target[a]}]

\* Then it kills it, unless validate_agent_process finds that it has just
\* gone: an error.
Kill(a, next) ==
  LET b == target[a] IN
  IF Alive(b)
  THEN /\ phase' = [phase EXCEPT ![a] = next, ![b] = "gone"]
       /\ target' = [target EXCEPT ![a] = NoAgent, ![b] = NoAgent]
       /\ victims' = [victims EXCEPT ![a] = @ \ {b}, ![b] = {}]
       /\ killed' = killed \cup {b}
       /\ Closes(b)
  ELSE Ends(a) /\ UNCHANGED killed

StopVictim(a, b) ==
  /\ phase[a] = "stop"
  /\ b \in victims[a]
  /\ IF Alive(b)
     THEN Terminate(a, b, "await_victim")
     ELSE /\ victims' = [victims EXCEPT ![a] = @ \ {b}]
          /\ UNCHANGED <<processVars, target, guard>>
  /\ UNCHANGED <<linux, exec, fileVars, refused>>

\* Defect: a SIGTERM is taken for the end of the process.
AwaitVictim_Assumed(a) ==
  /\ Goes(a, "await_victim", "stop")
  /\ target' = [target EXCEPT ![a] = NoAgent]
  /\ victims' = [victims EXCEPT ![a] = @ \ {target[a]}]
  /\ SameProcesses
  /\ UNCHANGED <<linux, guard, exec, fileVars, refused>>

AwaitVictim(a) ==
  /\ phase[a] = "await_victim"
  /\ Await(a, "kill_victim", "stop")
  /\ SameProcesses
  /\ UNCHANGED <<linux, guard, exec, fileVars, refused>>

KillVictim(a) ==
  /\ phase[a] = "kill_victim"
  /\ Kill(a, "stop")
  /\ UNCHANGED <<linux, exec, fileVars, refused>>

VictimsStopped(a) ==
  /\ victims[a] = {}
  /\ Goes(a, "stop", "inspect")
  /\ SameProcesses
  /\ UNCHANGED <<linux, stopVars, guard, exec, fileVars, refused>>

-----------------------------------------------------------------------------
(* Taking the socket and the pid file *)

\* prepare_agent_socket, or run_agent before it has a guard, fails.
Refuse(a) ==
  /\ Ends(a)
  /\ refused' = refused \cup {a}
  /\ UNCHANGED <<linux, killed, exec, fileVars>>

\* prepare_agent_socket: is there a socket, and does it answer?
Inspect(a) ==
  OnlyGoes(a, "inspect",
    IF socket = NoAgent THEN "unlink_pid" ELSE IF socket \in listening THEN "replace" ELSE "remove")

\* active_agent_pid: on Linux who has the socket, on macOS whom the pid file names.
ActiveAgent == IF linux THEN socket ELSE pid_file

\* replace_agent; validate_agent_process refuses what is not an agent.
Replace(a) ==
  /\ phase[a] = "replace"
  /\ IF ActiveAgent # NoAgent /\ Alive(ActiveAgent)
     THEN /\ Terminate(a, ActiveAgent, "await_listener")
          /\ UNCHANGED <<linux, exec, fileVars, refused>>
     ELSE Refuse(a)

AwaitListener(a) ==
  /\ phase[a] = "await_listener"
  /\ Await(a, "kill_listener", "remove")
  /\ SameProcesses
  /\ UNCHANGED <<linux, guard, exec, fileVars, refused>>

KillListener(a) ==
  /\ phase[a] = "kill_listener"
  /\ Kill(a, "remove")
  /\ UNCHANGED <<linux, exec, fileVars, refused>>

\* path.exists()
SocketExists(a) ==
  OnlyGoes(a, "remove", IF socket = NoAgent THEN "unlink_pid" ELSE "unlink")

\* remove_file fails if the socket has gone since.
Unlink(a) ==
  /\ phase[a] = "unlink"
  /\ IF socket = NoAgent
     THEN Refuse(a)
     ELSE /\ Goes(a, "unlink", "unlink_pid")
          /\ socket' = NoAgent
          /\ SameProcesses
          /\ UNCHANGED <<linux, stopVars, guard, exec, pid_file, crossed, refused>>

UnlinkPid(a) ==
  /\ Goes(a, "unlink_pid", "bind")
  /\ pid_file' = NoAgent
  /\ SameProcesses
  /\ UNCHANGED <<linux, stopVars, guard, exec, socket, crossed, refused>>

\* A file is put while another agent is about to remove one, or has put its pid
\* file since a removed the one that was there.
Crosses(a) == crossed' = (crossed \/ pid_file # NoAgent \/ \E b \in Agents \ {a} : Removing(b))

Bind(a) ==
  /\ phase[a] = "bind"
  /\ IF socket # NoAgent
     THEN Refuse(a)
     ELSE /\ Goes(a, "bind", "guard")
          /\ socket' = a
          /\ listening' = listening \cup {a}
          /\ Crosses(a)
          /\ UNCHANGED <<linux, handled, signalled, linked, killed, stopVars, guard, exec, pid_file, refused>>

\* set_permissions and SocketGuard::new look at what is at the path now.
NoteSocket(a) ==
  /\ phase[a] = "guard"
  /\ IF socket = NoAgent
     THEN Refuse(a)
     ELSE /\ Goes(a, "guard", "write_pid")
          /\ guard' = [guard EXCEPT ![a] = socket]
          /\ SameProcesses
          /\ UNCHANGED <<linux, stopVars, exec, fileVars, refused>>

WritePid(a) ==
  /\ Goes(a, "write_pid", "hello")
  /\ pid_file' = a
  /\ Crosses(a)
  /\ SameProcesses
  /\ UNCHANGED <<linux, stopVars, guard, exec, socket, refused>>

-----------------------------------------------------------------------------
(* Serving *)

\* The handshake is written, or not if nobody reads it.
Hello(a) ==
  \/ OnlyGoes(a, "hello", "spawn")
  \/ a \notin linked /\ OnlyGoes(a, "hello", "drop_pid")

\* The listener goes with serve_agent_mux or serve_agent_with_exec_server.
StopsListening(a) ==
  /\ listening' = listening \ {a}
  /\ UNCHANGED <<linux, handled, signalled, linked, killed, stopVars, guard, fileVars, refused>>

SpawnExec(a) ==
  \/ /\ Goes(a, "spawn", "startup")
     /\ exec' = [exec EXCEPT ![a] = "running"]
     /\ SameProcesses
     /\ UNCHANGED <<linux, stopVars, guard, fileVars, refused>>
  \/ /\ Goes(a, "spawn", "drop_pid")
     /\ UNCHANGED exec
     /\ StopsListening(a)

\* 100 ms later an Exec Server that is gone is an error; otherwise
\* serve_agent_mux installs its handler.
ExecStarted(a) ==
  \/ /\ exec[a] = "running"
     /\ Goes(a, "startup", "serving")
     /\ handled' = handled \cup {a}
     /\ UNCHANGED <<linux, listening, signalled, linked, killed, stopVars, guard, exec, fileVars, refused>>
  \/ /\ exec[a] = "stopped"
     /\ Goes(a, "startup", "drop_pid")
     /\ UNCHANGED exec
     /\ StopsListening(a)

\* The mux task or a SIGTERM ends serve_agent_mux.
StopServing(a) ==
  /\ a \notin linked \/ a \in signalled
  /\ Goes(a, "serving", "stop_exec")
  /\ UNCHANGED exec
  /\ StopsListening(a)

\* Defects: the Exec Server is left running, or waited for without an end.
StopExec_Left(a) == OnlyGoes(a, "stop_exec", "drop_pid")

StopExec_Waits(a) ==
  /\ exec[a] = "stopped"
  /\ OnlyGoes(a, "stop_exec", "drop_pid")

\* stop_exec_server: closed stdin, SIGTERM, SIGKILL, each with its time.
StopExec(a) ==
  /\ Goes(a, "stop_exec", "drop_pid")
  /\ exec' = [exec EXCEPT ![a] = "stopped"]
  /\ SameProcesses
  /\ UNCHANGED <<linux, stopVars, guard, fileVars, refused>>

\* Drop of PidFileGuard, then of SocketGuard: a look and, if the file is still
\* its own, the removal.
DropPid(a) ==
  OnlyGoes(a, "drop_pid", IF pid_file = a THEN "unlink_own_pid" ELSE "drop_socket")

UnlinkOwnPid(a) ==
  /\ Goes(a, "unlink_own_pid", "drop_socket")
  /\ pid_file' = NoAgent
  /\ SameProcesses
  /\ UNCHANGED <<linux, stopVars, guard, exec, socket, crossed, refused>>

\* Defect: any socket at the path is removed.
DropSocket_Unchecked(a) == OnlyGoes(a, "drop_socket", "unlink_own_socket")

DropSocket(a) ==
  \/ socket = guard[a] /\ OnlyGoes(a, "drop_socket", "unlink_own_socket")
  \/ /\ socket # guard[a]
     /\ phase[a] = "drop_socket"
     /\ Ends(a)
     /\ UNCHANGED <<linux, killed, exec, fileVars, refused>>

UnlinkOwnSocket(a) ==
  /\ phase[a] = "unlink_own_socket"
  /\ socket' = NoAgent
  /\ Ends(a)
  /\ UNCHANGED <<linux, killed, exec, pid_file, crossed, refused>>

AgentStep(a) ==
  \/ List(a) \/ (\E b \in Agents : StopVictim(a, b)) \/ AwaitVictim(a) \/ KillVictim(a) \/ VictimsStopped(a)
  \/ Inspect(a) \/ Replace(a) \/ AwaitListener(a) \/ KillListener(a)
  \/ SocketExists(a) \/ Unlink(a) \/ UnlinkPid(a) \/ Bind(a) \/ NoteSocket(a) \/ WritePid(a)
  \/ Hello(a) \/ SpawnExec(a) \/ ExecStarted(a) \/ StopServing(a) \/ StopExec(a)
  \/ DropPid(a) \/ UnlinkOwnPid(a) \/ DropSocket(a) \/ UnlinkOwnSocket(a)

Next == \E a \in Agents : AgentStep(a) \/ Start(a) \/ LoseLink(a) \/ Crash(a) \/ ExecExits(a)

Spec == Init /\ [][Next]_vars

(* Every agent that runs is scheduled; its waits are bounded, and a lost   *)
(* ssh connection is noticed.                                              *)
FairSpec == Spec /\ \A a \in Agents : WF_vars(AgentStep(a))

-----------------------------------------------------------------------------
(* Properties *)

\* On Linux at most one agent of the account is past stopping the others, so
\* none works on the socket, the pid file or the Exec Server while another
\* does, however many start at once (stop_existing_agents).
OneAgent ==
  linux => \A a, b \in Agents :
    phase[a] \in Replacing \cup Working \cup Dropping /\ phase[b] \in Replacing \cup Working \cup Dropping => a = b

ReachableAgent == \A a \in Agents : phase[a] = "serving" => socket = a /\ pid_file = a

\* An agent that serves is the one a shim reaches and the pid file names, so a
\* stale agent that ends leaves the files of a new one alone: on Linux always,
\* on macOS unless one put a file while another was about to remove it, or
\* beside the pid file of another (SocketGuard, PidFileGuard,
\* prepare_agent_socket).
ServingReachable == linux \/ ~crossed => ReachableAgent

\* On Linux an agent that has stopped the others can take the socket: none
\* that is stale or starting makes it fail (prepare_agent_socket, bind).
RecoveryNotBlocked == linux => refused = {}

\* An agent that ends of its own accord has stopped its Exec Server.
ExecStopped ==
  \A a \in Agents : phase[a] = "gone" /\ a \notin killed => exec[a] # "running"

\* An agent that is started serves its desktop or ends: agents that stop each
\* other never wait for each other, and none stays when its desktop is gone,
\* whatever its Exec Server does.
Settles ==
  \A a \in Agents : Alive(a) ~> phase[a] = "gone" \/ (phase[a] = "serving" /\ a \in linked)
=============================================================================
