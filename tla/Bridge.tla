------------------------------- MODULE Bridge -------------------------------
(***************************************************************************)
(* The bridge processes of one profile on the desktop and the commands     *)
(* that start and stop them: serve and serve_multiplexed of                *)
(* crates/cxs-bridge/src/lib.rs, and up, down and session_scope of         *)
(* crates/cxs-cli/src/main.rs.  A command holds the profile's exclusive    *)
(* lock, so one runs at a time; bridges take no lock.  They meet in the    *)
(* pid file, the local endpoint, the Exec port, signals and the session    *)
(* scope file.                                                             *)
(*                                                                         *)
(* Delays are nondeterministic, so the failure count and the backoff       *)
(* computed from it leave no trace here.                                   *)
(***************************************************************************)
EXTENDS Integers, FiniteSets

CONSTANTS
  MaxBridges,    \* bound of the model: bridge processes in one behaviour
  Threads,       \* threads the sessions start
  NoProcess,     \* no process: an absent file, a free port, no child
  NoScope        \* no scope loaded, or no session left that uses it

ASSUME MaxBridgesAssumption == MaxBridges \in Nat \ {0}

Bridges == 1..MaxBridges
SomeBridge == Bridges \cup {NoProcess}

\* SessionScope: the file and every copy of it in memory.
Scopes == [enabled: BOOLEAN, thread_ids: SUBSET Threads]

ASSUME NothingAssumption == NoProcess \notin Bridges /\ NoScope \notin Scopes

VARIABLES
  phase,         \* per bridge, how far serve has come
  handled,       \* bridges whose handlers for SIGTERM and Ctrl-C are installed
  signalled,     \* bridges with a SIGTERM their select! has not looked at
  scope,         \* per bridge, session_scope of the current connection, or NoScope
  late_scope,    \* per bridge, that of an earlier connection still in use, or NoScope
  endpoint,      \* who bound the socket at profile.local_socket
  exec_port,     \* who listens on profile.local_exec_port
  pid_file,
  scope_file,
  at,            \* the step the running command is at; "idle" when none runs
  command,       \* "up", "down" or "session-scope"
  target,        \* the bridge stop_bridge waits for
  restart,       \* restart_bridge of session_scope
  loaded,        \* the scope session_scope has read
  child,         \* the bridge this command has spawned
  said,          \* how the last command ended
  recorded,      \* history: threads whose ownership was saved
  settled,       \* history: those saved while no session of an earlier connection was left
  late,          \* history: a session of an earlier connection has recorded a thread
  chosen         \* history: the last --disable or not that session_scope saved

bridgeVars == <<phase, handled, signalled>>
scopeVars == <<scope, late_scope>>
commandVars == <<at, command, target, restart, loaded, child, said>>
runtimeVars == <<endpoint, exec_port, pid_file>>
fileVars == <<scope_file, recorded, settled, late, chosen>>
vars == <<bridgeVars, scopeVars, runtimeVars, fileVars, commandVars>>

Alive == {"starting", "connecting", "preparing", "binding", "exec_binding", "serving", "exiting", "backoff"}
Phases == Alive \cup {"unborn", "zombie", "gone"}
Steps == {"idle", "check", "spawn", "write_pid", "wait", "stop", "await_exit", "cleanup", "load", "save"}
Results == {"nothing", "started", "running", "stopped", "already stopped", "failed"}

Running(p) == p # NoProcess /\ phase[p] \in Alive

\* Types; a pending signal belongs to a bridge that listens for it, and what is
\* saved was loaded.
TypeOK ==
  /\ phase \in [Bridges -> Phases]
  /\ handled \subseteq Bridges
  /\ signalled \subseteq {p \in handled : phase[p] = "serving"}
  /\ scope \in [Bridges -> Scopes \cup {NoScope}]
  /\ late_scope \in [Bridges -> Scopes \cup {NoScope}]
  /\ endpoint \in SomeBridge /\ exec_port \in SomeBridge /\ pid_file \in SomeBridge
  /\ target \in SomeBridge /\ child \in SomeBridge
  /\ scope_file \in Scopes
  /\ loaded \in Scopes \cup {NoScope} /\ (at = "save" => loaded \in Scopes)
  /\ at \in Steps
  /\ command \in {"up", "down", "session-scope"}
  /\ restart \in BOOLEAN
  /\ said \in Results
  /\ recorded \subseteq Threads /\ settled \subseteq recorded
  /\ late \in BOOLEAN
  /\ chosen \in BOOLEAN

\* A new profile: SessionScope::enabled, no bridge.
Init ==
  /\ phase = [p \in Bridges |-> "unborn"]
  /\ handled = {}
  /\ signalled = {}
  /\ scope_file = [enabled |-> TRUE, thread_ids |-> {}]
  /\ scope = [p \in Bridges |-> NoScope]
  /\ late_scope = [p \in Bridges |-> NoScope]
  /\ endpoint = NoProcess
  /\ exec_port = NoProcess
  /\ pid_file = NoProcess
  /\ at = "idle"
  /\ command = "up"
  /\ target = NoProcess
  /\ restart = FALSE
  /\ loaded = NoScope
  /\ child = NoProcess
  /\ said = "nothing"
  /\ recorded = {}
  /\ settled = {}
  /\ late = FALSE
  /\ chosen = TRUE

-----------------------------------------------------------------------------
(* A bridge process *)

\* An exited child stays a zombie until the command that spawned it ends:
\* up never waits for it.
Exited(p) == IF child = p THEN "zombie" ELSE "gone"

Ends(p) ==
  /\ phase' = [phase EXCEPT ![p] = Exited(p)]
  /\ handled' = handled \ {p}
  /\ signalled' = signalled \ {p}
  /\ scope' = [scope EXCEPT ![p] = NoScope]
  /\ late_scope' = [late_scope EXCEPT ![p] = NoScope]
  /\ exec_port' = IF exec_port = p THEN NoProcess ELSE exec_port

DoesNotEnd == UNCHANGED <<bridgeVars, scopeVars, exec_port>>

\* read_token at the head of serve: the only error that ends the process.
Start(p) ==
  /\ phase[p] = "starting"
  /\ \/ /\ phase' = [phase EXCEPT ![p] = "connecting"]
        /\ UNCHANGED <<handled, signalled, scopeVars, exec_port>>
     \/ Ends(p)
  /\ UNCHANGED <<endpoint, pid_file, fileVars, commandVars>>

Goes(p, from, to) ==
  /\ phase[p] = from
  /\ phase' = [phase EXCEPT ![p] = to]

\* start_agent succeeds and serve_multiplexed loads the scope.
Connect(p) ==
  /\ Goes(p, "connecting", "preparing")
  /\ scope' = [scope EXCEPT ![p] = scope_file]
  /\ UNCHANGED <<handled, signalled, late_scope, runtimeVars, fileVars, commandVars>>

ConnectFails(p) ==
  /\ Goes(p, "connecting", "backoff")
  /\ UNCHANGED <<handled, signalled, scopeVars, runtimeVars, fileVars, commandVars>>

\* prepare_local_endpoint removes whatever socket is there.
Prepare(p) ==
  /\ Goes(p, "preparing", "binding")
  /\ endpoint' = NoProcess
  /\ UNCHANGED <<handled, signalled, scopeVars, exec_port, pid_file, fileVars, commandVars>>

Bind(p) ==
  /\ IF endpoint = NoProcess
     THEN Goes(p, "binding", "exec_binding") /\ endpoint' = p /\ UNCHANGED scope
     ELSE Goes(p, "binding", "backoff") /\ UNCHANGED endpoint /\ scope' = [scope EXCEPT ![p] = NoScope]
  /\ UNCHANGED <<handled, signalled, late_scope, exec_port, pid_file, fileVars, commandVars>>

\* The loop of serve_multiplexed polls the two signal futures for the first time.
BindExec(p) ==
  /\ Goes(p, "exec_binding", "serving")
  /\ exec_port = NoProcess
  /\ exec_port' = p
  /\ handled' = handled \cup {p}
  /\ UNCHANGED <<signalled, scopeVars, endpoint, pid_file, fileVars, commandVars>>

\* Another bridge or another program has the port.  The SocketGuard removes
\* the endpoint, by path.
BindExecFails(p) ==
  /\ Goes(p, "exec_binding", "backoff")
  /\ endpoint' = NoProcess
  /\ scope' = [scope EXCEPT ![p] = NoScope]
  /\ UNCHANGED <<handled, signalled, late_scope, exec_port, pid_file, fileVars, commandVars>>

\* Defects: the Exec listener outlives the connection, and a signal does.
LoseTransport_KeepsPort(p) ==
  /\ Goes(p, "serving", "backoff")
  /\ endpoint' = NoProcess
  /\ signalled' = signalled \ {p}
  /\ UNCHANGED <<handled, scopeVars, exec_port, pid_file, fileVars, commandVars>>

\* serve_multiplexed ends with an error: the guard removes the endpoint and
\* the listeners close.  Sessions are tasks of their own, each with the scope
\* of its connection; a signal not yet looked at is dropped with its listener.
LoseTransport(p) ==
  /\ Goes(p, "serving", "backoff")
  /\ endpoint' = NoProcess
  /\ exec_port' = NoProcess
  /\ signalled' = signalled \ {p}
  /\ scope' = [scope EXCEPT ![p] = NoScope]
  /\ \E s \in {scope[p], NoScope} : late_scope' = [late_scope EXCEPT ![p] = s]
  /\ UNCHANGED <<handled, pid_file, fileVars, commandVars>>

Retry(p) ==
  /\ Goes(p, "backoff", "connecting")
  /\ UNCHANGED <<handled, signalled, scopeVars, runtimeVars, fileVars, commandVars>>

\* The select! sees the signal: serve stops the agent's ssh and returns.
ReceiveSignal(p) ==
  /\ p \in signalled
  /\ Goes(p, "serving", "exiting")
  /\ endpoint' = NoProcess
  /\ exec_port' = NoProcess
  /\ signalled' = signalled \ {p}
  /\ UNCHANGED <<handled, scopeVars, pid_file, fileVars, commandVars>>

Exit(p) ==
  /\ phase[p] = "exiting"
  /\ Ends(p)
  /\ UNCHANGED <<endpoint, pid_file, fileVars, commandVars>>

\* The process is killed or aborts at any point: no guard runs.
Crash(p) ==
  /\ Running(p)
  /\ Ends(p)
  /\ UNCHANGED <<endpoint, pid_file, fileVars, commandVars>>

\* record_owned_thread in a session whose connection loaded scope s: the
\* thread joins the copy, and the copy replaces the file unless saving fails.
Record(s, t) ==
  /\ s.enabled
  /\ t \notin recorded \cup s.thread_ids
  /\ \/ scope_file' = [s EXCEPT !.thread_ids = @ \cup {t}] /\ recorded' = recorded \cup {t}
     \/ UNCHANGED <<scope_file, recorded>>
  /\ UNCHANGED <<bridgeVars, runtimeVars, commandVars, chosen>>

StartThread(p, t) ==
  /\ phase[p] \in {"serving", "exiting"} /\ scope[p] # NoScope
  /\ Record(scope[p], t)
  /\ scope' = [scope EXCEPT ![p].thread_ids = @ \cup {t}]
  /\ settled' = IF late_scope[p] = NoScope THEN settled \cup (recorded' \ recorded) ELSE settled
  /\ UNCHANGED <<late_scope, late>>

StartThreadLate(p, t) ==
  /\ late_scope[p] # NoScope
  /\ Record(late_scope[p], t)
  /\ late_scope' = [late_scope EXCEPT ![p].thread_ids = @ \cup {t}]
  /\ late' = TRUE
  /\ UNCHANGED <<scope, settled>>

EndLateSession(p) ==
  /\ late_scope[p] # NoScope
  /\ late_scope' = [late_scope EXCEPT ![p] = NoScope]
  /\ UNCHANGED <<bridgeVars, scope, runtimeVars, fileVars, commandVars>>

-----------------------------------------------------------------------------
(* Commands *)

\* The command ends, its locals with it; a child that has exited is reaped.
Finish(result) ==
  /\ at' = "idle"
  /\ said' = result
  /\ target' = NoProcess
  /\ restart' = FALSE
  /\ loaded' = NoScope
  /\ child' = NoProcess
  /\ phase' = [p \in Bridges |-> IF phase[p] = "zombie" THEN "gone" ELSE phase[p]]

GoesOn(step) ==
  /\ at' = step
  /\ UNCHANGED <<phase, said, target, restart, loaded, child>>

Begin(c, step) ==
  /\ at = "idle"
  /\ command' = c
  /\ at' = step
  /\ said' = "nothing"

Up ==
  /\ Begin("up", "check")
  /\ UNCHANGED <<bridgeVars, scopeVars, runtimeVars, fileVars, target, restart, loaded, child>>

Down ==
  /\ Begin("down", "stop")
  /\ UNCHANGED <<bridgeVars, scopeVars, runtimeVars, fileVars, target, restart, loaded, child>>

\* Defect: the scope is edited under a running bridge.
SessionScope_WithoutStop ==
  /\ Begin("session-scope", "load")
  /\ restart' = FALSE
  /\ UNCHANGED <<bridgeVars, scopeVars, runtimeVars, fileVars, target, loaded, child>>

SessionScope ==
  /\ Begin("session-scope", IF Running(pid_file) THEN "stop" ELSE "load")
  /\ restart' = Running(pid_file)
  /\ UNCHANGED <<bridgeVars, scopeVars, runtimeVars, fileVars, target, loaded, child>>

\* Defects: a bridge without its endpoint counts as stopped; the stale socket
\* is kept; the runtime files are cleared before the bridge is looked for.
UpCheck_NeedsEndpoint ==
  /\ at = "check"
  /\ IF Running(pid_file) /\ endpoint # NoProcess
     THEN Finish("running") /\ UNCHANGED <<endpoint, pid_file>>
     ELSE GoesOn("spawn") /\ pid_file' = NoProcess /\ endpoint' = NoProcess
  /\ UNCHANGED <<handled, signalled, scopeVars, exec_port, fileVars, command>>

UpCheck_KeepsSocket ==
  /\ at = "check"
  /\ IF Running(pid_file)
     THEN Finish("running") /\ UNCHANGED pid_file
     ELSE GoesOn("spawn") /\ pid_file' = NoProcess
  /\ UNCHANGED <<handled, signalled, scopeVars, endpoint, exec_port, fileVars, command>>

UpCheck_ClearsFirst ==
  /\ at = "check"
  /\ endpoint' = NoProcess
  /\ IF Running(pid_file)
     THEN Finish("running") /\ UNCHANGED pid_file
     ELSE GoesOn("spawn") /\ pid_file' = NoProcess
  /\ UNCHANGED <<handled, signalled, scopeVars, exec_port, fileVars, command>>

\* up: a running bridge is left alone, connected or not; what one left behind
\* is cleared (clear_stale_runtime).
UpCheck ==
  /\ at = "check"
  /\ IF Running(pid_file)
     THEN Finish("running") /\ UNCHANGED <<endpoint, pid_file>>
     ELSE GoesOn("spawn") /\ pid_file' = NoProcess /\ endpoint' = NoProcess
  /\ UNCHANGED <<handled, signalled, scopeVars, exec_port, fileVars, command>>

\* The profile is not installed, or for another Codex version.
UpRefused ==
  /\ at = "check"
  /\ Finish("failed")
  /\ UNCHANGED <<handled, signalled, scopeVars, runtimeVars, fileVars, command>>

Spawn(p) ==
  /\ at = "spawn"
  /\ phase[p] = "unborn"
  /\ \A q \in 1..(p - 1) : phase[q] # "unborn"
  /\ phase' = [phase EXCEPT ![p] = "starting"]
  /\ child' = p
  /\ at' = "write_pid"
  /\ UNCHANGED <<handled, signalled, scopeVars, runtimeVars, fileVars, command, target, restart, loaded, said>>

WritePid ==
  /\ at = "write_pid"
  /\ pid_file' = child
  /\ at' = "wait"
  /\ UNCHANGED <<bridgeVars, scopeVars, endpoint, exec_port, fileVars, command, target, restart, loaded, child, said>>

\* pid_alive: signal 0 reaches a zombie.
PidAlive(p) == Running(p) \/ (p # NoProcess /\ phase[p] = "zombie")

\* up polls for five seconds.  Whether it sees the endpoint or gives up, it
\* reports a started bridge; a child that is gone makes it stop and fail.
UpWaits ==
  /\ at = "wait"
  /\ Finish(IF PidAlive(child) THEN "started" ELSE "failed")
  /\ pid_file' = IF PidAlive(child) THEN pid_file ELSE NoProcess
  /\ UNCHANGED <<handled, signalled, scopeVars, endpoint, exec_port, fileVars, command>>

AfterStop(result) == IF command = "down" THEN Finish(result) ELSE GoesOn("load")

NothingToStop ==
  /\ at = "stop"
  /\ pid_file = NoProcess
  /\ AfterStop("already stopped")
  /\ UNCHANGED <<handled, signalled, scopeVars, runtimeVars, fileVars, command>>

\* stop_bridge: SIGTERM to the bridge of the pid file.  Without a handler it
\* ends the process, with one it is seen only by a select! that is running.
StopBridge ==
  /\ at = "stop"
  /\ pid_file # NoProcess
  /\ target' = pid_file
  /\ IF ~Running(pid_file)
     THEN at' = "cleanup" /\ DoesNotEnd
     ELSE /\ at' = "await_exit"
          /\ IF pid_file \notin handled
             THEN Ends(pid_file)
             ELSE /\ signalled' = IF phase[pid_file] = "serving" THEN signalled \cup {pid_file} ELSE signalled
                  /\ UNCHANGED <<phase, handled, scopeVars, exec_port>>
  /\ UNCHANGED <<endpoint, pid_file, fileVars, command, restart, loaded, child, said>>

\* Defect: no SIGKILL when the grace period is over.
AwaitExit_NoKill ==
  /\ at = "await_exit"
  /\ at' = "cleanup"
  /\ UNCHANGED <<bridgeVars, scopeVars, runtimeVars, fileVars, command, target, restart, loaded, child, said>>

\* The bridge exits within three seconds or is killed.
AwaitExit ==
  /\ at = "await_exit"
  /\ at' = "cleanup"
  /\ IF Running(target) THEN Ends(target) ELSE DoesNotEnd
  /\ UNCHANGED <<endpoint, pid_file, fileVars, command, target, restart, loaded, child, said>>

\* The pid file goes, and the socket unless quiet.
Cleanup ==
  /\ at = "cleanup"
  /\ pid_file' = NoProcess
  /\ endpoint' = IF command = "down" THEN NoProcess ELSE endpoint
  /\ AfterStop("stopped")
  /\ UNCHANGED <<handled, signalled, scopeVars, exec_port, fileVars, command>>

LoadScope ==
  /\ at = "load"
  /\ loaded' = scope_file
  /\ at' = "save"
  /\ UNCHANGED <<bridgeVars, scopeVars, runtimeVars, fileVars, command, target, restart, child, said>>

\* The flag changes, the recorded threads stay; then up, if a bridge ran before.
SaveScope(enabled) ==
  /\ at = "save"
  /\ scope_file' = [loaded EXCEPT !.enabled = enabled]
  /\ chosen' = enabled
  /\ IF restart THEN GoesOn("check") ELSE Finish("nothing")
  /\ UNCHANGED <<handled, signalled, scopeVars, runtimeVars, recorded, settled, late, command>>

\* The user interrupts the command or it crashes, anywhere but between the
\* spawn and the pid file (see the README).
Abort ==
  /\ at \notin {"idle", "write_pid"}
  /\ Finish("failed")
  /\ UNCHANGED <<handled, signalled, scopeVars, runtimeVars, fileVars, command>>

BridgeStep(p) ==
  \/ Start(p)
  \/ Connect(p)
  \/ ConnectFails(p)
  \/ Prepare(p)
  \/ Bind(p)
  \/ BindExec(p)
  \/ BindExecFails(p)
  \/ LoseTransport(p)
  \/ Retry(p)
  \/ ReceiveSignal(p)
  \/ Exit(p)
  \/ Crash(p)
  \/ \E t \in Threads : StartThread(p, t) \/ StartThreadLate(p, t)
  \/ EndLateSession(p)

CommandStep ==
  \/ Up \/ Down \/ SessionScope
  \/ UpCheck \/ UpRefused \/ (\E p \in Bridges : Spawn(p)) \/ WritePid \/ UpWaits
  \/ NothingToStop \/ StopBridge \/ AwaitExit \/ Cleanup
  \/ LoadScope \/ \E enabled \in BOOLEAN : SaveScope(enabled)
  \/ Abort

Next == CommandStep \/ \E p \in Bridges : BridgeStep(p)

Spec == Init /\ [][Next]_vars

(* The runtime schedules every bridge; the remote host can be reached, and *)
(* the Exec port is free, again and again.                                 *)
FairSpec ==
  /\ Spec
  /\ \A p \in Bridges :
       /\ WF_vars(Start(p))
       /\ SF_vars(Connect(p))
       /\ WF_vars(Prepare(p))
       /\ WF_vars(Bind(p))
       /\ SF_vars(BindExec(p))
       /\ WF_vars(Retry(p))
       /\ WF_vars(Exit(p))

-----------------------------------------------------------------------------
(* Properties *)

\* No two bridges of the profile run at once, whatever the commands do and
\* wherever they stop: they would take the agent, the endpoint and the Exec
\* port from each other.
OneBridge == \A p, q \in Bridges : Running(p) /\ Running(q) => p = q

\* A command that says that the bridge is stopped, or was stopped already,
\* is right, even if the bridge lost its signal (down).
DownStops ==
  at = "idle" /\ said \in {"stopped", "already stopped"} => \A p \in Bridges : ~Running(p)

\* What status shows as a running and ready bridge, a bridge in the pid file
\* and a socket at the endpoint, is connected to the remote host: the socket
\* is never one that an earlier bridge left behind.
StatusHonest ==
  Running(pid_file) /\ endpoint # NoProcess => phase[pid_file] \in {"exec_binding", "serving"}

\* A bridge that serves can be reached: nobody takes its endpoint or its Exec
\* port away.
ServingReachable ==
  \A p \in Bridges : phase[p] = "serving" => endpoint = p /\ exec_port = p

\* Through reconnections, restarts and edits, although every connection saves
\* a copy of its own, the scope stays enabled or disabled as the user left it
\* and keeps every thread that was saved.  Where a session goes on recording
\* after its connection was lost, it and the new connection overwrite each
\* other's file: then only threads saved while both were there can be lost,
\* never one that was saved before.
ScopeKept ==
  /\ scope_file.enabled = chosen
  /\ settled \subseteq scope_file.thread_ids
  /\ late \/ recorded \subseteq scope_file.thread_ids

\* A bridge that runs serves in the end, or ends: no failure leaves it unable
\* to reconnect.
Reconnects ==
  \A p \in Bridges : phase[p] \in Alive ~> phase[p] = "serving" \/ phase[p] \notin Alive

(* The refinement of ProfileBridge. *)

Life(p) ==
  CASE phase[p] = "unborn" -> "unborn"
    [] phase[p] \in Alive -> "running"
    [] phase[p] \in {"zombie", "gone"} -> "ended"

Reachable(p) == phase[p] = "serving" /\ endpoint = p /\ exec_port = p

\* The copy of the connection lacks a thread that the file has.
Overtaken(p) == scope[p] # NoScope /\ ~(scope_file.thread_ids \subseteq scope[p].thread_ids)

Lives == [p \in Bridges |-> Life(p)]
Served == {p \in Bridges : Reachable(p)}
Busy == IF at = "idle" THEN "none" ELSE command
Leftover == \E p \in Bridges : late_scope[p] # NoScope
Stale == \E p \in Bridges : Overtaken(p)

Promise ==
  INSTANCE ProfileBridge WITH
    life <- Lives, serving <- Served,
    command <- Busy, ran <- restart, launched <- child # NoProcess,
    scope <- scope_file, leftover <- Leftover, stale <- Stale

\* Processes, signals, files and the steps of commands together do what
\* ProfileBridge promises: bridges one at a time, reports that are so, and a
\* scope that is read, changed and saved, through however many copies, as if at
\* once, unless a session recorded beside the connection that took its place.
ImplementsProfileBridge == Promise!Spec
=============================================================================
