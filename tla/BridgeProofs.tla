---------------------------- MODULE BridgeProofs ----------------------------
(***************************************************************************)
(* Theorems of Bridge for every number of processes and threads: at most   *)
(* one bridge of a profile runs, and down stops it (BridgeInv); one that   *)
(* serves keeps its endpoint and its port, and status is right             *)
(* (EndpointInv); the session scope is kept (ScopeInv).                    *)
(***************************************************************************)
EXTENDS Bridge, TLAPS

\* Where a running bridge is found: in the pid file or, before that is
\* written, with the command that spawned it.
Found ==
  \A p \in Bridges : phase[p] \in Alive => p = pid_file \/ (at = "write_pid" /\ p = child)

\* What a command knows at each of its steps.
CommandInv ==
  /\ at \in {"spawn", "write_pid"} => pid_file = NoProcess
  /\ at = "write_pid" => child \in Bridges
  /\ at = "wait" => child \in Bridges /\ pid_file = child
  /\ at = "await_exit" => target = pid_file
  /\ at = "cleanup" => ~Running(pid_file)

BridgeInv == TypeOK /\ Found /\ CommandInv /\ DownStops

-----------------------------------------------------------------------------
(* Types *)

LEMMA InitTypeOK == Init => TypeOK
  <1>1. [enabled |-> TRUE, thread_ids |-> {}] \in Scopes
    BY DEF Scopes
  <1>2. "unborn" \in Phases /\ "idle" \in Steps /\ "nothing" \in Results
    BY DEF Phases, Steps, Results
  <1>3. QED
    BY <1>1, <1>2 DEF Init, TypeOK, SomeBridge

\* A process that ends.
LEMMA EndsType ==
  ASSUME TypeOK, NEW p \in Bridges, Ends(p)
  PROVE  /\ phase' \in [Bridges -> Phases]
         /\ handled' \subseteq Bridges
         /\ signalled' \subseteq {q \in handled' : phase'[q] = "serving"}
         /\ scope' \in [Bridges -> Scopes \cup {NoScope}]
         /\ late_scope' \in [Bridges -> Scopes \cup {NoScope}]
         /\ exec_port' \in SomeBridge
  <1>1. Exited(p) \in Phases
    BY DEF Exited, Phases
  <1>2. phase' \in [Bridges -> Phases]
    BY <1>1 DEF Ends, TypeOK
  <1>3. \A q \in Bridges \ {p} : phase'[q] = phase[q]
    BY DEF Ends, TypeOK
  <1>4. signalled' \subseteq {q \in handled' : phase'[q] = "serving"}
    BY <1>3 DEF Ends, TypeOK
  <1>5. QED
    BY <1>2, <1>4 DEF Ends, TypeOK, SomeBridge

\* A bridge that moves on; unless it served, it has no signal pending.
LEMMA GoesType ==
  ASSUME TypeOK, NEW p \in Bridges, NEW from \in Phases, NEW to \in Phases, Goes(p, from, to)
  PROVE  /\ phase' \in [Bridges -> Phases]
         /\ phase'[p] = to
         /\ signalled \ {p} \subseteq {q \in handled : phase'[q] = "serving"}
         /\ from # "serving" => signalled \subseteq {q \in handled : phase'[q] = "serving"}
  BY DEF Goes, TypeOK

\* A step of a bridge.
LEMMA BridgeStepType ==
  ASSUME TypeOK, NEW p \in Bridges, BridgeStep(p)
  PROVE  TypeOK'
  <1>0. {"starting", "connecting", "preparing", "binding", "exec_binding", "serving", "exiting", "backoff"}
          \subseteq Phases
    BY DEF Phases, Alive
  <1> p \in SomeBridge /\ NoProcess \in SomeBridge
    BY DEF SomeBridge
  <1>1. CASE Start(p)
    <2>1. CASE Ends(p)
      BY <1>1, <2>1, EndsType DEF Start, TypeOK, fileVars, commandVars
    <2>2. CASE ~Ends(p)
      BY <1>0, <1>1, <2>2 DEF Start, TypeOK, scopeVars, fileVars, commandVars
    <2>3. QED
      BY <2>1, <2>2
  <1>2. CASE Connect(p)
    <2>1. Goes(p, "connecting", "preparing")
      BY <1>2 DEF Connect
    <2>2. QED
      BY <1>0, <1>2, <2>1, GoesType DEF Connect, TypeOK, runtimeVars, fileVars, commandVars
  <1>3. CASE ConnectFails(p)
    <2>1. Goes(p, "connecting", "backoff")
      BY <1>3 DEF ConnectFails
    <2>2. QED
      BY <1>0, <1>3, <2>1, GoesType DEF ConnectFails, TypeOK, scopeVars, runtimeVars, fileVars, commandVars
  <1>4. CASE Prepare(p)
    <2>1. Goes(p, "preparing", "binding")
      BY <1>4 DEF Prepare
    <2>2. QED
      BY <1>0, <1>4, <2>1, GoesType DEF Prepare, TypeOK, scopeVars, fileVars, commandVars
  <1>5. CASE Bind(p)
    <2>1. CASE endpoint = NoProcess
      <3>1. Goes(p, "binding", "exec_binding")
        BY <1>5, <2>1 DEF Bind
      <3>2. QED
        BY <1>0, <1>5, <2>1, <3>1, GoesType DEF Bind, TypeOK, fileVars, commandVars
    <2>2. CASE endpoint # NoProcess
      <3>1. Goes(p, "binding", "backoff")
        BY <1>5, <2>2 DEF Bind
      <3>2. QED
        BY <1>0, <1>5, <2>2, <3>1, GoesType DEF Bind, TypeOK, fileVars, commandVars
    <2>3. QED
      BY <2>1, <2>2
  <1>6. CASE BindExec(p)
    <2>1. Goes(p, "exec_binding", "serving")
      BY <1>6 DEF BindExec
    <2>2. QED
      BY <1>0, <1>6, <2>1, GoesType DEF BindExec, TypeOK, scopeVars, fileVars, commandVars
  <1>7. CASE BindExecFails(p)
    <2>1. Goes(p, "exec_binding", "backoff")
      BY <1>7 DEF BindExecFails
    <2>2. QED
      BY <1>0, <1>7, <2>1, GoesType DEF BindExecFails, TypeOK, fileVars, commandVars
  <1>8. CASE LoseTransport(p)
    <2>1. Goes(p, "serving", "backoff")
      BY <1>8 DEF LoseTransport
    <2>2. late_scope' \in [Bridges -> Scopes \cup {NoScope}]
      BY <1>8 DEF LoseTransport, TypeOK
    <2>3. scope' \in [Bridges -> Scopes \cup {NoScope}]
      BY <1>8 DEF LoseTransport, TypeOK
    <2>4. signalled' \subseteq {q \in handled' : phase'[q] = "serving"} /\ phase' \in [Bridges -> Phases]
      BY <1>0, <1>8, <2>1, GoesType DEF LoseTransport
    <2>5. QED
      BY <1>8, <2>2, <2>3, <2>4 DEF LoseTransport, TypeOK, fileVars, commandVars
  <1>9. CASE Retry(p)
    <2>1. Goes(p, "backoff", "connecting")
      BY <1>9 DEF Retry
    <2>2. QED
      BY <1>0, <1>9, <2>1, GoesType DEF Retry, TypeOK, scopeVars, runtimeVars, fileVars, commandVars
  <1>10. CASE ReceiveSignal(p)
    <2>1. Goes(p, "serving", "exiting")
      BY <1>10 DEF ReceiveSignal
    <2>2. QED
      BY <1>0, <1>10, <2>1, GoesType DEF ReceiveSignal, TypeOK, scopeVars, fileVars, commandVars
  <1>11. CASE Exit(p)
    BY <1>11, EndsType DEF Exit, TypeOK, fileVars, commandVars
  <1>12. CASE Crash(p)
    BY <1>12, EndsType DEF Crash, TypeOK, fileVars, commandVars
  <1>13. ASSUME NEW t \in Threads, StartThread(p, t) \/ StartThreadLate(p, t)
         PROVE  TypeOK'
    <2>1. ASSUME NEW s \in Scopes
          PROVE  [s EXCEPT !.thread_ids = @ \cup {t}] \in Scopes
      BY DEF Scopes
    <2>2. ASSUME NEW s \in Scopes, Record(s, t)
          PROVE  scope_file' \in Scopes /\ recorded' \subseteq Threads /\ recorded \subseteq recorded'
      BY <2>1, <2>2 DEF Record, TypeOK
    <2>3. ASSUME NEW s, Record(s, t)
          PROVE  UNCHANGED <<bridgeVars, runtimeVars, commandVars, chosen>>
      BY <2>3 DEF Record
    <2>4. CASE StartThread(p, t)
      <3>1. scope[p] \in Scopes /\ Record(scope[p], t)
        BY <2>4, NothingAssumption DEF TypeOK, StartThread
      <3>2. scope' = [scope EXCEPT ![p] = [scope[p] EXCEPT !.thread_ids = @ \cup {t}]]
        BY <2>4 DEF StartThread
      <3>3. scope' \in [Bridges -> Scopes \cup {NoScope}]
        BY <2>1, <3>1, <3>2 DEF TypeOK
      <3>4. settled' \subseteq recorded'
        BY <2>2, <2>4, <3>1 DEF StartThread, TypeOK
      <3>5. QED
        BY <2>2, <2>3, <2>4, <3>1, <3>3, <3>4 DEF StartThread, TypeOK, bridgeVars, runtimeVars, commandVars
    <2>5. CASE StartThreadLate(p, t)
      <3>1. late_scope[p] \in Scopes /\ Record(late_scope[p], t)
        BY <2>5 DEF TypeOK, StartThreadLate
      <3>2. late_scope' = [late_scope EXCEPT ![p] = [late_scope[p] EXCEPT !.thread_ids = @ \cup {t}]]
        BY <2>5 DEF StartThreadLate
      <3>3. late_scope' \in [Bridges -> Scopes \cup {NoScope}]
        BY <2>1, <3>1, <3>2 DEF TypeOK
      <3>4. settled' \subseteq recorded'
        BY <2>2, <2>5, <3>1 DEF StartThreadLate, TypeOK
      <3>5. QED
        BY <2>2, <2>3, <2>5, <3>1, <3>3, <3>4 DEF StartThreadLate, TypeOK, bridgeVars, runtimeVars, commandVars
    <2>6. QED
      BY <1>13, <2>4, <2>5
  <1>14. CASE EndLateSession(p)
    BY <1>14 DEF EndLateSession, TypeOK, bridgeVars, runtimeVars, fileVars, commandVars
  <1>15. QED
    BY <1>1, <1>2, <1>3, <1>4, <1>5, <1>6, <1>7, <1>8, <1>9, <1>10, <1>11, <1>12, <1>13, <1>14 DEF BridgeStep

\* The end of a command reaps zombies and changes no other process.
LEMMA FinishType ==
  ASSUME TypeOK, NEW result \in Results, Finish(result)
  PROVE  /\ phase' \in [Bridges -> Phases]
         /\ signalled \subseteq {q \in handled : phase'[q] = "serving"}
         /\ \A q \in Bridges : phase'[q] \in Alive <=> phase[q] \in Alive
         /\ at' = "idle" /\ at' \in Steps
         /\ said' = result /\ said' \in Results
         /\ target' \in SomeBridge /\ child' \in SomeBridge
         /\ restart' \in BOOLEAN
         /\ loaded' \in Scopes \cup {NoScope}
  BY DEF Finish, TypeOK, Phases, Alive, Steps, SomeBridge

\* A command that goes on to its next step.
LEMMA GoesOnType ==
  ASSUME TypeOK, NEW step \in Steps, GoesOn(step)
  PROVE  /\ phase' = phase /\ phase' \in [Bridges -> Phases]
         /\ signalled \subseteq {q \in handled : phase'[q] = "serving"}
         /\ at' = step /\ at' \in Steps
         /\ said' = said /\ said' \in Results
         /\ target' \in SomeBridge /\ child' \in SomeBridge /\ target' = target /\ child' = child
         /\ restart' \in BOOLEAN
         /\ loaded' \in Scopes \cup {NoScope}
  BY DEF GoesOn, TypeOK

\* A step of a command.
LEMMA CommandStepType ==
  ASSUME TypeOK, CommandStep
  PROVE  TypeOK'
  <1> NoProcess \in SomeBridge /\ \A p \in Bridges : p \in SomeBridge
    BY DEF SomeBridge
  <1>s. {"idle", "check", "spawn", "write_pid", "wait", "stop", "await_exit", "cleanup", "load", "save"}
          \subseteq Steps
    BY DEF Steps
  <1>r. {"nothing", "started", "running", "stopped", "already stopped", "failed"} \subseteq Results
    BY DEF Results
  <1>1. CASE Up \/ Down \/ SessionScope
    <2>1. at' \in Steps /\ at' # "save" /\ said' \in Results /\ command' \in {"up", "down", "session-scope"} /\ restart' \in BOOLEAN
      BY <1>1, <1>s, <1>r DEF Up, Down, SessionScope, Begin, Running, TypeOK
    <2>2. UNCHANGED <<bridgeVars, scopeVars, runtimeVars, fileVars, target, loaded, child>>
      BY <1>1 DEF Up, Down, SessionScope
    <2>3. QED
      BY <2>1, <2>2 DEF TypeOK, bridgeVars, scopeVars, runtimeVars, fileVars
  <1>2. CASE UpCheck
    <2>1. CASE Running(pid_file)
      <3>1. Finish("running")
        BY <1>2, <2>1 DEF UpCheck
      <3>2. QED
        BY <1>2, <2>1, <3>1, <1>r, FinishType DEF UpCheck, TypeOK, scopeVars, fileVars
    <2>2. CASE ~Running(pid_file)
      <3>1. GoesOn("spawn")
        BY <1>2, <2>2 DEF UpCheck
      <3>2. QED
        BY <1>2, <2>2, <3>1, <1>s, GoesOnType DEF UpCheck, TypeOK, scopeVars, fileVars
    <2>3. QED
      BY <2>1, <2>2
  <1>3. CASE UpRefused
    BY <1>3, <1>r, FinishType DEF UpRefused, TypeOK, scopeVars, runtimeVars, fileVars
  <1>4. ASSUME NEW p \in Bridges, Spawn(p)
        PROVE  TypeOK'
    <2>1. phase' \in [Bridges -> Phases] /\ signalled \subseteq {q \in handled : phase'[q] = "serving"}
      BY <1>4 DEF Spawn, TypeOK, Phases, Alive
    <2>2. QED
      BY <1>4, <1>s, <2>1 DEF Spawn, TypeOK, scopeVars, runtimeVars, fileVars
  <1>5. CASE WritePid
    BY <1>5, <1>s DEF WritePid, TypeOK, bridgeVars, scopeVars, fileVars
  <1>6. CASE UpWaits
    <2>1. \E result \in Results : Finish(result)
      BY <1>6, <1>r DEF UpWaits
    <2>2. QED
      BY <1>6, <2>1, FinishType DEF UpWaits, TypeOK, scopeVars, fileVars
  <1>7. CASE NothingToStop
    <2>1. (\E result \in Results : Finish(result)) \/ GoesOn("load")
      BY <1>7, <1>r DEF NothingToStop, AfterStop
    <2>2. QED
      BY <1>7, <1>s, <2>1, FinishType, GoesOnType DEF NothingToStop, TypeOK, scopeVars, runtimeVars, fileVars
  <1>8. CASE StopBridge
    <2>1. CASE ~Running(pid_file)
      BY <1>8, <1>s, <2>1 DEF StopBridge, DoesNotEnd, TypeOK, bridgeVars, scopeVars, fileVars
    <2>2. CASE Running(pid_file) /\ pid_file \notin handled
      <3>1. pid_file \in Bridges /\ Ends(pid_file)
        BY <1>8, <2>2 DEF StopBridge, Running, TypeOK, SomeBridge
      <3>2. QED
        BY <1>8, <1>s, <2>2, <3>1, EndsType DEF StopBridge, TypeOK, fileVars
    <2>3. CASE Running(pid_file) /\ pid_file \in handled
      BY <1>8, <1>s, <2>3 DEF StopBridge, TypeOK, scopeVars, fileVars
    <2>4. QED
      BY <2>1, <2>2, <2>3
  <1>9. CASE AwaitExit
    <2>1. CASE Running(target)
      <3>1. target \in Bridges /\ Ends(target)
        BY <1>9, <2>1 DEF AwaitExit, Running, TypeOK, SomeBridge
      <3>2. QED
        BY <1>9, <1>s, <3>1, EndsType DEF AwaitExit, TypeOK, fileVars
    <2>2. CASE ~Running(target)
      BY <1>9, <1>s, <2>2 DEF AwaitExit, DoesNotEnd, TypeOK, bridgeVars, scopeVars, fileVars
    <2>3. QED
      BY <2>1, <2>2
  <1>10. CASE Cleanup
    <2>1. (\E result \in Results : Finish(result)) \/ GoesOn("load")
      BY <1>10, <1>r DEF Cleanup, AfterStop
    <2>2. QED
      BY <1>10, <1>s, <2>1, FinishType, GoesOnType DEF Cleanup, TypeOK, scopeVars, fileVars
  <1>11. CASE LoadScope
    BY <1>11, <1>s DEF LoadScope, TypeOK, bridgeVars, scopeVars, runtimeVars, fileVars
  <1>12. ASSUME NEW enabled \in BOOLEAN, SaveScope(enabled)
         PROVE  TypeOK'
    <2>1. (\E result \in Results : Finish(result)) \/ GoesOn("check")
      BY <1>12, <1>r DEF SaveScope
    <2>2. scope_file' \in Scopes
      BY <1>12 DEF SaveScope, TypeOK, Scopes
    <2>3. QED
      BY <1>12, <1>s, <2>1, <2>2, FinishType, GoesOnType DEF SaveScope, TypeOK, scopeVars, runtimeVars
  <1>13. CASE Abort
    BY <1>13, <1>r, FinishType DEF Abort, TypeOK, scopeVars, runtimeVars, fileVars
  <1>14. QED
    BY <1>1, <1>2, <1>3, <1>4, <1>5, <1>6, <1>7, <1>8, <1>9, <1>10, <1>11, <1>12, <1>13 DEF CommandStep

\* Every state has the types TypeOK gives, signals and loaded scopes included.
THEOREM BridgeTypeOK == Spec => []TypeOK
  <1>1. TypeOK /\ UNCHANGED vars => TypeOK'
    BY DEF TypeOK, vars, bridgeVars, scopeVars, runtimeVars, fileVars, commandVars
  <1>2. TypeOK /\ [Next]_vars => TypeOK'
    BY <1>1, BridgeStepType, CommandStepType DEF Next
  <1>3. QED
    BY <1>2, InitTypeOK, PTL DEF Spec

-----------------------------------------------------------------------------
(* The invariant *)

\* What a bridge leaves alone: it starts no process, writes no pid file and
\* is no part of a command.
LEMMA BridgeStepFrame ==
  ASSUME TypeOK, NEW p \in Bridges, BridgeStep(p)
  PROVE  /\ UNCHANGED <<pid_file, commandVars>>
         /\ \A q \in Bridges : phase'[q] \in Alive => phase[q] \in Alive
  <1>1. ASSUME Ends(p)
        PROVE  \A q \in Bridges : phase'[q] \in Alive => phase[q] \in Alive
    BY <1>1 DEF Ends, Exited, Alive, TypeOK
  <1>2. ASSUME NEW from \in Alive, NEW to, Goes(p, from, to)
        PROVE  \A q \in Bridges : phase'[q] \in Alive => phase[q] \in Alive
    BY <1>2 DEF Goes, TypeOK
  <1>3. {"starting", "connecting", "preparing", "binding", "exec_binding", "serving", "exiting", "backoff"}
          \subseteq Alive
    BY DEF Alive
  <1>4. UNCHANGED <<pid_file, commandVars>>
    BY DEF BridgeStep, Start, Connect, ConnectFails, Prepare, Bind, BindExec, BindExecFails, LoseTransport, Retry,
           ReceiveSignal, Exit, Crash, StartThread, StartThreadLate, EndLateSession, Record, runtimeVars
  <1>5. ASSUME Goes(p, "connecting", "preparing") \/ Goes(p, "connecting", "backoff")
               \/ Goes(p, "preparing", "binding") \/ Goes(p, "binding", "exec_binding")
               \/ Goes(p, "binding", "backoff") \/ Goes(p, "exec_binding", "serving")
               \/ Goes(p, "exec_binding", "backoff") \/ Goes(p, "serving", "backoff")
               \/ Goes(p, "backoff", "connecting") \/ Goes(p, "serving", "exiting")
        PROVE  \A q \in Bridges : phase'[q] \in Alive => phase[q] \in Alive
    BY <1>2, <1>3, <1>5
  <1>6. CASE Start(p)
    BY <1>1, <1>3, <1>4, <1>6 DEF Start, TypeOK
  <1>7. CASE Exit(p) \/ Crash(p)
    BY <1>1, <1>4, <1>7 DEF Exit, Crash
  <1>8. CASE Connect(p) \/ ConnectFails(p) \/ Prepare(p) \/ Bind(p) \/ BindExec(p)
    BY <1>4, <1>5, <1>8 DEF Connect, ConnectFails, Prepare, Bind, BindExec
  <1>9. CASE BindExecFails(p) \/ LoseTransport(p) \/ Retry(p) \/ ReceiveSignal(p)
    BY <1>4, <1>5, <1>9 DEF BindExecFails, LoseTransport, Retry, ReceiveSignal
  <1>10. CASE (\E t \in Threads : StartThread(p, t) \/ StartThreadLate(p, t)) \/ EndLateSession(p)
    <2>1. phase' = phase
      BY <1>10 DEF StartThread, StartThreadLate, EndLateSession, Record, bridgeVars
    <2>2. QED
      BY <1>4, <2>1
  <1>11. QED
    BY <1>6, <1>7, <1>8, <1>9, <1>10 DEF BridgeStep

\* A bridge that ends.
LEMMA EndsAlive ==
  ASSUME TypeOK, NEW p \in Bridges, Ends(p)
  PROVE  phase'[p] \notin Alive /\ \A q \in Bridges : phase'[q] \in Alive => phase[q] \in Alive
  BY DEF Ends, Exited, Alive, TypeOK

\* A step of a command keeps the invariant.
LEMMA CommandStepInv ==
  ASSUME BridgeInv, CommandStep
  PROVE  BridgeInv'
  <1> USE DEF BridgeInv
  <1> NoProcess \notin Bridges
    BY NothingAssumption
  <1>t. TypeOK'
    BY CommandStepType
  <1>r. {"nothing", "started", "running", "stopped", "already stopped", "failed"} \subseteq Results
    BY DEF Results
  <1>s. {"idle", "check", "spawn", "load"} \subseteq Steps
    BY DEF Steps
  <1>1. CASE Up \/ Down \/ SessionScope
    <2>1. at' \in {"check", "stop", "load"} /\ at = "idle" /\ UNCHANGED <<phase, pid_file>>
      BY <1>1 DEF Up, Down, SessionScope, Begin, bridgeVars, runtimeVars
    <2>2. QED
      BY <1>t, <2>1 DEF Found, CommandInv, DownStops
  <1>2. CASE UpCheck
    <2>1. CASE Running(pid_file)
      <3>1. Finish("running") /\ pid_file' = pid_file
        BY <1>2, <2>1 DEF UpCheck
      <3>2. QED
        BY <1>2, <1>t, <1>r, <3>1, FinishType DEF UpCheck, Found, CommandInv, DownStops
    <2>2. CASE ~Running(pid_file)
      <3>1. GoesOn("spawn") /\ pid_file' = NoProcess
        BY <1>2, <2>2 DEF UpCheck
      <3>2. \A q \in Bridges : phase[q] \notin Alive
        BY <1>2, <2>2 DEF UpCheck, Found, Running
      <3>3. QED
        BY <1>t, <1>s, <3>1, <3>2, GoesOnType DEF Found, CommandInv, DownStops
    <2>3. QED
      BY <2>1, <2>2
  <1>3. CASE UpRefused
    BY <1>3, <1>t, <1>r, FinishType DEF UpRefused, Found, CommandInv, DownStops, runtimeVars
  <1>4. ASSUME NEW p \in Bridges, Spawn(p)
        PROVE  BridgeInv'
    <2>1. \A q \in Bridges : phase[q] \notin Alive
      BY <1>4 DEF Spawn, Found, CommandInv
    <2>2. \A q \in Bridges : phase'[q] \in Alive => q = p
      BY <1>4, <2>1 DEF Spawn, TypeOK
    <2>3. at' = "write_pid" /\ child' = p /\ pid_file' = NoProcess
      BY <1>4 DEF Spawn, CommandInv, runtimeVars
    <2>4. QED
      BY <1>t, <2>2, <2>3 DEF Found, CommandInv, DownStops
  <1>5. CASE WritePid
    <2>1. at' = "wait" /\ pid_file' = child /\ child' = child /\ child \in Bridges /\ phase' = phase
      BY <1>5 DEF WritePid, CommandInv, bridgeVars
    <2>2. \A q \in Bridges : phase[q] \in Alive => q = child
      BY <1>5 DEF WritePid, Found, CommandInv
    <2>3. QED
      BY <1>t, <2>1, <2>2 DEF Found, CommandInv, DownStops
  <1>6. CASE UpWaits
    <2>1. \E result \in {"started", "failed"} : Finish(result)
      BY <1>6 DEF UpWaits
    <2>2. \A q \in Bridges : phase[q] \in Alive => q = pid_file'
      BY <1>6 DEF UpWaits, Found, CommandInv, PidAlive, Running
    <2>3. QED
      BY <1>t, <1>r, <2>1, <2>2, FinishType DEF Found, CommandInv, DownStops
  <1>7. CASE NothingToStop
    <2>1. \A q \in Bridges : phase[q] \notin Alive
      BY <1>7 DEF NothingToStop, Found
    <2>2. Finish("already stopped") \/ GoesOn("load")
      BY <1>7 DEF NothingToStop, AfterStop
    <2>3. \A q \in Bridges : phase'[q] \notin Alive
      BY <1>r, <1>s, <2>1, <2>2, FinishType, GoesOnType
    <2>4. at' \in {"idle", "load"}
      BY <1>r, <1>s, <2>2, FinishType, GoesOnType
    <2>5. QED
      BY <1>t, <2>3, <2>4 DEF Found, CommandInv, DownStops, Running
  <1>8. CASE StopBridge
    <2>1. at = "stop" /\ pid_file' = pid_file /\ target' = pid_file
      BY <1>8 DEF StopBridge
    <2>2. CASE ~Running(pid_file)
      BY <1>8, <1>t, <2>1, <2>2 DEF StopBridge, DoesNotEnd, bridgeVars, Found, CommandInv, DownStops, Running
    <2>3. CASE Running(pid_file)
      <3>1. at' = "await_exit"
        BY <1>8, <2>3 DEF StopBridge
      <3>2. pid_file \in Bridges
        BY <2>3 DEF Running, TypeOK, SomeBridge
      <3>3. \A q \in Bridges : phase'[q] \in Alive => phase[q] \in Alive
        BY <1>8, <2>3, <3>2, EndsAlive DEF StopBridge
      <3>4. QED
        BY <1>t, <2>1, <3>1, <3>3 DEF Found, CommandInv, DownStops
    <2>4. QED
      BY <2>2, <2>3
  <1>9. CASE AwaitExit
    <2>1. at' = "cleanup" /\ pid_file' = pid_file /\ at = "await_exit" /\ target = pid_file
      BY <1>9 DEF AwaitExit, CommandInv
    <2>2. CASE Running(target)
      <3>1. target \in Bridges /\ Ends(target)
        BY <1>9, <2>2 DEF AwaitExit, Running, TypeOK, SomeBridge
      <3>2. phase'[target] \notin Alive /\ \A q \in Bridges : phase'[q] \in Alive => phase[q] \in Alive
        BY <3>1, EndsAlive
      <3>3. QED
        BY <1>t, <2>1, <3>2 DEF Found, CommandInv, DownStops, Running
    <2>3. CASE ~Running(target)
      BY <1>9, <1>t, <2>1, <2>3 DEF AwaitExit, DoesNotEnd, bridgeVars, Found, CommandInv, DownStops, Running
    <2>4. QED
      BY <2>2, <2>3
  <1>10. CASE Cleanup
    <2>1. \A q \in Bridges : phase[q] \notin Alive
      BY <1>10 DEF Cleanup, Found, CommandInv, Running
    <2>2. Finish("stopped") \/ GoesOn("load")
      BY <1>10 DEF Cleanup, AfterStop
    <2>3. \A q \in Bridges : phase'[q] \notin Alive
      BY <1>r, <1>s, <2>1, <2>2, FinishType, GoesOnType
    <2>4. at' \in {"idle", "load"}
      BY <1>r, <1>s, <2>2, FinishType, GoesOnType
    <2>5. QED
      BY <1>t, <2>3, <2>4 DEF Found, CommandInv, DownStops, Running
  <1>11. CASE LoadScope
    BY <1>11, <1>t DEF LoadScope, Found, CommandInv, DownStops, bridgeVars, runtimeVars
  <1>12. ASSUME NEW enabled \in BOOLEAN, SaveScope(enabled)
         PROVE  BridgeInv'
    <2>1. at = "save" /\ pid_file' = pid_file
      BY <1>12 DEF SaveScope, runtimeVars
    <2>2. Finish("nothing") \/ GoesOn("check")
      BY <1>12 DEF SaveScope
    <2>3. QED
      BY <1>t, <1>r, <1>s, <2>1, <2>2, FinishType, GoesOnType DEF Found, CommandInv, DownStops
  <1>13. CASE Abort
    BY <1>13, <1>t, <1>r, FinishType DEF Abort, Found, CommandInv, DownStops, runtimeVars
  <1>14. QED
    BY <1>1, <1>2, <1>3, <1>4, <1>5, <1>6, <1>7, <1>8, <1>9, <1>10, <1>11, <1>12, <1>13 DEF CommandStep

\* The invariant holds in every state: a bridge that runs is found in the pid
\* file or held by the command that spawned it.
THEOREM BridgeInvariant == Spec => []BridgeInv
  <1>1. Init => BridgeInv
    <2> SUFFICES ASSUME Init PROVE BridgeInv
      OBVIOUS
    <2>1. TypeOK
      BY InitTypeOK
    <2>2. QED
      BY <2>1 DEF Init, BridgeInv, Found, CommandInv, DownStops, Alive
  <1>2. ASSUME BridgeInv, NEW p \in Bridges, BridgeStep(p)
        PROVE  BridgeInv'
    <2>1. TypeOK'
      BY <1>2, BridgeStepType DEF BridgeInv
    <2>2. UNCHANGED <<pid_file, commandVars>> /\ \A q \in Bridges : phase'[q] \in Alive => phase[q] \in Alive
      BY <1>2, BridgeStepFrame DEF BridgeInv
    <2>3. pid_file' \in Bridges \cup {NoProcess}
      BY <2>1 DEF TypeOK, SomeBridge
    <2>4. QED
      BY <1>2, <2>1, <2>2, <2>3 DEF BridgeInv, Found, CommandInv, DownStops, Running, commandVars
  <1>3. BridgeInv /\ UNCHANGED vars => BridgeInv'
    <2> SUFFICES ASSUME BridgeInv, UNCHANGED vars PROVE BridgeInv'
      OBVIOUS
    <2>1. TypeOK'
      BY DEF BridgeInv, TypeOK, vars, bridgeVars, scopeVars, runtimeVars, fileVars, commandVars
    <2>2. Found' /\ CommandInv' /\ DownStops'
      BY DEF BridgeInv, Found, CommandInv, DownStops, Running, vars, bridgeVars, runtimeVars, fileVars, commandVars
    <2>3. QED
      BY <2>1, <2>2 DEF BridgeInv
  <1>4. BridgeInv /\ [Next]_vars => BridgeInv'
    BY <1>2, <1>3, CommandStepInv DEF Next
  <1>5. QED
    BY <1>1, <1>4, PTL DEF Spec

\* At most one bridge of the profile runs, for any number of commands,
\* crashes and aborted commands (up, down, session_scope).
THEOREM BridgeOneBridge == Spec => []OneBridge
  <1>1. BridgeInv => OneBridge
    BY NothingAssumption DEF BridgeInv, Found, CommandInv, OneBridge, Running
  <1>2. QED
    BY <1>1, BridgeInvariant, PTL

\* When down says that the bridge is stopped, no bridge of the profile runs.
THEOREM BridgeDownStops == Spec => []DownStops
  <1>1. BridgeInv => DownStops
    BY DEF BridgeInv
  <1>2. QED
    BY <1>1, BridgeInvariant, PTL
-----------------------------------------------------------------------------
(* The endpoint and the Exec port *)

\* A bridge that has bound the endpoint has it still, and nothing is there
\* before the one that runs has bound it.
EndpointInv ==
  /\ at = "spawn" => endpoint = NoProcess
  /\ \A p \in Bridges :
       /\ phase[p] \in {"exec_binding", "serving"} => endpoint = p
       /\ phase[p] = "serving" => exec_port = p
       /\ phase[p] \in Alive \ {"exec_binding", "serving"} => endpoint = NoProcess

\* Each copy of the scope says what the user chose and has every thread that was
\* saved while no session of an earlier connection was left; the connection's
\* has every thread that was saved unless such a session recorded one.  Only a
\* running bridge has a copy.
ScopeInv ==
  /\ at \in {"load", "save"} => \A p \in Bridges : phase[p] \notin Alive
  /\ at = "save" => loaded = scope_file
  /\ \A p \in Bridges :
       /\ phase[p] \notin Alive => scope[p] = NoScope /\ late_scope[p] = NoScope
       /\ scope[p] # NoScope => scope[p].enabled = chosen /\ settled \subseteq scope[p].thread_ids
       /\ scope[p] # NoScope => late \/ recorded \subseteq scope[p].thread_ids
       /\ late_scope[p] # NoScope => late_scope[p].enabled = chosen /\ settled \subseteq late_scope[p].thread_ids
  /\ ScopeKept

\* While a bridge runs, every other one has ended.
LEMMA OthersEnded ==
  ASSUME BridgeInv, NEW p \in Bridges, phase[p] \in Alive
  PROVE  at # "spawn" /\ \A q \in Bridges \ {p} : phase[q] \notin Alive
  BY NothingAssumption DEF BridgeInv, Found, CommandInv

\* No bridge runs after the step.
LEMMA EndpointNone ==
  ASSUME \A q \in Bridges : phase'[q] \notin Alive, at' = "spawn" => endpoint' = NoProcess
  PROVE  EndpointInv'
  BY DEF EndpointInv, Alive

\* A step that leaves the endpoint alone and moves no bridge on.
LEMMA EndpointSame ==
  ASSUME EndpointInv, UNCHANGED <<endpoint, exec_port>>, at' = "spawn" => at = "spawn",
         \A q \in Bridges : phase'[q] \in Alive => phase'[q] = phase[q]
  PROVE  EndpointInv'
  BY DEF EndpointInv, Alive

\* The bridge that runs moves on.
LEMMA EndpointMoves ==
  ASSUME BridgeInv, NEW p \in Bridges, phase[p] \in Alive, at' = at,
         \A q \in Bridges \ {p} : phase'[q] = phase[q],
         phase'[p] \in {"exec_binding", "serving"} => endpoint' = p,
         phase'[p] = "serving" => exec_port' = p,
         phase'[p] \in Alive \ {"exec_binding", "serving"} => endpoint' = NoProcess
  PROVE  EndpointInv'
  <1>1. at' # "spawn" /\ \A q \in Bridges \ {p} : phase'[q] \notin Alive
    BY OthersEnded
  <1>2. QED
    BY <1>1 DEF EndpointInv, Alive

\* The bridge that runs ends.
LEMMA EndpointEnds ==
  ASSUME BridgeInv, NEW p \in Bridges, phase[p] \in Alive, Ends(p), at' # "spawn"
  PROVE  EndpointInv'
  <1>1. \A q \in Bridges : phase'[q] \notin Alive
    BY OthersEnded, EndsAlive DEF BridgeInv
  <1>2. QED
    BY <1>1, EndpointNone

\* A step of a bridge.
LEMMA BridgeStepEndpoint ==
  ASSUME BridgeInv, EndpointInv, NEW p \in Bridges, BridgeStep(p)
  PROVE  EndpointInv'
  <1>1. phase \in [Bridges -> Phases] /\ at' = at
    BY BridgeStepFrame DEF BridgeInv, TypeOK, commandVars
  <1>2. {"starting", "connecting", "preparing", "binding", "exec_binding", "serving", "exiting", "backoff"} = Alive
    BY DEF Alive
  <1>3. ASSUME Ends(p), phase[p] \in Alive
        PROVE  EndpointInv'
    BY <1>1, <1>3, EndpointEnds, OthersEnded
  <1>4. CASE Start(p)
    <2>1. phase[p] = "starting" /\ endpoint' = endpoint
      BY <1>4 DEF Start
    <2>2. CASE Ends(p)
      BY <1>2, <1>3, <2>1, <2>2
    <2>3. CASE ~Ends(p)
      <3>1. phase' = [phase EXCEPT ![p] = "connecting"]
        BY <1>4, <2>3 DEF Start
      <3>2. QED
        BY <1>1, <1>2, <2>1, <3>1, EndpointMoves DEF EndpointInv
    <2>4. QED
      BY <2>2, <2>3
  <1>5. CASE Exit(p) \/ Crash(p)
    BY <1>2, <1>3, <1>5 DEF Exit, Crash, Running
  <1>6. CASE Connect(p) \/ ConnectFails(p) \/ Retry(p)
    BY <1>1, <1>2, <1>6, EndpointMoves DEF EndpointInv, Connect, ConnectFails, Retry, Goes, runtimeVars
  <1>7. CASE Prepare(p)
    BY <1>1, <1>2, <1>7, EndpointMoves DEF EndpointInv, Prepare, Goes
  <1>8. CASE Bind(p)
    <2>1. phase[p] = "binding"
      BY <1>8 DEF Bind, Goes
    <2>2. endpoint = NoProcess
      BY <1>2, <2>1 DEF EndpointInv
    <2>3. phase' = [phase EXCEPT ![p] = "exec_binding"] /\ endpoint' = p
      BY <1>8, <2>2 DEF Bind, Goes
    <2>4. QED
      BY <1>1, <1>2, <2>1, <2>3, EndpointMoves
  <1>9. CASE BindExec(p) \/ BindExecFails(p) \/ LoseTransport(p) \/ ReceiveSignal(p)
    BY <1>1, <1>2, <1>9, EndpointMoves DEF EndpointInv, BindExec, BindExecFails, LoseTransport, ReceiveSignal, Goes
  <1>10. CASE (\E t \in Threads : StartThread(p, t) \/ StartThreadLate(p, t)) \/ EndLateSession(p)
    BY <1>10, <1>1, EndpointSame DEF StartThread, StartThreadLate, EndLateSession, Record, bridgeVars, runtimeVars
  <1>11. QED
    BY <1>4, <1>5, <1>6, <1>7, <1>8, <1>9, <1>10 DEF BridgeStep

\* No bridge runs when a command is about to start one, or has stopped it.
LEMMA NoneRuns ==
  ASSUME BridgeInv
  PROVE  /\ at = "spawn" => \A q \in Bridges : phase[q] \notin Alive
         /\ at \notin {"write_pid"} /\ ~Running(pid_file) => \A q \in Bridges : phase[q] \notin Alive
  BY NothingAssumption DEF BridgeInv, Found, CommandInv, Running

\* A step of a command.
LEMMA CommandStepEndpoint ==
  ASSUME BridgeInv, EndpointInv, CommandStep
  PROVE  EndpointInv'
  <1>1. phase \in [Bridges -> Phases] /\ TypeOK
    BY DEF BridgeInv, TypeOK
  <1>2. ASSUME NEW result, Finish(result), UNCHANGED <<endpoint, exec_port>>
        PROVE  EndpointInv'
    BY <1>1, <1>2, EndpointSame DEF Finish, Alive
  <1>3. ASSUME NEW step, GoesOn(step), step # "spawn", UNCHANGED <<endpoint, exec_port>>
        PROVE  EndpointInv'
    BY <1>3, EndpointSame DEF GoesOn
  <1>4. CASE Up \/ Down \/ SessionScope
    BY <1>4, EndpointSame DEF Up, Down, SessionScope, Begin, bridgeVars, runtimeVars
  <1>5. CASE UpCheck
    <2>1. CASE Running(pid_file)
      BY <1>2, <1>5, <2>1 DEF UpCheck
    <2>2. CASE ~Running(pid_file)
      <3>1. \A q \in Bridges : phase'[q] \notin Alive
        BY <1>5, <2>2, NoneRuns DEF UpCheck, GoesOn
      <3>2. endpoint' = NoProcess
        BY <1>5, <2>2 DEF UpCheck
      <3>3. QED
        BY <3>1, <3>2, EndpointNone
    <2>3. QED
      BY <2>1, <2>2
  <1>6. CASE UpRefused \/ UpWaits \/ Abort
    BY <1>2, <1>6 DEF UpRefused, UpWaits, Abort, runtimeVars
  <1>7. ASSUME NEW p \in Bridges, Spawn(p)
        PROVE  EndpointInv'
    <2>1. /\ at = "spawn" /\ at' = "write_pid" /\ phase' = [phase EXCEPT ![p] = "starting"]
          /\ UNCHANGED <<endpoint, exec_port>>
      BY <1>7 DEF Spawn, runtimeVars
    <2>2. \A q \in Bridges : phase[q] \notin Alive
      BY <2>1, NoneRuns
    <2>3. endpoint = NoProcess
      BY <2>1 DEF EndpointInv
    <2>4. QED
      BY <1>1, <2>1, <2>2, <2>3 DEF EndpointInv, Alive
  <1>8. CASE WritePid \/ LoadScope
    BY <1>8, EndpointSame DEF WritePid, LoadScope, bridgeVars, runtimeVars
  <1>9. CASE NothingToStop
    BY <1>2, <1>3, <1>9 DEF NothingToStop, AfterStop, runtimeVars
  <1>10. CASE StopBridge
    <2>1. at' # "spawn" /\ endpoint' = endpoint
      BY <1>10 DEF StopBridge
    <2>2. CASE Running(pid_file) /\ pid_file \notin handled
      <3>1. pid_file \in Bridges /\ phase[pid_file] \in Alive /\ Ends(pid_file)
        BY <1>1, <1>10, <2>2 DEF StopBridge, Running, TypeOK, SomeBridge
      <3>2. QED
        BY <2>1, <3>1, EndpointEnds
    <2>3. CASE ~(Running(pid_file) /\ pid_file \notin handled)
      <3>1. UNCHANGED <<phase, exec_port>>
        BY <1>10, <2>3 DEF StopBridge, DoesNotEnd, bridgeVars
      <3>2. QED
        BY <2>1, <3>1, EndpointSame
    <2>4. QED
      BY <2>2, <2>3
  <1>11. CASE AwaitExit
    <2>1. at' # "spawn" /\ endpoint' = endpoint
      BY <1>11 DEF AwaitExit
    <2>2. CASE Running(target)
      <3>1. target \in Bridges /\ phase[target] \in Alive /\ Ends(target)
        BY <1>1, <1>11, <2>2 DEF AwaitExit, Running, TypeOK, SomeBridge
      <3>2. QED
        BY <2>1, <3>1, EndpointEnds
    <2>3. CASE ~Running(target)
      BY <1>11, <2>1, <2>3, EndpointSame DEF AwaitExit, DoesNotEnd, bridgeVars
    <2>4. QED
      BY <2>2, <2>3
  <1>12. CASE Cleanup
    <2>1. \A q \in Bridges : phase[q] \notin Alive
      BY <1>12, NoneRuns DEF Cleanup, BridgeInv, CommandInv
    <2>2. \A q \in Bridges : phase'[q] \notin Alive
      BY <1>1, <1>12, <2>1 DEF Cleanup, AfterStop, Finish, GoesOn, Alive
    <2>3. at' # "spawn"
      BY <1>12 DEF Cleanup, AfterStop, Finish, GoesOn
    <2>4. QED
      BY <2>2, <2>3, EndpointNone
  <1>13. ASSUME NEW enabled \in BOOLEAN, SaveScope(enabled)
         PROVE  EndpointInv'
    BY <1>2, <1>3, <1>13 DEF SaveScope, runtimeVars
  <1>14. QED
    BY <1>4, <1>5, <1>6, <1>7, <1>8, <1>9, <1>10, <1>11, <1>12, <1>13 DEF CommandStep

\* EndpointInv is inductive relative to BridgeInv.
LEMMA EndpointStep == BridgeInv /\ EndpointInv /\ [Next]_vars => EndpointInv'
  <1>1. EndpointInv /\ UNCHANGED vars => EndpointInv'
    BY EndpointSame DEF vars, bridgeVars, runtimeVars, commandVars
  <1>2. QED
    BY <1>1, BridgeStepEndpoint, CommandStepEndpoint DEF Next

\* A bridge that runs has its endpoint and its Exec port once it has bound
\* them, and until then there is no endpoint.
THEOREM BridgeEndpoint == Spec => []EndpointInv
  <1>1. Init => EndpointInv
    BY DEF Init, EndpointInv, Alive
  <1>2. QED
    BY <1>1, EndpointStep, BridgeInvariant, PTL DEF Spec

\* Nobody takes the endpoint or the Exec port of a bridge that serves
\* (serve_multiplexed, and what up, down and session_scope clear).
THEOREM BridgeServingReachable == Spec => []ServingReachable
  <1>1. EndpointInv => ServingReachable
    BY DEF EndpointInv, ServingReachable
  <1>2. QED
    BY <1>1, BridgeEndpoint, PTL

\* A bridge in the pid file and a socket at the endpoint are a bridge that is
\* connected (status).
THEOREM BridgeStatusHonest == Spec => []StatusHonest
  <1>1. TypeOK /\ EndpointInv => StatusHonest
    BY DEF TypeOK, SomeBridge, EndpointInv, StatusHonest, Running
  <1>2. QED
    BY <1>1, BridgeTypeOK, BridgeEndpoint, PTL
-----------------------------------------------------------------------------
(* The session scope *)

\* A step that leaves the file alone and at most drops copies of it.
LEMMA ScopeSame ==
  ASSUME ScopeInv, UNCHANGED fileVars,
         at' \in {"load", "save"} => \A q \in Bridges : phase'[q] \notin Alive,
         at' = "save" => loaded' = scope_file,
         \A q \in Bridges :
           /\ phase'[q] \notin Alive => scope'[q] = NoScope /\ late_scope'[q] = NoScope
           /\ scope'[q] \in {scope[q], NoScope}
           /\ late_scope'[q] \in {late_scope[q], scope[q], NoScope}
  PROVE  ScopeInv'
  BY DEF ScopeInv, ScopeKept, fileVars

\* A bridge that ends.
LEMMA ScopeEnds ==
  ASSUME TypeOK, ScopeInv, NEW p \in Bridges, Ends(p), UNCHANGED fileVars,
         at' \in {"load", "save"} => at' = at /\ loaded' = loaded
  PROVE  ScopeInv'
  <1>1. \A q \in Bridges : phase'[q] \in Alive => q # p /\ phase[q] \in Alive /\ phase'[q] = phase[q]
    BY EndsAlive DEF Ends, TypeOK
  <1>2. \A q \in Bridges \ {p} : phase'[q] = phase[q]
    BY DEF Ends, TypeOK
  <1>3. \A q \in Bridges :
          /\ scope'[q] = IF q = p THEN NoScope ELSE scope[q]
          /\ late_scope'[q] = IF q = p THEN NoScope ELSE late_scope[q]
    BY DEF Ends, TypeOK
  <1>4. \A q \in Bridges :
          /\ phase'[q] \notin Alive => scope'[q] = NoScope /\ late_scope'[q] = NoScope
          /\ scope'[q] \in {scope[q], NoScope}
          /\ late_scope'[q] \in {late_scope[q], scope[q], NoScope}
    BY <1>2, <1>3 DEF ScopeInv
  <1>5. at' = "save" => loaded' = scope_file
    BY DEF ScopeInv
  <1>6. at' \in {"load", "save"} => \A q \in Bridges : phase'[q] \notin Alive
    BY <1>1 DEF ScopeInv
  <1>7. QED
    BY <1>4, <1>5, <1>6, ScopeSame

\* A bridge that goes on to live in another phase.
LEMMA ScopeMoves ==
  ASSUME TypeOK, ScopeInv, NEW p \in Bridges, phase[p] \in Alive, UNCHANGED <<fileVars, at, loaded>>,
         phase'[p] \in Alive,
         \A q \in Bridges \ {p} : phase'[q] = phase[q] /\ scope'[q] = scope[q] /\ late_scope'[q] = late_scope[q],
         scope'[p] \in {scope[p], NoScope},
         late_scope'[p] \in {late_scope[p], scope[p], NoScope}
  PROVE  ScopeInv'
  <1>1. at' \notin {"load", "save"}
    BY DEF ScopeInv
  <1>2. \A q \in Bridges :
          /\ phase'[q] \notin Alive => scope'[q] = NoScope /\ late_scope'[q] = NoScope
          /\ scope'[q] \in {scope[q], NoScope}
          /\ late_scope'[q] \in {late_scope[q], scope[q], NoScope}
    BY DEF ScopeInv
  <1>3. QED
    BY <1>1, <1>2, ScopeSame

\* A step of a bridge.
LEMMA BridgeStepScope ==
  ASSUME BridgeInv, ScopeInv, NEW p \in Bridges, BridgeStep(p)
  PROVE  ScopeInv'
  <1>1. TypeOK /\ UNCHANGED <<at, loaded>>
    BY BridgeStepFrame DEF BridgeInv, commandVars
  <1>2. {"starting", "connecting", "preparing", "binding", "exec_binding", "serving", "exiting", "backoff"} = Alive
    BY DEF Alive
  <1>3. CASE Start(p)
    <2>1. phase[p] = "starting" /\ UNCHANGED fileVars
      BY <1>3 DEF Start
    <2>2. CASE Ends(p)
      BY <1>1, <2>1, <2>2, ScopeEnds
    <2>3. CASE ~Ends(p)
      BY <1>1, <1>2, <1>3, <2>1, <2>3, ScopeMoves DEF Start, TypeOK, scopeVars
    <2>4. QED
      BY <2>2, <2>3
  <1>4. CASE Exit(p) \/ Crash(p)
    BY <1>1, <1>4, ScopeEnds DEF Exit, Crash
  <1>5. CASE Connect(p)
    <2>1. /\ phase[p] = "connecting" /\ phase' = [phase EXCEPT ![p] = "preparing"]
          /\ scope' = [scope EXCEPT ![p] = scope_file]
          /\ UNCHANGED <<late_scope, fileVars>>
      BY <1>5 DEF Connect, Goes
    <2>2. scope'[p] = scope_file /\ phase'[p] = "preparing"
      BY <1>1, <2>1 DEF TypeOK
    <2>3. \A q \in Bridges \ {p} : phase'[q] = phase[q] /\ scope'[q] = scope[q]
      BY <1>1, <2>1 DEF TypeOK
    <2>4. at' \notin {"load", "save"}
      BY <1>1, <1>2, <2>1 DEF ScopeInv
    <2>5. QED
      BY <1>2, <2>1, <2>2, <2>3, <2>4 DEF ScopeInv, ScopeKept, fileVars
  <1>6. CASE ConnectFails(p) \/ Prepare(p) \/ BindExec(p) \/ Retry(p) \/ ReceiveSignal(p)
    BY <1>1, <1>2, <1>6, ScopeMoves
       DEF ConnectFails, Prepare, BindExec, Retry, ReceiveSignal, Goes, TypeOK, scopeVars
  <1>7. CASE Bind(p)
    BY <1>1, <1>2, <1>7, ScopeMoves DEF Bind, Goes, TypeOK
  <1>8. CASE BindExecFails(p)
    BY <1>1, <1>2, <1>8, ScopeMoves DEF BindExecFails, Goes, TypeOK
  <1>9. CASE LoseTransport(p)
    <2>1. PICK s \in {scope[p], NoScope} : late_scope' = [late_scope EXCEPT ![p] = s]
      BY <1>9 DEF LoseTransport
    <2>2. QED
      BY <1>1, <1>2, <1>9, <2>1, ScopeMoves DEF LoseTransport, Goes, TypeOK
  <1>10. ASSUME NEW t \in Threads, StartThread(p, t)
         PROVE  ScopeInv'
    <2>1. /\ phase[p] \in Alive /\ scope[p] # NoScope
          /\ UNCHANGED <<phase, late_scope, late, chosen>>
          /\ scope' = [scope EXCEPT ![p].thread_ids = @ \cup {t}]
      BY <1>2, <1>10 DEF StartThread, Record, bridgeVars
    <2>2. scope[p] \in Scopes
      BY <1>1, <2>1 DEF TypeOK
    <2>3. /\ scope'[p] = [scope[p] EXCEPT !.thread_ids = @ \cup {t}]
          /\ \A q \in Bridges \ {p} : scope'[q] = scope[q]
      BY <1>1, <2>1 DEF TypeOK
    <2>4. scope'[p].enabled = scope[p].enabled /\ scope'[p].thread_ids = scope[p].thread_ids \cup {t}
      BY <2>2, <2>3 DEF Scopes
    <2>5. /\ scope[p].enabled = chosen /\ settled \subseteq scope[p].thread_ids
          /\ late \/ recorded \subseteq scope[p].thread_ids
      BY <2>1 DEF ScopeInv
    <2>6. \/ scope_file' = scope'[p] /\ recorded' = recorded \cup {t}
          \/ UNCHANGED <<scope_file, recorded>>
      BY <1>10, <2>3 DEF StartThread, Record
    <2>7. settled' = IF late_scope[p] = NoScope THEN settled \cup (recorded' \ recorded) ELSE settled
      BY <1>10 DEF StartThread
    <2>8. settled' \subseteq scope'[p].thread_ids /\ (late_scope[p] # NoScope => settled' = settled)
      BY <2>4, <2>5, <2>6, <2>7
    <2>9. ScopeKept'
      BY <2>1, <2>4, <2>5, <2>6, <2>7, <2>8 DEF ScopeInv, ScopeKept
    <2>10. at' \notin {"load", "save"}
      BY <1>1, <2>1 DEF ScopeInv
    <2>11. recorded' \subseteq recorded \cup {t}
      BY <2>6
    <2>12. scope'[p].enabled = chosen' /\ (late' \/ recorded' \subseteq scope'[p].thread_ids)
      BY <2>1, <2>4, <2>5, <2>11
    <2>13. \A q \in Bridges \ {p} : scope'[q] = NoScope /\ late_scope'[q] = NoScope
      BY <2>1, <2>3, OthersEnded DEF ScopeInv
    <2>14. QED
      BY <2>1, <2>8, <2>9, <2>10, <2>12, <2>13 DEF ScopeInv
  <1>11. ASSUME NEW t \in Threads, StartThreadLate(p, t)
         PROVE  ScopeInv'
    <2>1. /\ late_scope[p] # NoScope /\ late' = TRUE
          /\ UNCHANGED <<phase, scope, settled, chosen>>
          /\ late_scope' = [late_scope EXCEPT ![p].thread_ids = @ \cup {t}]
      BY <1>11 DEF StartThreadLate, Record, bridgeVars
    <2>2. /\ late_scope[p] \in Scopes /\ phase[p] \in Alive
          /\ late_scope[p].enabled = chosen /\ settled \subseteq late_scope[p].thread_ids
      BY <1>1, <2>1 DEF TypeOK, ScopeInv
    <2>3. /\ late_scope'[p] = [late_scope[p] EXCEPT !.thread_ids = @ \cup {t}]
          /\ \A q \in Bridges \ {p} : late_scope'[q] = late_scope[q]
      BY <1>1, <2>1 DEF TypeOK
    <2>4. late_scope'[p].enabled = chosen /\ settled \subseteq late_scope'[p].thread_ids
      BY <2>2, <2>3 DEF Scopes
    <2>5. scope_file' = late_scope'[p] \/ scope_file' = scope_file
      BY <1>11, <2>3 DEF StartThreadLate, Record
    <2>6. ScopeKept'
      BY <2>1, <2>4, <2>5 DEF ScopeInv, ScopeKept
    <2>7. at' \notin {"load", "save"}
      BY <1>1, <2>2 DEF ScopeInv
    <2>8. QED
      BY <2>1, <2>2, <2>3, <2>4, <2>6, <2>7 DEF ScopeInv
  <1>12. CASE EndLateSession(p)
    <2>1. phase' = phase /\ scope' = scope /\ UNCHANGED fileVars /\ late_scope' = [late_scope EXCEPT ![p] = NoScope]
      BY <1>12 DEF EndLateSession, bridgeVars
    <2>2. \A q \in Bridges : late_scope'[q] \in {late_scope[q], NoScope}
      BY <1>1, <2>1 DEF TypeOK
    <2>3. QED
      BY <1>1, <2>1, <2>2, ScopeSame DEF ScopeInv
  <1>13. QED
    BY <1>3, <1>4, <1>5, <1>6, <1>7, <1>8, <1>9, <1>10, <1>11, <1>12 DEF BridgeStep

\* A step of a command.
LEMMA CommandStepScope ==
  ASSUME BridgeInv, ScopeInv, CommandStep
  PROVE  ScopeInv'
  <1>1. TypeOK
    BY DEF BridgeInv
  <1>2. ASSUME NEW result, Finish(result), UNCHANGED <<scopeVars, fileVars>>
        PROVE  ScopeInv'
    <2>1. at' \notin {"load", "save"} /\ \A q \in Bridges : phase'[q] \notin Alive => phase[q] \notin Alive
      BY <1>2 DEF Finish, Alive
    <2>2. QED
      BY <1>2, <2>1, ScopeSame DEF scopeVars, ScopeInv
  <1>3. ASSUME NEW step, GoesOn(step), UNCHANGED <<scopeVars, fileVars>>, step # "save",
               step = "load" => \A q \in Bridges : phase[q] \notin Alive
        PROVE  ScopeInv'
    BY <1>3, ScopeSame DEF GoesOn, scopeVars, ScopeInv
  <1>4. CASE Up \/ Down
    BY <1>4, ScopeSame DEF Up, Down, Begin, bridgeVars, scopeVars, ScopeInv
  <1>5. CASE SessionScope
    <2>1. at = "idle" /\ at' = IF Running(pid_file) THEN "stop" ELSE "load"
      BY <1>5 DEF SessionScope, Begin
    <2>2. at' = "load" => \A q \in Bridges : phase[q] \notin Alive
      BY <2>1, NoneRuns
    <2>3. QED
      BY <1>5, <2>1, <2>2, ScopeSame DEF SessionScope, bridgeVars, scopeVars, ScopeInv
  <1>6. CASE UpCheck
    BY <1>2, <1>3, <1>6 DEF UpCheck
  <1>7. CASE UpRefused \/ UpWaits \/ Abort
    BY <1>2, <1>7 DEF UpRefused, UpWaits, Abort
  <1>8. ASSUME NEW p \in Bridges, Spawn(p)
        PROVE  ScopeInv'
    <2>1. at' = "write_pid" /\ UNCHANGED <<scopeVars, fileVars>> /\ phase' = [phase EXCEPT ![p] = "starting"]
      BY <1>8 DEF Spawn
    <2>2. \A q \in Bridges : phase'[q] \notin Alive => phase[q] \notin Alive
      BY <1>1, <2>1 DEF TypeOK, Alive
    <2>3. QED
      BY <2>1, <2>2, ScopeSame DEF scopeVars, ScopeInv
  <1>9. CASE WritePid
    BY <1>9, ScopeSame DEF WritePid, bridgeVars, scopeVars, ScopeInv
  <1>10. CASE NothingToStop
    <2>1. \A q \in Bridges : phase[q] \notin Alive
      BY <1>10, NoneRuns DEF NothingToStop, Running
    <2>2. QED
      BY <1>2, <1>3, <1>10, <2>1 DEF NothingToStop, AfterStop
  <1>11. CASE StopBridge
    <2>1. at' \notin {"load", "save"} /\ UNCHANGED fileVars
      BY <1>11 DEF StopBridge
    <2>2. CASE Running(pid_file) /\ pid_file \notin handled
      <3>1. pid_file \in Bridges /\ Ends(pid_file)
        BY <1>1, <1>11, <2>2 DEF StopBridge, Running, TypeOK, SomeBridge
      <3>2. QED
        BY <1>1, <2>1, <3>1, ScopeEnds
    <2>3. CASE ~(Running(pid_file) /\ pid_file \notin handled)
      <3>1. UNCHANGED <<phase, scopeVars>>
        BY <1>11, <2>3 DEF StopBridge, DoesNotEnd, bridgeVars
      <3>2. QED
        BY <2>1, <3>1, ScopeSame DEF scopeVars, ScopeInv
    <2>4. QED
      BY <2>2, <2>3
  <1>12. CASE AwaitExit
    <2>1. at' \notin {"load", "save"} /\ UNCHANGED fileVars
      BY <1>12 DEF AwaitExit
    <2>2. CASE Running(target)
      <3>1. target \in Bridges /\ Ends(target)
        BY <1>1, <1>12, <2>2 DEF AwaitExit, Running, TypeOK, SomeBridge
      <3>2. QED
        BY <1>1, <2>1, <3>1, ScopeEnds
    <2>3. CASE ~Running(target)
      BY <1>12, <2>1, <2>3, ScopeSame DEF AwaitExit, DoesNotEnd, bridgeVars, scopeVars, ScopeInv
    <2>4. QED
      BY <2>2, <2>3
  <1>13. CASE Cleanup
    <2>1. \A q \in Bridges : phase[q] \notin Alive
      BY <1>13, NoneRuns DEF Cleanup, BridgeInv, CommandInv
    <2>2. QED
      BY <1>2, <1>3, <1>13, <2>1 DEF Cleanup, AfterStop
  <1>14. CASE LoadScope
    BY <1>14, ScopeSame DEF LoadScope, bridgeVars, scopeVars, ScopeInv
  <1>15. ASSUME NEW enabled \in BOOLEAN, SaveScope(enabled)
         PROVE  ScopeInv'
    <2>1. at = "save" /\ UNCHANGED <<scope, late_scope, recorded, settled, late>> /\ chosen' = enabled
      BY <1>15 DEF SaveScope, scopeVars
    <2>2. \A q \in Bridges : phase[q] \notin Alive /\ scope[q] = NoScope /\ late_scope[q] = NoScope
      BY <2>1 DEF ScopeInv
    <2>3. scope_file' = [scope_file EXCEPT !.enabled = enabled]
      BY <1>15, <2>1 DEF SaveScope, ScopeInv
    <2>4. scope_file'.enabled = enabled /\ scope_file'.thread_ids = scope_file.thread_ids
      BY <1>1, <2>3 DEF TypeOK, Scopes
    <2>5. at' \notin {"load", "save"}
      BY <1>15 DEF SaveScope, GoesOn, Finish
    <2>6. QED
      BY <2>1, <2>2, <2>4, <2>5 DEF ScopeInv, ScopeKept
  <1>16. QED
    BY <1>4, <1>5, <1>6, <1>7, <1>8, <1>9, <1>10, <1>11, <1>12, <1>13, <1>14, <1>15 DEF CommandStep

\* ScopeInv is inductive relative to BridgeInv.
LEMMA ScopeStep == BridgeInv /\ ScopeInv /\ [Next]_vars => ScopeInv'
  <1>1. ScopeInv /\ UNCHANGED vars => ScopeInv'
    BY ScopeSame DEF vars, bridgeVars, scopeVars, commandVars, ScopeInv
  <1>2. QED
    BY <1>1, BridgeStepScope, CommandStepScope DEF Next

\* Through any number of reconnections, restarts and edits the scope stays as
\* the user left it and never loses a thread that was saved while no session of
\* an earlier connection was left; it loses one saved beside such a session only
\* if that session recorded too (serve_multiplexed, session_scope).
THEOREM BridgeScopeKept == Spec => []ScopeKept
  <1>1. Init => ScopeInv
    BY DEF Init, ScopeInv, ScopeKept, Alive
  <1>2. ScopeInv => ScopeKept
    BY DEF ScopeInv
  <1>3. QED
    BY <1>1, <1>2, ScopeStep, BridgeInvariant, PTL DEF Spec
-----------------------------------------------------------------------------
(* The refinement *)

\* Which command is at a step, and what it holds there.
LocalsInv ==
  /\ at = "idle" => ~restart
  /\ at \in {"check", "spawn", "write_pid", "wait"} => command = "up" \/ (command = "session-scope" /\ restart)
  /\ at \in {"stop", "await_exit", "cleanup"} => command \in {"down", "session-scope"}
  /\ at \in {"load", "save"} => command = "session-scope"
  /\ at \notin {"write_pid", "wait"} => child = NoProcess

LEMMA LocalsStep == TypeOK /\ LocalsInv /\ [Next]_vars => LocalsInv'
  <1> SUFFICES ASSUME TypeOK, LocalsInv, [Next]_vars PROVE LocalsInv'
    OBVIOUS
  <1>1. CASE UNCHANGED commandVars
    BY <1>1 DEF LocalsInv, commandVars
  <1>2. ASSUME NEW p \in Bridges, BridgeStep(p)
        PROVE  LocalsInv'
    BY <1>1, <1>2, BridgeStepFrame
  <1>3. ASSUME NEW result, Finish(result)
        PROVE  LocalsInv'
    BY <1>3 DEF Finish, LocalsInv
  <1>4. CASE Up \/ Down \/ SessionScope
    BY <1>4 DEF Up, Down, SessionScope, Begin, LocalsInv
  <1>5. CASE UpCheck \/ UpRefused \/ UpWaits \/ Abort
    BY <1>3, <1>5 DEF UpCheck, UpRefused, UpWaits, Abort, GoesOn, LocalsInv
  <1>6. CASE (\E p \in Bridges : Spawn(p)) \/ WritePid
    BY <1>6 DEF Spawn, WritePid, LocalsInv
  <1>7. CASE NothingToStop \/ Cleanup
    BY <1>3, <1>7 DEF NothingToStop, Cleanup, AfterStop, GoesOn, LocalsInv
  <1>8. CASE StopBridge \/ AwaitExit \/ LoadScope
    <2>1. at \in {"stop", "await_exit", "load"} /\ at' \in {"await_exit", "cleanup", "save"}
          /\ UNCHANGED <<command, child>> /\ (at = "load" <=> at' = "save")
      BY <1>8 DEF StopBridge, AwaitExit, LoadScope
    <2>2. QED
      BY <2>1 DEF LocalsInv
  <1>9. ASSUME NEW enabled \in BOOLEAN, SaveScope(enabled)
        PROVE  LocalsInv'
    BY <1>3, <1>9 DEF SaveScope, GoesOn, LocalsInv
  <1>10. CASE CommandStep
    BY <1>4, <1>5, <1>6, <1>7, <1>8, <1>9, <1>10 DEF CommandStep
  <1>11. CASE UNCHANGED vars
    BY <1>1, <1>11 DEF vars
  <1>12. QED
    BY <1>2, <1>10, <1>11 DEF Next

PromiseInv == BridgeInv /\ EndpointInv /\ ScopeInv /\ LocalsInv

LEMMA PromiseInvariant == Spec => []PromiseInv
  <1>1. Init => EndpointInv /\ ScopeInv /\ LocalsInv
    BY DEF Init, EndpointInv, ScopeInv, ScopeKept, LocalsInv, Alive
  <1>2. EndpointInv /\ ScopeInv /\ LocalsInv /\ BridgeInv /\ [Next]_vars => (EndpointInv /\ ScopeInv /\ LocalsInv)'
    BY EndpointStep, ScopeStep, LocalsStep DEF BridgeInv
  <1>3. Spec => [](EndpointInv /\ ScopeInv /\ LocalsInv)
    BY <1>1, <1>2, BridgeInvariant, PTL DEF Spec
  <1>4. QED
    BY <1>3, BridgeInvariant, PTL DEF PromiseInv

\* The bridges that run there are those that run here.
LEMMA LifeIs ==
  ASSUME phase \in [Bridges -> Phases]
  PROVE  /\ \A p \in Bridges : Life(p) \in {"unborn", "running", "ended"}
         /\ \A p \in Bridges : Lives[p] = "running" <=> phase[p] \in Alive
         /\ \A p \in Bridges : Lives[p] = "unborn" <=> phase[p] = "unborn"
         /\ Promise!Running = {p \in Bridges : phase[p] \in Alive}
  <1>1. \A p \in Bridges : /\ phase[p] = "unborn" \/ phase[p] \in Alive \/ phase[p] \in {"zombie", "gone"}
                           /\ phase[p] \in Alive => phase[p] \notin {"unborn", "zombie", "gone"}
    BY DEF Phases, Alive
  <1>2. \A p \in Bridges : /\ phase[p] \in Alive => Life(p) = "running"
                           /\ phase[p] = "unborn" => Life(p) = "unborn"
                           /\ phase[p] \in {"zombie", "gone"} => Life(p) = "ended"
    BY <1>1 DEF Life
  <1>3. \A p \in Bridges : /\ Life(p) \in {"unborn", "running", "ended"}
                           /\ Life(p) = "running" <=> phase[p] \in Alive
                           /\ Life(p) = "unborn" <=> phase[p] = "unborn"
    BY <1>1, <1>2
  <1>4. \A p \in Bridges : Lives[p] = Life(p)
    BY DEF Lives
  <1>5. QED
    BY <1>3, <1>4 DEF Promise!Running

\* No process starts or ends.
LEMMA LivesSame ==
  ASSUME phase \in [Bridges -> Phases], phase' \in [Bridges -> Phases],
         \A p \in Bridges : /\ phase'[p] \in Alive <=> phase[p] \in Alive
                            /\ phase'[p] = "unborn" <=> phase[p] = "unborn"
  PROVE  Lives' = Lives
  <1>1. \A p \in Bridges : /\ phase[p] = "unborn" \/ phase[p] \in Alive \/ phase[p] \in {"zombie", "gone"}
                           /\ phase[p] \in Alive => phase[p] \notin {"unborn", "zombie", "gone"}
                           /\ phase'[p] = "unborn" \/ phase'[p] \in Alive \/ phase'[p] \in {"zombie", "gone"}
                           /\ phase'[p] \in Alive => phase'[p] \notin {"unborn", "zombie", "gone"}
    BY DEF Phases, Alive
  <1>2. ASSUME NEW p \in Bridges
        PROVE  Life(p)' = Life(p)
    <2>1. CASE phase[p] \in Alive
      BY <1>1, <2>1 DEF Life
    <2>2. CASE phase[p] = "unborn"
      BY <1>1, <2>2 DEF Life
    <2>3. CASE phase[p] \in {"zombie", "gone"}
      BY <1>1, <2>3 DEF Life
    <2>4. QED
      BY <1>1, <2>1, <2>2, <2>3
  <1>3. QED
    BY <1>2 DEF Lives

\* A bridge that serves has what it needs to be reached.
LEMMA ServedIs ==
  ASSUME EndpointInv
  PROVE  Served = {p \in Bridges : phase[p] = "serving"}
  BY DEF EndpointInv, Served, Reachable, Alive

\* A step of which there is nothing to see but that copies of the scope go.
LEMMA PromiseQuiet ==
  ASSUME Lives' = Lives, Served' = Served, UNCHANGED Promise!commandVars, scope_file' = scope_file,
         Leftover' => Leftover, Stale' => Stale
  PROVE  [Promise!Next]_(Promise!vars)
  <1>1. Promise!Forget
    BY DEF Promise!Forget
  <1>2. QED
    BY <1>1 DEF Promise!Next

LEMMA PromiseCommands ==
  ASSUME UNCHANGED commandVars
  PROVE  UNCHANGED Promise!commandVars
  BY DEF commandVars, Promise!commandVars, Busy

\* A step of a bridge that changes no more than its phase and its copies.
LEMMA PromiseMoves ==
  ASSUME PromiseInv, PromiseInv', NEW p \in Bridges, phase[p] \in Alive \ {"serving"}, phase'[p] \in Alive \ {"serving"},
         UNCHANGED <<commandVars, scope_file>>,
         \A q \in Bridges \ {p} : phase'[q] = phase[q],
         Leftover' => Leftover, Stale' => Stale
  PROVE  [Promise!Next]_(Promise!vars)
  <1>1. phase \in [Bridges -> Phases] /\ phase' \in [Bridges -> Phases]
    BY DEF PromiseInv, BridgeInv, TypeOK
  <1>2. Lives' = Lives
    BY <1>1, LivesSame DEF Alive
  <1>3. Served' = Served
    <2>1. Served = {q \in Bridges : phase[q] = "serving"} /\ Served' = {q \in Bridges : phase'[q] = "serving"}
      BY ServedIs DEF PromiseInv, EndpointInv, Served, Reachable, Alive
    <2>2. QED
      BY <2>1
  <1>4. QED
    BY <1>2, <1>3, PromiseCommands, PromiseQuiet

\* The running bridge ends.
LEMMA PromiseEnds ==
  ASSUME PromiseInv, PromiseInv', NEW p \in Bridges, phase[p] \in Alive, Ends(p),
         UNCHANGED <<Promise!commandVars, scope_file>>
  PROVE  [Promise!Next]_(Promise!vars)
  <1>1. phase \in [Bridges -> Phases] /\ phase' = [phase EXCEPT ![p] = Exited(p)]
    BY DEF PromiseInv, BridgeInv, TypeOK, Ends
  <1>2. \A q \in Bridges : phase'[q] \notin Alive
    BY OthersEnded, EndsAlive DEF PromiseInv, BridgeInv
  <1>3. Lives' = [Lives EXCEPT ![p] = "ended"]
    <2>1. Life(p)' = "ended"
      BY <1>1 DEF Exited, Life, Alive
    <2>2. \A q \in Bridges \ {p} : Life(q)' = Life(q)
      BY <1>1 DEF Life
    <2>3. QED
      BY <2>1, <2>2 DEF Lives
  <1>4. Served' = Served \ {p}
    <2>1. \A q \in Bridges \ {p} : phase[q] \notin Alive
      BY OthersEnded DEF PromiseInv
    <2>2. Served' = {} /\ Served \subseteq {p}
      BY <1>2, <2>1 DEF Served, Reachable, Alive
    <2>3. QED
      BY <2>2
  <1>5. ~Leftover' /\ ~Stale'
    BY <1>2 DEF PromiseInv, ScopeInv, Leftover, Stale, Overtaken
  <1>6. p \in Promise!Running
    BY <1>1, LifeIs
  <1>7. Promise!End(p)
    BY <1>3, <1>4, <1>5, <1>6 DEF Promise!End
  <1>8. QED
    BY <1>7 DEF Promise!Next

\* The connection is lost, or the bridge begins to exit.
LEMMA PromiseLoses ==
  ASSUME PromiseInv, PromiseInv', NEW p \in Bridges, LoseTransport(p) \/ ReceiveSignal(p)
  PROVE  [Promise!Next]_(Promise!vars)
  <1>1. /\ phase \in [Bridges -> Phases] /\ phase' \in [Bridges -> Phases]
        /\ scope \in [Bridges -> Scopes \cup {NoScope}]
    BY DEF PromiseInv, BridgeInv, TypeOK
  <1>2. /\ phase[p] = "serving" /\ phase'[p] \in {"backoff", "exiting"}
        /\ \A q \in Bridges \ {p} : phase'[q] = phase[q]
        /\ UNCHANGED <<commandVars, scope_file>>
        /\ scope' = scope \/ scope' = [scope EXCEPT ![p] = NoScope]
    BY <1>1 DEF LoseTransport, ReceiveSignal, Goes, fileVars, scopeVars
  <1>3. Lives' = Lives
    BY <1>1, <1>2, LivesSame DEF Alive
  <1>4. Served = {q \in Bridges : phase[q] = "serving"} /\ Served' = {q \in Bridges : phase'[q] = "serving"}
    BY ServedIs DEF PromiseInv, EndpointInv, Served, Reachable, Alive
  <1>5. p \in Served /\ Served' = Served \ {p}
    BY <1>2, <1>4
  <1>6. Leftover' \in BOOLEAN
    BY DEF Leftover
  <1>7. Stale' => Stale
    BY <1>1, <1>2 DEF Stale, Overtaken
  <1>8. Promise!Lose(p)
    BY <1>2, <1>3, <1>5, <1>6, <1>7, PromiseCommands DEF Promise!Lose
  <1>9. QED
    BY <1>8 DEF Promise!Next

\* The bridge serves.
LEMMA PromiseServes ==
  ASSUME PromiseInv, PromiseInv', NEW p \in Bridges, BindExec(p)
  PROVE  [Promise!Next]_(Promise!vars)
  <1>1. phase \in [Bridges -> Phases] /\ phase' \in [Bridges -> Phases]
    BY DEF PromiseInv, BridgeInv, TypeOK
  <1>2. /\ phase[p] = "exec_binding" /\ phase'[p] = "serving"
        /\ \A q \in Bridges \ {p} : phase'[q] = phase[q]
        /\ UNCHANGED <<commandVars, scope_file, scope, late_scope>>
    BY <1>1 DEF BindExec, Goes, fileVars, scopeVars
  <1>3. \A q \in Bridges \ {p} : phase[q] \notin Alive
    BY <1>2, OthersEnded DEF PromiseInv, Alive
  <1>4. Lives' = Lives
    BY <1>1, <1>2, LivesSame DEF Alive
  <1>5. Served = {} /\ Served' = {p}
    <2>1. Served = {q \in Bridges : phase[q] = "serving"} /\ Served' = {q \in Bridges : phase'[q] = "serving"}
      BY ServedIs DEF PromiseInv, EndpointInv, Served, Reachable, Alive
    <2>2. QED
      BY <1>2, <1>3, <2>1 DEF Alive
  <1>6. p \in Promise!Running
    BY <1>1, <1>2, LifeIs DEF Alive
  <1>7. Leftover' = Leftover /\ Stale' = Stale
    BY <1>2 DEF Leftover, Stale, Overtaken
  <1>8. Promise!Serve(p)
    BY <1>2, <1>4, <1>5, <1>6, <1>7, PromiseCommands DEF Promise!Serve, Promise!copyVars
  <1>9. QED
    BY <1>8 DEF Promise!Next

\* A session of the connection records a thread: the copy is what the file
\* has and more, unless it is stale.
LEMMA PromiseRecords ==
  ASSUME PromiseInv, NEW p \in Bridges, NEW t \in Threads, StartThread(p, t)
  PROVE  [Promise!Next]_(Promise!vars)
  <1> DEFINE copy == scope[p]
             longer == [copy EXCEPT !.thread_ids = @ \cup {t}]
  <1>1. TypeOK /\ EndpointInv /\ ScopeInv
    BY DEF PromiseInv, BridgeInv
  <1>2. /\ phase[p] \in Alive /\ copy # NoScope /\ copy.enabled
        /\ scope' = [scope EXCEPT ![p].thread_ids = @ \cup {t}]
        /\ scope_file' \in {longer, scope_file}
        /\ UNCHANGED <<bridgeVars, endpoint, exec_port, late_scope, commandVars>>
    BY DEF StartThread, Record, Alive, runtimeVars
  <1>3. copy \in Scopes /\ scope_file \in Scopes /\ scope'[p] = longer
    BY <1>1, <1>2 DEF TypeOK
  <1>4. /\ longer \in Scopes /\ longer.enabled /\ longer.thread_ids = copy.thread_ids \cup {t}
        /\ scope_file.enabled
    BY <1>1, <1>2, <1>3 DEF Scopes, ScopeInv, ScopeKept
  <1>5. \A q \in Bridges \ {p} : scope[q] = NoScope /\ scope'[q] = NoScope
    BY <1>1, <1>2, OthersEnded DEF PromiseInv, ScopeInv, TypeOK
  <1>6. /\ Stale <=> ~(scope_file.thread_ids \subseteq copy.thread_ids)
        /\ Stale' <=> ~(scope_file'.thread_ids \subseteq longer.thread_ids)
    BY <1>2, <1>3, <1>4, <1>5, NothingAssumption DEF Stale, Overtaken
  <1>7. Lives' = Lives /\ Served' = Served /\ Leftover' = Leftover /\ UNCHANGED Promise!commandVars
    BY <1>2, PromiseCommands DEF Lives, Life, Served, Reachable, Leftover, bridgeVars
  <1>8. Promise!Running # {}
    BY <1>1, <1>2, LifeIs DEF TypeOK
  <1> HIDE DEF longer, copy
  <1>9. CASE scope_file' = scope_file
    <2>1. Stale' => Stale
      BY <1>4, <1>6, <1>9
    <2>2. QED
      BY <1>7, <1>9, <2>1, PromiseQuiet
  <1>10. CASE scope_file' = longer /\ ~Stale
    <2>1. ~Stale'
      BY <1>6, <1>10
    <2>2. scope_file' = [scope_file EXCEPT !.thread_ids = @ \cup longer.thread_ids]
      BY <1>3, <1>4, <1>6, <1>10 DEF Scopes
    <2>3. longer.thread_ids \in SUBSET Threads
      BY <1>4 DEF Scopes
    <2>4. Stale' = Stale
      BY <1>10, <2>1 DEF Stale
    <2>5. Promise!Record(longer.thread_ids)
      BY <1>4, <1>7, <1>8, <1>10, <2>2, <2>4 DEF Promise!Record, Promise!copyVars
    <2>6. QED
      BY <2>3, <2>5 DEF Promise!Next
  <1>11. CASE scope_file' = longer /\ Stale
    <2>1. ~Stale'
      BY <1>6, <1>11
    <2>2. scope_file' = [scope_file EXCEPT !.thread_ids = longer.thread_ids]
      BY <1>3, <1>4, <1>11 DEF Scopes
    <2>3. longer.thread_ids \in SUBSET Threads
      BY <1>4 DEF Scopes
    <2>4. Stale' \in BOOLEAN
      BY DEF Stale
    <2>5. Promise!RecordStale(longer.thread_ids)
      BY <1>4, <1>7, <1>8, <1>11, <2>2, <2>4 DEF Promise!RecordStale
    <2>6. QED
      BY <2>3, <2>5 DEF Promise!Next
  <1>12. QED
    BY <1>2, <1>9, <1>10, <1>11

\* A session of a lost connection records a thread beside it.
LEMMA PromiseRecordsLate ==
  ASSUME PromiseInv, NEW p \in Bridges, NEW t \in Threads, StartThreadLate(p, t)
  PROVE  [Promise!Next]_(Promise!vars)
  <1> DEFINE copy == late_scope[p]
             longer == [copy EXCEPT !.thread_ids = @ \cup {t}]
  <1>1. TypeOK /\ EndpointInv /\ ScopeInv
    BY DEF PromiseInv, BridgeInv
  <1>2. /\ copy # NoScope /\ copy.enabled
        /\ late_scope' = [late_scope EXCEPT ![p].thread_ids = @ \cup {t}]
        /\ scope_file' \in {longer, scope_file}
        /\ UNCHANGED <<bridgeVars, endpoint, exec_port, scope, commandVars>>
    BY DEF StartThreadLate, Record, runtimeVars
  <1>3. copy \in Scopes /\ scope_file \in Scopes /\ late_scope'[p] = longer /\ phase[p] \in Alive
    BY <1>1, <1>2 DEF TypeOK, ScopeInv
  <1>4. /\ longer \in Scopes /\ longer.enabled /\ longer.thread_ids = copy.thread_ids \cup {t}
        /\ scope_file.enabled
    BY <1>1, <1>2, <1>3 DEF Scopes, ScopeInv, ScopeKept
  <1>5. Leftover /\ Leftover'
    BY <1>2, <1>3, <1>4, NothingAssumption DEF Leftover
  <1>6. Lives' = Lives /\ Served' = Served /\ UNCHANGED Promise!commandVars
    BY <1>2, PromiseCommands DEF Lives, Life, Served, Reachable, bridgeVars
  <1>7. Promise!Running # {}
    BY <1>1, <1>3, LifeIs DEF TypeOK
  <1>8. Stale' \in BOOLEAN
    BY DEF Stale
  <1> HIDE DEF longer, copy
  <1>9. longer.thread_ids \in SUBSET Threads
    BY <1>4 DEF Scopes
  <1>10. scope_file' \in {scope_file, [scope_file EXCEPT !.thread_ids = longer.thread_ids]}
    BY <1>2, <1>3, <1>4 DEF Scopes
  <1>11. Promise!RecordStale(longer.thread_ids)
    BY <1>4, <1>5, <1>6, <1>7, <1>8, <1>10 DEF Promise!RecordStale
  <1>12. QED
    BY <1>9, <1>11 DEF Promise!Next

LEMMA PromiseBridgeStep ==
  ASSUME PromiseInv, PromiseInv', NEW p \in Bridges, BridgeStep(p)
  PROVE  [Promise!Next]_(Promise!vars)
  <1>1. TypeOK /\ UNCHANGED commandVars
    BY BridgeStepFrame DEF PromiseInv, BridgeInv
  <1>2. {"starting", "connecting", "preparing", "binding", "exec_binding", "exiting", "backoff"} = Alive \ {"serving"}
    BY DEF Alive
  <1>3. ASSUME Ends(p), phase[p] \in Alive, scope_file' = scope_file
        PROVE  [Promise!Next]_(Promise!vars)
    BY <1>1, <1>3, PromiseEnds, PromiseCommands
  <1>4. CASE Start(p)
    <2>1. phase[p] = "starting" /\ UNCHANGED fileVars
      BY <1>4 DEF Start
    <2>2. CASE Ends(p)
      BY <1>2, <1>3, <2>1, <2>2 DEF fileVars
    <2>3. CASE ~Ends(p)
      <3>1. phase' = [phase EXCEPT ![p] = "connecting"] /\ UNCHANGED scopeVars
        BY <1>4, <2>3 DEF Start
      <3>2. Leftover' = Leftover /\ Stale' = Stale
        BY <2>1, <3>1 DEF Leftover, Stale, Overtaken, scopeVars, fileVars
      <3>3. phase'[p] = "connecting" /\ \A q \in Bridges \ {p} : phase'[q] = phase[q]
        BY <1>1, <3>1 DEF TypeOK
      <3>4. QED
        BY <1>1, <1>2, <2>1, <3>2, <3>3, PromiseMoves DEF fileVars
    <2>4. QED
      BY <2>2, <2>3
  <1>5. CASE Exit(p) \/ Crash(p)
    BY <1>2, <1>3, <1>5 DEF Exit, Crash, Running, fileVars
  <1>6. CASE ConnectFails(p) \/ Prepare(p) \/ Retry(p)
    <2>1. /\ phase[p] \in {"connecting", "preparing", "backoff"}
          /\ phase'[p] \in {"backoff", "binding", "connecting"}
          /\ \A q \in Bridges \ {p} : phase'[q] = phase[q]
          /\ UNCHANGED <<scopeVars, fileVars>>
      BY <1>1, <1>6 DEF ConnectFails, Prepare, Retry, Goes, TypeOK
    <2>2. Leftover' = Leftover /\ Stale' = Stale
      BY <2>1 DEF Leftover, Stale, Overtaken, scopeVars, fileVars
    <2>3. QED
      BY <1>1, <1>2, <2>1, <2>2, PromiseMoves DEF fileVars
  <1>7. CASE Connect(p)
    <2>1. /\ phase[p] = "connecting" /\ phase'[p] = "preparing"
          /\ \A q \in Bridges \ {p} : phase'[q] = phase[q] /\ scope'[q] = scope[q]
          /\ scope'[p] = scope_file /\ UNCHANGED <<late_scope, scope_file>>
      BY <1>1, <1>7 DEF Connect, Goes, TypeOK, fileVars
    <2>2. Leftover' = Leftover
      BY <2>1 DEF Leftover
    <2>3. Stale' => Stale
      BY <2>1 DEF Stale, Overtaken
    <2>4. QED
      BY <1>1, <1>2, <2>1, <2>2, <2>3, PromiseMoves
  <1>8. CASE Bind(p) \/ BindExecFails(p)
    <2>1. /\ phase[p] \in {"binding", "exec_binding"} /\ phase'[p] \in {"exec_binding", "backoff"}
          /\ \A q \in Bridges \ {p} : phase'[q] = phase[q] /\ scope'[q] = scope[q]
          /\ scope'[p] \in {scope[p], NoScope} /\ UNCHANGED <<late_scope, scope_file>>
      BY <1>1, <1>8 DEF Bind, BindExecFails, Goes, TypeOK, fileVars
    <2>2. Leftover' = Leftover
      BY <2>1 DEF Leftover
    <2>3. Stale' => Stale
      BY <2>1 DEF Stale, Overtaken
    <2>4. QED
      BY <1>1, <1>2, <2>1, <2>2, <2>3, PromiseMoves
  <1>9. CASE BindExec(p)
    BY <1>9, PromiseServes
  <1>10. CASE LoseTransport(p) \/ ReceiveSignal(p)
    BY <1>10, PromiseLoses
  <1>11. ASSUME NEW t \in Threads, StartThread(p, t) \/ StartThreadLate(p, t)
         PROVE  [Promise!Next]_(Promise!vars)
    BY <1>11, PromiseRecords, PromiseRecordsLate
  <1>12. CASE EndLateSession(p)
    <2>1. late_scope' = [late_scope EXCEPT ![p] = NoScope] /\ UNCHANGED <<bridgeVars, scope, runtimeVars, fileVars>>
      BY <1>12 DEF EndLateSession
    <2>2. Leftover' => Leftover
      BY <1>1, <2>1 DEF Leftover, TypeOK
    <2>3. Lives' = Lives /\ Served' = Served /\ Stale' = Stale
      BY <2>1 DEF Lives, Life, Served, Reachable, Stale, Overtaken, bridgeVars, runtimeVars, fileVars
    <2>4. QED
      BY <1>1, <2>1, <2>2, <2>3, PromiseCommands, PromiseQuiet DEF fileVars
  <1>13. QED
    BY <1>4, <1>5, <1>6, <1>7, <1>8, <1>9, <1>10, <1>11, <1>12 DEF BridgeStep

\* The processes stay, and what is served stays served.
LEMMA PromiseSame ==
  ASSUME PromiseInv, PromiseInv', UNCHANGED scopeVars,
         \A q \in Bridges : phase'[q] = phase[q] \/ (phase[q] = "zombie" /\ phase'[q] = "gone")
  PROVE  /\ Lives' = Lives /\ Served' = Served
         /\ Leftover' = Leftover
         /\ scope_file' = scope_file => Stale' = Stale
  <1>1. phase \in [Bridges -> Phases] /\ phase' \in [Bridges -> Phases]
    BY DEF PromiseInv, BridgeInv, TypeOK
  <1>2. Lives' = Lives
    BY <1>1, LivesSame DEF Alive
  <1>3. Served = {q \in Bridges : phase[q] = "serving"} /\ Served' = {q \in Bridges : phase'[q] = "serving"}
    BY ServedIs DEF PromiseInv, EndpointInv, Served, Reachable, Alive
  <1>4. Served' = Served
    BY <1>3
  <1>5. Leftover' = Leftover /\ (scope_file' = scope_file => Stale' = Stale)
    BY DEF Leftover, Stale, Overtaken, scopeVars
  <1>6. QED
    BY <1>2, <1>4, <1>5

\* A command begins.
LEMMA PromiseBegins ==
  ASSUME PromiseInv, PromiseInv', NEW c \in {"up", "down", "session-scope"}, NEW step \in Steps \ {"idle"}, Begin(c, step),
         restart' = (c = "session-scope" /\ Running(pid_file)),
         UNCHANGED <<bridgeVars, scopeVars, scope_file, child>>
  PROVE  [Promise!Next]_(Promise!vars)
  <1>1. Busy = "none" /\ Busy' = c /\ said' = "nothing"
    BY DEF Begin, Busy
  <1>2. Lives' = Lives /\ Served' = Served /\ Leftover' = Leftover /\ Stale' = Stale
    BY PromiseSame DEF bridgeVars
  <1>3. Running(pid_file) <=> Promise!Running # {}
    <2>1. Promise!Running = {q \in Bridges : phase[q] \in Alive}
      BY LifeIs DEF PromiseInv, BridgeInv, TypeOK
    <2>2. Running(pid_file) => pid_file \in Bridges /\ phase[pid_file] \in Alive
      BY DEF PromiseInv, BridgeInv, TypeOK, SomeBridge, Running
    <2>3. ~Running(pid_file) => \A q \in Bridges : phase[q] \notin Alive
      BY NoneRuns DEF PromiseInv, Begin
    <2>4. QED
      BY <2>1, <2>2, <2>3
  <1>4. restart' = (c = "session-scope" /\ Promise!Running # {})
    BY <1>3 DEF Running
  <1>5. Promise!Begin(c)
    BY <1>1, <1>2, <1>4 DEF Promise!Begin, Promise!copyVars
  <1>6. QED
    BY <1>5 DEF Promise!Next

\* A command ends with a report that is so.
LEMMA PromiseReports ==
  ASSUME PromiseInv, PromiseInv', NEW result \in Results, Finish(result), at # "idle", Promise!Honest(result),
         UNCHANGED <<scopeVars, scope_file>>
  PROVE  [Promise!Next]_(Promise!vars)
  <1>1. \A q \in Bridges : phase'[q] = phase[q] \/ (phase[q] = "zombie" /\ phase'[q] = "gone")
    BY DEF Finish
  <1>2. Lives' = Lives /\ Served' = Served /\ Leftover' = Leftover /\ Stale' = Stale
    BY <1>1, PromiseSame
  <1>3. Busy # "none" /\ Busy' = "none" /\ restart' = FALSE /\ (child # NoProcess)' = FALSE /\ said' = result
    BY DEF Finish, Busy, PromiseInv, BridgeInv, TypeOK
  <1>4. Promise!Report(result)
    BY <1>2, <1>3 DEF Promise!Report, Promise!Reports, Promise!copyVars
  <1>5. QED
    BY <1>4 DEF Promise!Next, Results

\* A command goes on, and nobody sees it.
LEMMA PromiseGoesOn ==
  ASSUME PromiseInv, PromiseInv', at # "idle", at' # "idle",
         UNCHANGED <<phase, scopeVars, scope_file, command, restart, said>>,
         (child # NoProcess)' = (child # NoProcess)
  PROVE  [Promise!Next]_(Promise!vars)
  <1>1. Lives' = Lives /\ Served' = Served /\ Leftover' = Leftover /\ Stale' = Stale
    BY PromiseSame
  <1>2. UNCHANGED Promise!commandVars
    BY DEF Promise!commandVars, Busy
  <1>3. QED
    BY <1>1, <1>2, PromiseQuiet

\* A command starts a bridge, once and when none runs.
LEMMA PromiseLaunches ==
  ASSUME PromiseInv, PromiseInv', NEW p \in Bridges, Spawn(p)
  PROVE  [Promise!Next]_(Promise!vars)
  <1>1. /\ at = "spawn" /\ phase[p] = "unborn" /\ phase' = [phase EXCEPT ![p] = "starting"]
        /\ at' = "write_pid" /\ child' = p
        /\ UNCHANGED <<scopeVars, fileVars, command, restart, said>>
    BY DEF Spawn
  <1>2. phase \in [Bridges -> Phases]
    BY DEF PromiseInv, BridgeInv, TypeOK
  <1>3. \A q \in Bridges : phase[q] \notin Alive
    BY <1>1, NoneRuns DEF PromiseInv
  <1>4. Promise!Running = {} /\ Lives[p] = "unborn"
    BY <1>1, <1>2, <1>3, LifeIs
  <1>5. Lives' = [Lives EXCEPT ![p] = "running"]
    <2>1. Life(p)' = "running"
      BY <1>1, <1>2 DEF Life, Alive
    <2>2. \A q \in Bridges \ {p} : Life(q)' = Life(q)
      BY <1>1, <1>2 DEF Life
    <2>3. QED
      BY <2>1, <2>2 DEF Lives
  <1>6. Served' = Served
    <2>1. \A q \in Bridges : phase[q] # "serving" /\ phase'[q] # "serving"
      BY <1>1, <1>2, <1>3 DEF Alive
    <2>2. QED
      BY <2>1 DEF Served, Reachable
  <1>7. Leftover' = Leftover /\ Stale' = Stale /\ scope_file' = scope_file
    BY <1>1 DEF Leftover, Stale, Overtaken, scopeVars, fileVars
  <1>8. Promise!Launches
    BY <1>1 DEF PromiseInv, LocalsInv, Promise!Launches, Busy
  <1>9. /\ (child # NoProcess) = FALSE /\ (child # NoProcess)' = TRUE
        /\ Busy' = Busy
    BY <1>1, NothingAssumption DEF PromiseInv, LocalsInv, Busy
  <1>10. Promise!Launch(p)
    BY <1>1, <1>4, <1>5, <1>6, <1>7, <1>8, <1>9 DEF Promise!Launch, Promise!copyVars
  <1>11. QED
    BY <1>10 DEF Promise!Next

\* The user's choice is saved while no bridge runs, and nothing was saved
\* since the scope was read.
LEMMA PromiseEdits ==
  ASSUME PromiseInv, PromiseInv', NEW enabled \in BOOLEAN, SaveScope(enabled)
  PROVE  [Promise!Next]_(Promise!vars)
  <1>1. /\ at = "save" /\ scope_file' = [loaded EXCEPT !.enabled = enabled]
        /\ UNCHANGED <<scopeVars, command>>
    BY DEF SaveScope
  <1>2. /\ phase \in [Bridges -> Phases] /\ restart \in BOOLEAN
        /\ command = "session-scope" /\ child = NoProcess /\ loaded = scope_file
        /\ \A q \in Bridges : phase[q] \notin Alive /\ scope[q] = NoScope
    BY <1>1 DEF PromiseInv, BridgeInv, TypeOK, LocalsInv, ScopeInv
  <1>3. \A q \in Bridges : phase'[q] = phase[q] \/ (phase[q] = "zombie" /\ phase'[q] = "gone")
    BY DEF SaveScope, GoesOn, Finish
  <1>4. Lives' = Lives /\ Served' = Served /\ Leftover' = Leftover
    BY <1>1, <1>3, PromiseSame
  <1>5. Stale' = Stale
    BY <1>1, <1>2 DEF Stale, Overtaken, scopeVars
  <1>6. Promise!Running = {}
    BY <1>2, LifeIs
  <1>7. IF restart THEN UNCHANGED Promise!commandVars ELSE Promise!Reports("nothing")
    <2>1. CASE restart
      BY <1>1, <2>1 DEF SaveScope, GoesOn, Promise!commandVars, Busy
    <2>2. CASE ~restart
      <3>1. Finish("nothing")
        BY <2>2 DEF SaveScope
      <3>2. Busy = "session-scope" /\ Busy' = "none"
        BY <1>1, <1>2, <3>1 DEF Finish, Busy
      <3>3. QED
        BY <2>2, <3>1, <3>2 DEF Finish, Promise!Reports, Promise!Honest
    <2>3. QED
      BY <2>1, <2>2
  <1>8. Promise!Edit(enabled)
    BY <1>1, <1>2, <1>4, <1>5, <1>6, <1>7 DEF Promise!Edit, Promise!copyVars, Busy
  <1>9. QED
    BY <1>8 DEF Promise!Next

LEMMA PromiseCommandStep ==
  ASSUME PromiseInv, PromiseInv', CommandStep
  PROVE  [Promise!Next]_(Promise!vars)
  <1> DEFINE Done == [Promise!Next]_(Promise!vars)
  <1>1. TypeOK /\ BridgeInv /\ LocalsInv
    BY DEF PromiseInv, BridgeInv
  <1>2. Promise!Running = {q \in Bridges : phase[q] \in Alive}
    BY <1>1, LifeIs DEF TypeOK
  <1>3. {"nothing", "started", "running", "stopped", "already stopped", "failed"} = Results
    BY DEF Results
  <1>4. {"check", "stop", "load"} \subseteq Steps \ {"idle"}
    BY DEF Steps
  <1>5. CASE Up
    BY <1>1, <1>4, <1>5, PromiseBegins DEF Up, Begin, LocalsInv, fileVars, TypeOK
  <1>6. CASE Down
    BY <1>1, <1>4, <1>6, PromiseBegins DEF Down, Begin, LocalsInv, fileVars, TypeOK
  <1>7. CASE SessionScope
    <2>1. PICK step \in {"stop", "load"} : Begin("session-scope", step)
      BY <1>7 DEF SessionScope
    <2>2. restart' = Running(pid_file) /\ UNCHANGED <<bridgeVars, scopeVars, scope_file, child>>
      BY <1>7 DEF SessionScope, fileVars
    <2>3. QED
      BY <1>4, <2>1, <2>2, PromiseBegins DEF Running
  <1>8. CASE UpCheck
    <2>1. at = "check" /\ UNCHANGED <<scopeVars, fileVars, command>>
      BY <1>8 DEF UpCheck
    <2>2. CASE Running(pid_file)
      <3>1. pid_file \in Promise!Running
        BY <1>1, <1>2, <2>2 DEF Running, TypeOK, SomeBridge
      <3>2. Promise!Honest("running")
        BY <1>1, <2>1, <3>1 DEF Promise!Honest, Promise!Launches, LocalsInv, Busy
      <3>3. QED
        BY <1>3, <1>8, <2>1, <2>2, <3>2, PromiseReports DEF UpCheck, fileVars
    <2>3. CASE ~Running(pid_file)
      BY <1>8, <2>1, <2>3, PromiseGoesOn DEF UpCheck, GoesOn, fileVars
    <2>4. QED
      BY <2>2, <2>3
  <1>9. CASE UpRefused \/ Abort
    <2>1. Promise!Honest("failed")
      BY DEF Promise!Honest
    <2>2. QED
      BY <1>3, <1>9, <2>1, PromiseReports DEF UpRefused, Abort, fileVars
  <1>10. ASSUME NEW p \in Bridges, Spawn(p)
         PROVE  Done
    BY <1>10, PromiseLaunches
  <1>11. CASE WritePid
    BY <1>11, PromiseGoesOn DEF WritePid, bridgeVars, fileVars
  <1>12. CASE UpWaits
    <2>1. at = "wait" /\ UNCHANGED <<scopeVars, fileVars>>
      BY <1>12 DEF UpWaits
    <2>2. child # NoProcess
      BY <1>1, <2>1, NothingAssumption DEF BridgeInv, CommandInv
    <2>3. Promise!Honest("started") /\ Promise!Honest("failed")
      BY <2>2 DEF Promise!Honest
    <2>4. PICK result \in {"started", "failed"} : Finish(result)
      BY <1>12 DEF UpWaits
    <2>5. QED
      BY <1>3, <2>1, <2>3, <2>4, PromiseReports DEF fileVars
  <1>13. ASSUME NEW result \in {"stopped", "already stopped"}, AfterStop(result),
                at \in {"stop", "cleanup"}, ~Running(pid_file), UNCHANGED <<scopeVars, fileVars, command>>
         PROVE  Done
    <2>1. CASE command = "down"
      <3>1. Promise!Running = {}
        BY <1>1, <1>2, <1>13, NoneRuns
      <3>2. Promise!Honest(result)
        BY <1>13, <2>1, <3>1 DEF Promise!Honest, Busy
      <3>3. QED
        BY <1>3, <1>13, <2>1, <3>2, PromiseReports DEF AfterStop, fileVars
    <2>2. CASE command # "down"
      BY <1>13, <2>2, PromiseGoesOn DEF AfterStop, GoesOn, fileVars
    <2>3. QED
      BY <2>1, <2>2
  <1>14. CASE NothingToStop
    BY <1>13, <1>14 DEF NothingToStop, Running
  <1>15. CASE Cleanup
    BY <1>1, <1>13, <1>15 DEF Cleanup, BridgeInv, CommandInv
  <1>16. CASE StopBridge
    <2>1. /\ at = "stop" /\ at' \in {"cleanup", "await_exit"}
          /\ UNCHANGED <<fileVars, command, restart, child, said>>
      BY <1>16 DEF StopBridge
    <2>2. UNCHANGED <<Promise!commandVars, scope_file>>
      BY <2>1 DEF Promise!commandVars, Busy, fileVars
    <2>3. (Running(pid_file) /\ Ends(pid_file)) \/ UNCHANGED <<phase, scopeVars>>
      BY <1>16 DEF StopBridge, DoesNotEnd, bridgeVars
    <2>4. CASE Running(pid_file) /\ Ends(pid_file)
      <3>1. pid_file \in Bridges /\ phase[pid_file] \in Alive
        BY <1>1, <2>4 DEF Running, TypeOK, SomeBridge
      <3>2. QED
        BY <2>2, <2>4, <3>1, PromiseEnds
    <2>5. CASE UNCHANGED <<phase, scopeVars>>
      BY <2>1, <2>5, PromiseGoesOn DEF fileVars
    <2>6. QED
      BY <2>3, <2>4, <2>5
  <1>17. CASE AwaitExit
    <2>1. /\ at = "await_exit" /\ at' = "cleanup"
          /\ UNCHANGED <<fileVars, command, restart, child, said>>
      BY <1>17 DEF AwaitExit
    <2>2. UNCHANGED <<Promise!commandVars, scope_file>>
      BY <2>1 DEF Promise!commandVars, Busy, fileVars
    <2>3. CASE Running(target)
      <3>1. target \in Bridges /\ phase[target] \in Alive
        BY <1>1, <2>3 DEF Running, TypeOK, SomeBridge
      <3>2. Ends(target)
        BY <1>17, <2>3 DEF AwaitExit
      <3>3. QED
        BY <2>2, <3>1, <3>2, PromiseEnds
    <2>4. CASE ~Running(target)
      <3>1. UNCHANGED <<phase, scopeVars>>
        BY <1>17, <2>4 DEF AwaitExit, DoesNotEnd, bridgeVars
      <3>2. QED
        BY <2>1, <3>1, PromiseGoesOn DEF fileVars
    <2>5. QED
      BY <2>3, <2>4
  <1>18. CASE LoadScope
    BY <1>18, PromiseGoesOn DEF LoadScope, bridgeVars, fileVars
  <1>19. ASSUME NEW enabled \in BOOLEAN, SaveScope(enabled)
         PROVE  Done
    BY <1>19, PromiseEdits
  <1>20. QED
    BY <1>5, <1>6, <1>7, <1>8, <1>9, <1>10, <1>11, <1>12, <1>14, <1>15, <1>16, <1>17, <1>18, <1>19 DEF CommandStep

LEMMA PromiseInit == Init => Promise!Init
  <1> SUFFICES ASSUME Init PROVE Promise!Init
    OBVIOUS
  <1>1. Lives = [p \in Bridges |-> "unborn"]
    <2>1. phase \in [Bridges -> Phases] /\ \A p \in Bridges : phase[p] = "unborn"
      BY DEF Init, Phases
    <2>2. \A p \in Bridges : Lives[p] = "unborn"
      BY <2>1, LifeIs
    <2>3. QED
      BY <2>2 DEF Lives
  <1>2. Served = {} /\ Busy = "none"
    BY DEF Init, Served, Reachable, Busy
  <1>3. Leftover = FALSE /\ Stale = FALSE
    BY DEF Init, Leftover, Stale, Overtaken
  <1>4. QED
    BY <1>1, <1>2, <1>3 DEF Init, Promise!Init

\* Every step of the bridges and of the commands is a step of ProfileBridge,
\* or one that it does not see: however signals, files and processes meet, a
\* profile has one bridge at a time, a command reports what is so, and no
\* writer overwrites the scope, unless a session of a lost connection goes on
\* (serve_multiplexed; up, down, session_scope).
THEOREM BridgeImplements == Spec => ImplementsProfileBridge
  <1>1. PromiseInv /\ PromiseInv' /\ [Next]_vars => [Promise!Next]_(Promise!vars)
    <2> SUFFICES ASSUME PromiseInv, PromiseInv', [Next]_vars PROVE [Promise!Next]_(Promise!vars)
      OBVIOUS
    <2>1. CASE UNCHANGED vars
      <3>1. Lives' = Lives /\ Served' = Served /\ Leftover' = Leftover /\ Stale' = Stale /\ Busy' = Busy
        BY <2>1 DEF vars, bridgeVars, scopeVars, runtimeVars, fileVars, commandVars,
                    Lives, Life, Served, Reachable, Leftover, Stale, Overtaken, Busy
      <3>2. QED
        BY <2>1, <3>1, PromiseQuiet DEF vars, commandVars, fileVars, Promise!commandVars
    <2>2. QED
      BY <2>1, PromiseBridgeStep, PromiseCommandStep DEF Next
  <1>2. QED
    BY <1>1, PromiseInit, PromiseInvariant, PTL DEF Spec, ImplementsProfileBridge, Promise!Spec
=============================================================================
