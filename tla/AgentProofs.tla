---------------------------- MODULE AgentProofs -----------------------------
(***************************************************************************)
(* Theorems of Agent for every number of agents: on Linux the agents of an *)
(* account exclude each other and a new one is always reachable, on macOS  *)
(* it is while no two have handled the files at once; on both platforms an *)
(* agent that ends by itself stops its Exec Server.                        *)
(***************************************************************************)
EXTENDS Agent, TLAPS

\* Past stopping the others.
Late == Replacing \cup Working \cup Dropping

\* Of two agents that have looked for others, one has yet to see the other gone.
StopInv ==
  /\ \A a \in Agents :
       /\ phase[a] \in {"await_victim", "kill_victim"} => target[a] \in victims[a]
       /\ phase[a] \in {"await_listener", "kill_listener"} => target[a] \in Agents
  /\ linux =>
       /\ \A a \in Agents : a \notin victims[a] /\ (phase[a] \in Late => victims[a] = {})
       /\ \A a, b \in Agents :
            /\ phase[a] \in Late \cup {"stop", "await_victim", "kill_victim"}
            /\ phase[b] \in Late \cup {"stop", "await_victim", "kill_victim"}
            => a = b \/ a \in victims[b] \/ b \in victims[a]

\* What the agent that is past stopping the others knows of the files.
FileInv ==
  linux =>
    /\ refused = {}
    /\ \A a \in Agents :
         /\ phase[a] \notin {"replace", "await_listener", "kill_listener"}
         /\ a \in listening => phase[a] \in {"guard", "write_pid"} \cup Working \cup Dropping
         /\ phase[a] = "unlink" => socket # NoAgent
         /\ phase[a] \in {"unlink_pid", "bind"} => socket = NoAgent
         /\ phase[a] \in {"guard", "write_pid"} \cup Working => socket = a
         /\ phase[a] \in Working => pid_file = a

AgentInv == TypeOK /\ StopInv /\ FileInv

-----------------------------------------------------------------------------
(* Types *)

USE DEF Goes, Alive

LEMMA InitTypeOK == Init => TypeOK
  BY DEF Init, TypeOK, SomeAgent, Phases

\* What the end of a process leaves.
LEMMA EndsType ==
  ASSUME TypeOK, NEW a \in Agents, Ends(a)
  PROVE  /\ phase' \in [Agents -> Phases]
         /\ UNCHANGED <<linux, exec, fileVars>> /\ killed' \subseteq Agents /\ refused' \subseteq Agents => TypeOK'
  BY DEF TypeOK, Ends, Closes, Phases, SomeAgent, fileVars

LEMMA TerminateType ==
  ASSUME TypeOK, NEW a \in Agents, NEW b \in Agents, NEW next \in Phases \ {"unborn", "gone"},
         Terminate(a, b, next), Alive(a), Alive(b), UNCHANGED <<linux, exec, fileVars, refused>>
  PROVE  TypeOK'
  <1>1. CASE b \in handled
    BY <1>1 DEF TypeOK, Terminate, SomeAgent, fileVars
  <1>2. CASE b \notin handled
    BY <1>2 DEF TypeOK, Terminate, Closes, Phases, SomeAgent, fileVars
  <1>3. QED
    BY <1>1, <1>2

LEMMA AwaitType ==
  ASSUME TypeOK, NEW a \in Agents, NEW kill \in Phases \ {"unborn", "gone"}, NEW next \in Phases \ {"unborn", "gone"},
         Await(a, kill, next), Alive(a), SameProcesses, UNCHANGED <<linux, guard, exec, fileVars, refused>>
  PROVE  TypeOK'
  BY DEF TypeOK, Await, SameProcesses, stopVars, fileVars, SomeAgent

LEMMA KillType ==
  ASSUME TypeOK, NEW a \in Agents, NEW next \in Phases \ {"unborn", "gone"},
         Kill(a, next), Alive(a), target[a] \in Agents, UNCHANGED <<linux, exec, fileVars, refused>>
  PROVE  TypeOK'
  <1>1. CASE Alive(target[a])
    BY <1>1 DEF TypeOK, Kill, Closes, Phases, SomeAgent, fileVars
  <1>2. CASE ~Alive(target[a])
    BY <1>2, EndsType DEF TypeOK, Kill
  <1>3. QED
    BY <1>1, <1>2

LEMMA TypeStep ==
  ASSUME TypeOK, StopInv, Next
  PROVE  TypeOK'
  <1> PICK a \in Agents : AgentStep(a) \/ Start(a) \/ LoseLink(a) \/ Crash(a) \/ ExecExits(a)
    BY DEF Next
  <1>p. Stopping \cup Replacing \cup Working \cup Dropping \cup {"gone"} \subseteq Phases
    BY DEF Phases
  <1>1. CASE Start(a)
    BY <1>1, <1>p DEF Start, TypeOK, stopVars, fileVars, Stopping, Replacing
  <1>2. CASE LoseLink(a)
    BY <1>2 DEF LoseLink, TypeOK, stopVars, fileVars
  <1>3. CASE Crash(a)
    <2>1. Ends(a) /\ UNCHANGED <<linux, exec, fileVars>> /\ killed' \subseteq Agents /\ refused' \subseteq Agents
      BY <1>3 DEF Crash, TypeOK
    <2>2. QED
      BY <2>1, EndsType
  <1>4. CASE ExecExits(a)
    BY <1>4 DEF ExecExits, TypeOK, processVars, stopVars, fileVars
  <1>5. CASE List(a)
    BY <1>5, <1>p DEF List, SameProcesses, TypeOK, fileVars, Stopping
  <1>6. ASSUME NEW b \in Agents, StopVictim(a, b)
        PROVE  TypeOK'
    <2>1. CASE Alive(b)
      BY <1>6, <2>1, <1>p, TerminateType DEF StopVictim, Stopping
    <2>2. CASE ~Alive(b)
      BY <1>6, <2>2 DEF StopVictim, TypeOK, processVars, fileVars
    <2>3. QED
      BY <2>1, <2>2
  <1>7. CASE AwaitVictim(a) \/ AwaitListener(a)
    BY <1>7, <1>p, AwaitType DEF AwaitVictim, AwaitListener, Stopping, Replacing
  <1>8. ASSUME NEW from \in Phases \ {"unborn", "gone"}, NEW to \in Phases \ {"unborn", "gone"}, OnlyGoes(a, from, to)
        PROVE  TypeOK'
    BY <1>8 DEF OnlyGoes, SameProcesses, TypeOK, stopVars, fileVars
  <1>9. CASE VictimsStopped(a)
    BY <1>9, <1>p DEF VictimsStopped, SameProcesses, TypeOK, stopVars, fileVars, Replacing
  <1>10. CASE Inspect(a) \/ SocketExists(a) \/ DropPid(a)
    BY <1>8, <1>10, <1>p DEF Inspect, SocketExists, DropPid, Replacing, Dropping
  <1>11. ASSUME Refuse(a)
         PROVE  TypeOK'
    <2>1. Ends(a) /\ UNCHANGED <<linux, exec, fileVars>> /\ killed' \subseteq Agents /\ refused' \subseteq Agents
      BY <1>11 DEF Refuse, TypeOK
    <2>2. QED
      BY <2>1, EndsType
  <1>12. CASE Replace(a)
    <2>1. CASE ActiveAgent # NoAgent /\ Alive(ActiveAgent)
      <3>1. ActiveAgent \in Agents
        BY <2>1 DEF ActiveAgent, TypeOK, SomeAgent
      <3>2. QED
        BY <1>12, <2>1, <3>1, <1>p, TerminateType DEF Replace, Replacing
    <2>2. QED
      BY <1>11, <1>12, <2>1 DEF Replace
  <1>13. CASE KillVictim(a) \/ KillListener(a)
    <2>1. target[a] \in Agents
      BY <1>13 DEF KillVictim, KillListener, StopInv, TypeOK
    <2>2. QED
      BY <1>13, <2>1, <1>p, KillType DEF KillVictim, KillListener, Stopping, Replacing
  <1>14. CASE Unlink(a)
    BY <1>11, <1>14, <1>p DEF Unlink, SameProcesses, TypeOK, stopVars, Replacing, SomeAgent
  <1>15. CASE UnlinkPid(a)
    BY <1>15, <1>p DEF UnlinkPid, SameProcesses, TypeOK, stopVars, Replacing, SomeAgent
  <1>16. CASE Bind(a)
    <2>1. CASE socket # NoAgent
      BY <1>11, <1>16, <2>1 DEF Bind
    <2>2. CASE socket = NoAgent
      BY <1>16, <2>2, <1>p DEF Bind, Crosses, TypeOK, stopVars, Replacing, SomeAgent
    <2>3. QED
      BY <2>1, <2>2
  <1>17. CASE NoteSocket(a)
    BY <1>11, <1>17, <1>p DEF NoteSocket, SameProcesses, TypeOK, stopVars, fileVars, Replacing
  <1>18. CASE WritePid(a)
    BY <1>18, <1>p DEF WritePid, SameProcesses, Crosses, TypeOK, stopVars, Working, SomeAgent
  <1>19. CASE Hello(a)
    BY <1>8, <1>19, <1>p DEF Hello, Working, Dropping
  <1>20. CASE SpawnExec(a)
    BY <1>20, <1>p DEF SpawnExec, SameProcesses, StopsListening, TypeOK, stopVars, fileVars, Working, Dropping
  <1>21. CASE ExecStarted(a)
    BY <1>21, <1>p DEF ExecStarted, StopsListening, TypeOK, stopVars, fileVars, Working, Dropping
  <1>22. CASE StopServing(a)
    BY <1>22, <1>p DEF StopServing, StopsListening, TypeOK, stopVars, fileVars, Working
  <1>23. CASE StopExec(a)
    BY <1>23, <1>p DEF StopExec, SameProcesses, TypeOK, stopVars, fileVars, Dropping
  <1>24. CASE UnlinkOwnPid(a)
    BY <1>24, <1>p DEF UnlinkOwnPid, SameProcesses, TypeOK, stopVars, Dropping, SomeAgent
  <1>25. CASE DropSocket(a)
    <2>1. CASE socket = guard[a]
      BY <1>8, <1>25, <2>1, <1>p DEF DropSocket, Dropping
    <2>2. CASE socket # guard[a]
      <3>1. Ends(a) /\ UNCHANGED <<linux, exec, fileVars>> /\ killed' \subseteq Agents /\ refused' \subseteq Agents
        BY <1>25, <2>2 DEF DropSocket, TypeOK
      <3>2. QED
        BY <3>1, EndsType
    <2>3. QED
      BY <2>1, <2>2
  <1>26. CASE UnlinkOwnSocket(a)
    BY <1>26 DEF UnlinkOwnSocket, Ends, Closes, TypeOK, Phases, SomeAgent
  <1>27. QED
    BY <1>1, <1>2, <1>3, <1>4, <1>5, <1>6, <1>7, <1>9, <1>10, <1>12, <1>13, <1>14, <1>15, <1>16, <1>17, <1>18,
       <1>19, <1>20, <1>21, <1>22, <1>23, <1>24, <1>25, <1>26 DEF AgentStep

-----------------------------------------------------------------------------
(* Stopping *)

\* A step of one agent that works on the files or serves, and ends of agents.
LEMMA StopInvKept ==
  ASSUME TypeOK, TypeOK', StopInv, NEW a \in Agents, linux' = linux,
         phase[a] \in Late => phase'[a] \in Late \cup {"gone"},
         phase'[a] \in {"await_listener", "kill_listener"} => target'[a] \in Agents,
         phase'[a] # "gone" /\ phase'[a] \notin Late => phase'[a] = phase[a] /\ target'[a] = target[a],
         phase'[a] \in Late => phase[a] \in Late,
         phase'[a] = "gone" \/ victims'[a] = victims[a] \/ (phase'[a] \in Late /\ victims'[a] \subseteq victims[a]),
         phase'[a] = "gone" => victims'[a] = {},
         \A b \in Agents \ {a} :
           \/ phase'[b] = phase[b] /\ victims'[b] = victims[b] /\ target'[b] = target[b]
           \/ phase'[b] = "gone" /\ victims'[b] = {}
  PROVE  StopInv'
  BY DEF StopInv, Late, Replacing, Working, Dropping

LEMMA StopStep ==
  ASSUME TypeOK, TypeOK', StopInv, Next
  PROVE  StopInv'
  <1> PICK a \in Agents : AgentStep(a) \/ Start(a) \/ LoseLink(a) \/ Crash(a) \/ ExecExits(a)
    BY DEF Next
  <1>1. CASE Start(a)
    BY <1>1 DEF Start, StopInv, TypeOK, stopVars, Late, Replacing, Working, Dropping
  <1>2. CASE LoseLink(a) \/ ExecExits(a)
    BY <1>2 DEF LoseLink, ExecExits, StopInv, stopVars, processVars
  <1>3. CASE Crash(a)
    BY <1>3, StopInvKept DEF Crash, Ends, TypeOK, Late, Replacing, Working, Dropping
  <1>4. CASE List(a)
    BY <1>4 DEF List, StopInv, TypeOK, Late, Replacing, Working, Dropping
  <1>5. ASSUME NEW b \in Agents, StopVictim(a, b)
        PROVE  StopInv'
    <2>1. CASE Alive(b)
      BY <1>5, <2>1 DEF StopVictim, Terminate, StopInv, TypeOK, Late, Replacing, Working, Dropping
    <2>2. CASE ~Alive(b)
      BY <1>5, <2>2 DEF StopVictim, processVars, StopInv, TypeOK, Late, Replacing, Working, Dropping
    <2>3. QED
      BY <2>1, <2>2
  <1>e. ASSUME Ends(a), linux' = linux
        PROVE  StopInv'
    BY <1>e, StopInvKept DEF Ends, TypeOK, Late, Replacing, Working, Dropping
  <1>6. CASE AwaitVictim(a) \/ KillVictim(a)
    <2>1. target[a] \in victims[a] /\ target[a] \in Agents
      BY <1>6 DEF AwaitVictim, KillVictim, StopInv, TypeOK
    <2>2. CASE AwaitVictim(a) /\ Alive(target[a])
      BY <2>1, <2>2 DEF AwaitVictim, Await, StopInv, TypeOK, stopVars, Late, Replacing, Working, Dropping
    <2>3. CASE AwaitVictim(a) /\ ~Alive(target[a])
      BY <2>1, <2>3 DEF AwaitVictim, Await, StopInv, TypeOK, Late, Replacing, Working, Dropping
    <2>4. CASE KillVictim(a) /\ Alive(target[a])
      BY <2>1, <2>4 DEF KillVictim, Kill, StopInv, TypeOK, Late, Replacing, Working, Dropping
    <2>5. CASE KillVictim(a) /\ ~Alive(target[a])
      BY <1>e, <2>5 DEF KillVictim, Kill
    <2>6. QED
      BY <1>6, <2>2, <2>3, <2>4, <2>5
  <1>7. CASE VictimsStopped(a)
    BY <1>7 DEF VictimsStopped, StopInv, TypeOK, stopVars, Late, Replacing, Working, Dropping
  <1>8. ASSUME NEW from \in Late, NEW to \in Late \ {"await_listener", "kill_listener"},
                OnlyGoes(a, from, to) \/ (Goes(a, from, to) /\ UNCHANGED <<linux, stopVars>>)
        PROVE  StopInv'
    BY <1>8, StopInvKept DEF OnlyGoes, TypeOK, stopVars, Late, Replacing, Working, Dropping
  <1>l. (Replacing \cup Working \cup Dropping) \subseteq Late
    BY DEF Late
  <1>10. CASE Inspect(a) \/ SocketExists(a) \/ DropPid(a) \/ Hello(a)
    BY <1>8, <1>10, <1>l DEF Inspect, SocketExists, DropPid, Hello, Replacing, Working, Dropping
  <1>11. CASE Replace(a)
    <2>1. CASE ActiveAgent # NoAgent /\ Alive(ActiveAgent)
      <3>1. ActiveAgent \in Agents
        BY <2>1 DEF ActiveAgent, TypeOK, SomeAgent
      <3>2. QED
        BY <1>11, <2>1, <3>1, StopInvKept DEF Replace, Terminate, TypeOK, Late, Replacing, Working, Dropping
    <2>2. QED
      BY <1>e, <1>11, <2>1 DEF Replace, Refuse
  <1>12. CASE AwaitListener(a) \/ KillListener(a)
    <2>1. target[a] \in Agents
      BY <1>12 DEF AwaitListener, KillListener, StopInv
    <2>2. CASE AwaitListener(a)
      BY <2>1, <2>2, StopInvKept DEF AwaitListener, Await, TypeOK, stopVars, Late, Replacing, Working, Dropping
    <2>3. CASE KillListener(a) /\ Alive(target[a])
      BY <2>1, <2>3, StopInvKept DEF KillListener, Kill, TypeOK, Late, Replacing, Working, Dropping
    <2>4. CASE KillListener(a) /\ ~Alive(target[a])
      BY <1>e, <2>4 DEF KillListener, Kill
    <2>5. QED
      BY <1>12, <2>2, <2>3, <2>4
  <1>13. CASE Unlink(a) \/ Bind(a) \/ NoteSocket(a)
    BY <1>8, <1>e, <1>13, <1>l DEF Unlink, Bind, NoteSocket, Refuse, Replacing, stopVars
  <1>14. CASE UnlinkPid(a) \/ WritePid(a) \/ UnlinkOwnPid(a)
    BY <1>8, <1>14, <1>l DEF UnlinkPid, WritePid, UnlinkOwnPid, Replacing, Working, Dropping, stopVars
  <1>15. CASE SpawnExec(a) \/ ExecStarted(a) \/ StopServing(a) \/ StopExec(a)
    BY <1>8, <1>15, <1>l DEF SpawnExec, ExecStarted, StopServing, StopExec, StopsListening, Working, Dropping, stopVars
  <1>16. CASE DropSocket(a)
    BY <1>8, <1>e, <1>16, <1>l DEF DropSocket, Dropping
  <1>17. CASE UnlinkOwnSocket(a)
    BY <1>e, <1>17 DEF UnlinkOwnSocket
  <1>18. QED
    BY <1>1, <1>2, <1>3, <1>4, <1>5, <1>6, <1>7, <1>10, <1>11, <1>12, <1>13, <1>14, <1>15, <1>16, <1>17 DEF AgentStep

-----------------------------------------------------------------------------
(* Files *)

\* The agent that is past stopping the others is alone.
LEMMA Alone ==
  ASSUME StopInv, linux, NEW a \in Agents, NEW b \in Agents, phase[a] \in Late, phase[b] \in Late
  PROVE  a = b
  BY DEF StopInv

\* No step but those of the agent itself touches what it knows of the files.
LEMMA FileInvKept ==
  ASSUME TypeOK, StopInv, FileInv, NEW a \in Agents, linux' = linux, UNCHANGED <<socket, pid_file, refused>>,
         phase'[a] \notin Late,
         listening' \subseteq listening \ {a},
         \A b \in Agents \ {a} : phase'[b] \in {phase[b], "gone"} /\ (phase'[b] = "gone" => b \notin listening')
  PROVE  FileInv'
  BY DEF FileInv, Late, Replacing, Working, Dropping

\* A step of the agent that is past stopping the others.
LEMMA LateStep ==
  ASSUME TypeOK, StopInv, FileInv, linux, linux' = linux, NEW a \in Agents, phase[a] \in Late, refused' = {},
         \A b \in Agents \ {a} : phase'[b] = phase[b] /\ (b \in listening' => b \in listening),
         phase'[a] \notin {"replace", "await_listener", "kill_listener"},
         a \in listening' => phase'[a] \in {"guard", "write_pid"} \cup Working \cup Dropping,
         phase'[a] = "unlink" => socket' # NoAgent,
         phase'[a] \in {"unlink_pid", "bind"} => socket' = NoAgent,
         phase'[a] \in {"guard", "write_pid"} \cup Working => socket' = a,
         phase'[a] \in Working => pid_file' = a
  PROVE  FileInv'
  <1>1. \A b \in Agents \ {a} : phase[b] \notin Late
    BY Alone
  <1>2. QED
    BY <1>1 DEF FileInv, Late, Replacing, Working, Dropping

LEMMA FileStep ==
  ASSUME TypeOK, TypeOK', StopInv, FileInv, Next
  PROVE  FileInv'
  <1> PICK a \in Agents : AgentStep(a) \/ Start(a) \/ LoseLink(a) \/ Crash(a) \/ ExecExits(a)
    BY DEF Next
  <1>0. linux' = linux
    BY DEF AgentStep, Start, LoseLink, Crash, ExecExits, List, StopVictim, AwaitVictim, VictimsStopped, Inspect,
           Replace, Refuse, AwaitListener, KillListener, KillVictim, SocketExists, Unlink, UnlinkPid, Bind, NoteSocket, WritePid, Hello,
           SpawnExec, ExecStarted, StopServing, StopExec, DropPid, UnlinkOwnPid, DropSocket, UnlinkOwnSocket,
           OnlyGoes, StopsListening
  <1> SUFFICES ASSUME linux PROVE FileInv'
    BY <1>0 DEF FileInv
  <1>l. Late = Replacing \cup Working \cup Dropping
    BY DEF Late
  <1>1. CASE Start(a)
    BY <1>1 DEF Start, FileInv, TypeOK, fileVars, Working, Dropping
  <1>2. CASE LoseLink(a) \/ ExecExits(a)
    BY <1>2 DEF LoseLink, ExecExits, FileInv, fileVars, processVars
  <1>3. CASE Crash(a)
    BY <1>3, FileInvKept DEF Crash, Ends, Closes, TypeOK, fileVars, Late, Replacing, Working, Dropping
  <1>4. CASE List(a)
    BY <1>4 DEF List, SameProcesses, FileInv, TypeOK, fileVars, Working, Dropping
  <1>5. ASSUME NEW b \in Agents, StopVictim(a, b)
        PROVE  FileInv'
    BY <1>5 DEF StopVictim, Terminate, Closes, processVars, FileInv, TypeOK, fileVars, Working, Dropping
  <1>6. CASE AwaitVictim(a)
    BY <1>6 DEF AwaitVictim, Await, SameProcesses, FileInv, TypeOK, fileVars, Working, Dropping
  <1>k. CASE KillVictim(a)
    BY <1>k DEF KillVictim, Kill, Ends, Closes, FileInv, TypeOK, fileVars, Working, Dropping
  <1>7. CASE VictimsStopped(a)
    BY <1>7 DEF VictimsStopped, SameProcesses, FileInv, TypeOK, fileVars, Working, Dropping
  <1>8. CASE Inspect(a)
    <2>1. phase[a] = "inspect" /\ a \notin listening
      BY <1>8 DEF Inspect, OnlyGoes, FileInv, Working, Dropping
    <2>2. socket \notin listening
      BY <2>1, Alone DEF FileInv, TypeOK, Late, Replacing, Working, Dropping
    <2>3. QED
      BY <1>8, <2>1, <2>2, LateStep DEF Inspect, OnlyGoes, SameProcesses, FileInv, TypeOK, fileVars, Late, Replacing, Working
  <1>9. ~Replace(a) /\ ~AwaitListener(a) /\ ~KillListener(a)
    BY DEF Replace, AwaitListener, KillListener, FileInv
  <1>10. CASE SocketExists(a)
    BY <1>10, LateStep DEF SocketExists, OnlyGoes, SameProcesses, FileInv, TypeOK, fileVars, Late, Replacing, Working, Dropping
  <1>11. CASE Unlink(a)
    BY <1>11, LateStep DEF Unlink, SameProcesses, FileInv, TypeOK, Late, Replacing, Working, Dropping
  <1>12. CASE UnlinkPid(a)
    BY <1>12, LateStep DEF UnlinkPid, SameProcesses, FileInv, TypeOK, Late, Replacing, Working, Dropping
  <1>13. CASE Bind(a)
    BY <1>13, LateStep DEF Bind, FileInv, TypeOK, Late, Replacing, Working, Dropping
  <1>14. CASE NoteSocket(a)
    BY <1>14, LateStep, NoAgentAssumption DEF NoteSocket, SameProcesses, FileInv, TypeOK, fileVars, Late, Replacing, Working, Dropping
  <1>15. CASE WritePid(a)
    BY <1>15, LateStep DEF WritePid, SameProcesses, FileInv, TypeOK, Late, Replacing, Working, Dropping
  <1>16. CASE Hello(a)
    BY <1>16, LateStep DEF Hello, OnlyGoes, SameProcesses, FileInv, TypeOK, fileVars, Late, Replacing, Working, Dropping
  <1>17. CASE SpawnExec(a)
    BY <1>17, LateStep DEF SpawnExec, SameProcesses, StopsListening, FileInv, TypeOK, fileVars, Late, Replacing, Working, Dropping
  <1>18. CASE ExecStarted(a)
    BY <1>18, LateStep DEF ExecStarted, StopsListening, FileInv, TypeOK, fileVars, Late, Replacing, Working, Dropping
  <1>19. CASE StopServing(a)
    BY <1>19, LateStep DEF StopServing, StopsListening, FileInv, TypeOK, fileVars, Late, Replacing, Working, Dropping
  <1>20. CASE StopExec(a)
    BY <1>20, LateStep DEF StopExec, SameProcesses, FileInv, TypeOK, fileVars, Late, Replacing, Working, Dropping
  <1>21. CASE DropPid(a)
    BY <1>21, LateStep DEF DropPid, OnlyGoes, SameProcesses, FileInv, TypeOK, fileVars, Late, Replacing, Working, Dropping
  <1>22. CASE UnlinkOwnPid(a)
    BY <1>22, LateStep DEF UnlinkOwnPid, SameProcesses, FileInv, TypeOK, Late, Replacing, Working, Dropping
  <1>23. CASE DropSocket(a)
    BY <1>23, LateStep DEF DropSocket, OnlyGoes, Ends, Closes, SameProcesses, FileInv, TypeOK, fileVars, Late, Replacing, Working, Dropping
  <1>24. CASE UnlinkOwnSocket(a)
    BY <1>24, LateStep DEF UnlinkOwnSocket, Ends, Closes, FileInv, TypeOK, Late, Replacing, Working, Dropping
  <1>25. QED
    BY <1>1, <1>2, <1>3, <1>4, <1>5, <1>6, <1>k, <1>7, <1>8, <1>9, <1>10, <1>11, <1>12, <1>13, <1>14, <1>15, <1>16,
       <1>17, <1>18, <1>19, <1>20, <1>21, <1>22, <1>23, <1>24 DEF AgentStep

-----------------------------------------------------------------------------
(* The files on macOS *)

\* Has bound its socket and listens.
Listening == {"guard", "write_pid", "hello", "spawn", "startup", "serving"}

\* Is about to remove a file that it has found.
Clearing == {"remove", "unlink", "unlink_pid", "unlink_own_pid", "unlink_own_socket"}

\* Where no two agents have handled the files at once, the one that listens has
\* both files, or the socket and no pid file yet; nobody is about to remove
\* them but one that waits for it to end first.
MacInv ==
  ~linux /\ ~crossed =>
    \A a \in Agents :
      /\ phase[a] \in {"write_pid"} \cup Working \cup Dropping => guard[a] = a
      /\ phase[a] \in Listening =>
           /\ socket = a /\ a \in listening
           /\ pid_file = (IF phase[a] \in {"guard", "write_pid"} THEN NoAgent ELSE a)
           /\ \A b \in Agents :
                /\ phase[b] \notin Clearing
                /\ phase[b] \in {"await_listener", "kill_listener"} => target[b] = a

\* A step of a that changes neither file and ends other agents at most.
LEMMA MacKept ==
  ASSUME TypeOK, MacInv, NEW a \in Agents, UNCHANGED <<linux, socket, pid_file, crossed>>,
         \A b \in Agents : phase'[b] \in Listening => b \in listening' \/ b \notin listening,
         \A b \in Agents \ {a} : \/ phase'[b] = "gone"
                                 \/ phase'[b] = phase[b] /\ guard'[b] = guard[b] /\ target'[b] = target[b],
         phase'[a] \in {"write_pid"} \cup Working \cup Dropping => guard'[a] = a \/ linux \/ crossed,
         phase'[a] \in Listening =>
           /\ phase[a] \in Listening
           /\ phase'[a] \in {"guard", "write_pid"} <=> phase[a] \in {"guard", "write_pid"},
         ~linux /\ ~crossed /\ phase'[a] \in Clearing =>
           \A b \in Agents \ {a} : phase[b] \in Listening => phase'[b] = "gone",
         ~linux /\ ~crossed /\ phase'[a] \in {"await_listener", "kill_listener"} =>
           \A b \in Agents \ {a} : phase[b] \in Listening => phase'[b] = "gone" \/ target'[a] = b
  PROVE  MacInv'
  <1> SUFFICES ASSUME ~linux, ~crossed PROVE MacInv'
    BY DEF MacInv
  <1>1. \A b \in Agents : phase'[b] \in Listening =>
          /\ phase[b] \in Listening
          /\ phase'[b] \in {"guard", "write_pid"} <=> phase[b] \in {"guard", "write_pid"}
    BY DEF Listening
  <1>2. "gone" \notin Clearing \cup {"write_pid"} \cup Working \cup Dropping
    BY DEF Clearing, Working, Dropping
  <1>3. \A b, c \in Agents : phase'[b] \in Listening /\ phase'[c] \in Clearing => FALSE
    <2>1. Clearing \cap Listening = {} /\ "gone" \notin Listening
      BY DEF Clearing, Listening
    <2>2. QED
      BY <1>1, <1>2, <2>1 DEF MacInv
  <1>4. QED
    BY <1>1, <1>2, <1>3 DEF MacInv, Listening, Clearing, Working, Dropping

LEMMA MacStep ==
  ASSUME TypeOK, StopInv, MacInv, Next
  PROVE  MacInv'
  <1> PICK a \in Agents : AgentStep(a) \/ Start(a) \/ LoseLink(a) \/ Crash(a) \/ ExecExits(a)
    BY DEF Next
  <1> USE DEF TypeOK
  <1>s. /\ Listening \cap (Clearing \cup Dropping \cup {"unborn", "gone", "await_listener", "kill_listener"}) = {}
        /\ Listening \subseteq {"guard", "write_pid"} \cup Working
    BY DEF Listening, Clearing, Working, Dropping
  <1>1. CASE Start(a)
    BY <1>1, MacKept DEF Start, stopVars, fileVars, Listening, Clearing, Working, Dropping
  <1>2. CASE LoseLink(a) \/ ExecExits(a)
    BY <1>2, MacKept DEF LoseLink, ExecExits, processVars, stopVars, fileVars, MacInv
  <1>e. ASSUME Ends(a), UNCHANGED <<linux, socket, pid_file, crossed>>
        PROVE  MacInv'
    BY <1>e, MacKept DEF Ends, Closes, Listening, Clearing, Working, Dropping
  <1>3. CASE Crash(a)
    BY <1>3, <1>e DEF Crash, fileVars
  <1>4. CASE List(a) \/ VictimsStopped(a)
    BY <1>4, MacKept DEF List, VictimsStopped, SameProcesses, stopVars, fileVars, Listening, Clearing, Working, Dropping
  <1>5. ASSUME NEW b \in Agents, StopVictim(a, b)
        PROVE  MacInv'
    <2>1. CASE Alive(b)
      BY <1>5, <2>1, MacKept DEF StopVictim, Terminate, Closes, fileVars, Listening, Clearing, Working, Dropping
    <2>2. CASE ~Alive(b)
      BY <1>5, <2>2, MacKept DEF StopVictim, processVars, fileVars, MacInv
    <2>3. QED
      BY <2>1, <2>2
  <1>6. CASE AwaitVictim(a)
    BY <1>6, MacKept DEF AwaitVictim, Await, SameProcesses, stopVars, fileVars, Listening, Clearing, Working, Dropping
  <1>7. CASE KillVictim(a)
    <2>1. target[a] \in Agents
      BY <1>7 DEF KillVictim, StopInv
    <2>2. CASE Alive(target[a])
      BY <1>7, <2>1, <2>2, MacKept DEF KillVictim, Kill, Closes, fileVars, Listening, Clearing, Working, Dropping
    <2>3. QED
      BY <1>e, <1>7, <2>2 DEF KillVictim, Kill, fileVars
  <1>8. CASE Inspect(a)
    <2>1. ~linux /\ ~crossed /\ phase'[a] \in Clearing => \A b \in Agents : phase[b] \notin Listening
      BY <1>8, NoAgentAssumption DEF Inspect, OnlyGoes, MacInv, Clearing
    <2>2. QED
      BY <1>8, <2>1, MacKept DEF Inspect, OnlyGoes, SameProcesses, stopVars, fileVars, Listening, Working, Dropping
  <1>9. CASE Replace(a)
    <2>1. CASE ActiveAgent # NoAgent /\ Alive(ActiveAgent)
      <3>1. ActiveAgent \in Agents
        BY <2>1 DEF ActiveAgent, SomeAgent
      <3>2. ~linux /\ ~crossed => \A b \in Agents : phase[b] \in Listening => ActiveAgent = b
        BY <2>1 DEF ActiveAgent, MacInv
      <3>3. QED
        BY <1>9, <2>1, <3>1, <3>2, MacKept DEF Replace, Terminate, Closes, fileVars, Listening, Clearing, Working, Dropping
    <2>2. QED
      BY <1>e, <1>9, <2>1 DEF Replace, Refuse, fileVars
  <1>10. CASE AwaitListener(a)
    BY <1>10, MacKept DEF AwaitListener, Await, SameProcesses, stopVars, fileVars, MacInv, Listening, Clearing, Working, Dropping
  <1>11. CASE KillListener(a)
    <2>1. target[a] \in Agents
      BY <1>11 DEF KillListener, StopInv
    <2>2. CASE Alive(target[a])
      BY <1>11, <2>1, <2>2, MacKept DEF KillListener, Kill, Closes, fileVars, MacInv, Listening, Clearing, Working, Dropping
    <2>3. QED
      BY <1>e, <1>11, <2>2 DEF KillListener, Kill, fileVars
  <1>12. CASE SocketExists(a)
    BY <1>12, MacKept DEF SocketExists, OnlyGoes, SameProcesses, stopVars, fileVars, MacInv, Listening, Clearing, Working, Dropping
  <1>n. ASSUME phase[a] \in Clearing, ~linux, ~crossed
        PROVE  \A b \in Agents : phase[b] \notin Listening
    BY <1>n DEF MacInv
  <1>13. CASE Unlink(a)
    <2>1. CASE socket # NoAgent
      BY <1>13, <1>n, <2>1 DEF Unlink, SameProcesses, stopVars, MacInv, Listening, Clearing, Working, Dropping
    <2>2. QED
      BY <1>e, <1>13, <2>1 DEF Unlink, Refuse, fileVars
  <1>14. CASE UnlinkPid(a)
    BY <1>14, <1>n DEF UnlinkPid, SameProcesses, stopVars, MacInv, Listening, Clearing, Working, Dropping
  <1>15. CASE Bind(a)
    <2>1. CASE socket = NoAgent
      <3> SUFFICES ASSUME ~linux', ~crossed' PROVE MacInv'
        BY DEF MacInv
      <3>1. /\ ~linux /\ ~crossed /\ pid_file = NoAgent /\ pid_file' = NoAgent /\ \A b \in Agents \ {a} : ~Removing(b)
            /\ phase[a] = "bind" /\ phase' = [phase EXCEPT ![a] = "guard"] /\ socket' = a
            /\ listening' = listening \cup {a} /\ guard' = guard /\ target' = target
        BY <1>15, <2>1 DEF Bind, Crosses, stopVars
      <3>2. \A b \in Agents : phase[b] \notin Listening
        BY <2>1, <3>1, NoAgentAssumption DEF MacInv
      <3>3. QED
        BY <3>1, <3>2 DEF MacInv, Removing, Listening, Clearing, Working, Dropping
    <2>2. QED
      BY <1>e, <1>15, <2>1 DEF Bind, Refuse, fileVars
  <1>16. CASE NoteSocket(a)
    <2>1. CASE socket # NoAgent
      BY <1>16, <2>1, MacKept DEF NoteSocket, SameProcesses, stopVars, fileVars, MacInv, Listening, Clearing, Working, Dropping
    <2>2. QED
      BY <1>e, <1>16, <2>1 DEF NoteSocket, Refuse, fileVars
  <1>17. CASE WritePid(a)
    <2> SUFFICES ASSUME ~linux', ~crossed' PROVE MacInv'
      BY DEF MacInv
    <2>1. /\ ~linux /\ ~crossed /\ pid_file' = a /\ \A b \in Agents \ {a} : ~Removing(b)
          /\ phase[a] = "write_pid" /\ phase' = [phase EXCEPT ![a] = "hello"]
          /\ UNCHANGED <<socket, listening, guard, target>>
      BY <1>17 DEF WritePid, Crosses, SameProcesses, stopVars
    <2>2. \A b \in Agents : phase[b] \in Listening => b = a
      BY <2>1 DEF MacInv, Listening
    <2>3. QED
      BY <2>1, <2>2 DEF MacInv, Removing, Listening, Clearing, Working, Dropping
  <1>18. CASE Hello(a)
    BY <1>18, MacKept DEF Hello, OnlyGoes, SameProcesses, stopVars, fileVars, MacInv, Listening, Clearing, Working, Dropping
  <1>19. CASE SpawnExec(a)
    BY <1>19, MacKept DEF SpawnExec, SameProcesses, StopsListening, stopVars, fileVars, MacInv, Listening, Clearing, Working, Dropping
  <1>20. CASE ExecStarted(a)
    BY <1>20, MacKept DEF ExecStarted, StopsListening, stopVars, fileVars, MacInv, Listening, Clearing, Working, Dropping
  <1>21. CASE StopServing(a)
    BY <1>21, MacKept DEF StopServing, StopsListening, stopVars, fileVars, MacInv, Listening, Clearing, Working, Dropping
  <1>22. CASE StopExec(a)
    BY <1>22, MacKept DEF StopExec, SameProcesses, stopVars, fileVars, MacInv, Listening, Clearing, Working, Dropping
  <1>23. CASE DropPid(a)
    <2>1. ~linux /\ ~crossed /\ pid_file = a => \A b \in Agents \ {a} : phase[b] \notin Listening
      BY NoAgentAssumption DEF MacInv
    <2>2. QED
      BY <1>23, <2>1, MacKept DEF DropPid, OnlyGoes, SameProcesses, stopVars, fileVars, MacInv, Listening, Clearing, Working, Dropping
  <1>24. CASE UnlinkOwnPid(a)
    BY <1>24, <1>n DEF UnlinkOwnPid, SameProcesses, stopVars, MacInv, Listening, Clearing, Working, Dropping
  <1>25. CASE DropSocket(a)
    <2>1. ~linux /\ ~crossed => guard[a] = a
      BY <1>25 DEF DropSocket, OnlyGoes, MacInv, Dropping
    <2>2. CASE socket = guard[a]
      BY <1>25, <2>1, <2>2, MacKept DEF DropSocket, OnlyGoes, SameProcesses, stopVars, fileVars, MacInv, Listening, Clearing, Working, Dropping
    <2>3. QED
      BY <1>e, <1>25, <2>2 DEF DropSocket, fileVars
  <1>26. CASE UnlinkOwnSocket(a)
    BY <1>26, <1>n DEF UnlinkOwnSocket, Ends, Closes, MacInv, Listening, Clearing, Working, Dropping
  <1>27. QED
    BY <1>1, <1>2, <1>3, <1>4, <1>5, <1>6, <1>7, <1>8, <1>9, <1>10, <1>11, <1>12, <1>13, <1>14, <1>15, <1>16, <1>17,
       <1>18, <1>19, <1>20, <1>21, <1>22, <1>23, <1>24, <1>25, <1>26 DEF AgentStep
-----------------------------------------------------------------------------
(* Theorems *)

\* The invariant: types, the order in which agents see each other gone, and
\* the files of the one that is left.
THEOREM AgentInvariant == Spec => []AgentInv
  <1>1. Init => AgentInv
    BY InitTypeOK DEF Init, AgentInv, StopInv, FileInv, Late, Replacing, Working, Dropping
  <1>2. AgentInv /\ Next => AgentInv'
    BY TypeStep, StopStep, FileStep DEF AgentInv
  <1>3. AgentInv /\ UNCHANGED vars => AgentInv'
    BY DEF AgentInv, TypeOK, StopInv, FileInv, vars, processVars, stopVars, fileVars
  <1>4. QED
    BY <1>1, <1>2, <1>3, PTL DEF Spec

\* Every state has the types TypeOK gives; what has ended has no listener, no
\* handler and no ssh connection.
THEOREM AgentTypeOK == Spec => []TypeOK
  <1>1. AgentInv => TypeOK
    BY DEF AgentInv
  <1>2. QED
    BY <1>1, AgentInvariant, PTL

\* On Linux at most one agent is past stopping the others, whatever starts,
\* crashes or is abandoned meanwhile (stop_existing_agents).
THEOREM AgentOneAgent == Spec => []OneAgent
  <1>1. AgentInv => OneAgent
    BY Alone DEF AgentInv, OneAgent, Late
  <1>2. QED
    BY <1>1, AgentInvariant, PTL

\* On Linux no agent makes another fail while it takes its files
\* (prepare_agent_socket, bind, SocketGuard::new).
THEOREM AgentRecoveryNotBlocked == Spec => []RecoveryNotBlocked
  <1>1. AgentInv => RecoveryNotBlocked
    BY DEF AgentInv, FileInv, RecoveryNotBlocked
  <1>2. QED
    BY <1>1, AgentInvariant, PTL

\* An agent that serves has the socket and the pid file: none that it replaced,
\* nor one that starts later, takes them away, on Linux whatever happens and on
\* macOS where no two agents have handled the files at once (SocketGuard,
\* PidFileGuard, prepare_agent_socket).
THEOREM AgentServingReachable == Spec => []ServingReachable
  <1>1. Init => MacInv
    BY DEF Init, MacInv, Listening, Working, Dropping
  <1>2. AgentInv /\ MacInv /\ [Next]_vars => MacInv'
    <2>1. MacInv /\ UNCHANGED vars => MacInv'
      BY DEF MacInv, vars, processVars, stopVars, fileVars
    <2>2. QED
      BY <2>1, MacStep DEF AgentInv
  <1>3. AgentInv /\ MacInv => ServingReachable
    BY DEF AgentInv, FileInv, MacInv, ServingReachable, ReachableAgent, Listening, Working
  <1>4. QED
    BY <1>1, <1>2, <1>3, AgentInvariant, PTL DEF Spec
-----------------------------------------------------------------------------
(* The Exec Server *)

\* The phases in which an agent has started its Exec Server and not stopped it.
Holding == {"startup", "serving", "stop_exec"}

\* An Exec Server runs under an agent that will stop it, or one that was killed.
ExecInv == \A a \in Agents : exec[a] = "running" => phase[a] \in Holding \/ a \in killed

\* A step that starts no Exec Server, and takes no agent that has one past
\* stopping it.
LEMMA ExecKept ==
  ASSUME ExecInv, exec' = exec, killed \subseteq killed',
         \A b \in Agents : phase[b] \in Holding => phase'[b] \in Holding \/ b \in killed'
  PROVE  ExecInv'
  BY DEF ExecInv

\* An agent that has no Exec Server moves on, or one that has goes on holding it.
LEMMA ExecMoves ==
  ASSUME TypeOK, ExecInv, NEW a \in Agents, exec' = exec, killed \subseteq killed',
         phase[a] \notin Holding \/ phase'[a] \in Holding,
         \A b \in Agents \ {a} : phase'[b] = phase[b] \/ b \in killed'
  PROVE  ExecInv'
  BY ExecKept

LEMMA ExecStep ==
  ASSUME TypeOK, ExecInv, Next
  PROVE  ExecInv'
  <1> PICK a \in Agents : AgentStep(a) \/ Start(a) \/ LoseLink(a) \/ Crash(a) \/ ExecExits(a)
    BY DEF Next
  <1> USE DEF TypeOK
  <1>1. CASE Start(a)
    BY <1>1, ExecMoves DEF Start, Holding
  <1>2. CASE LoseLink(a)
    BY <1>2, ExecKept DEF LoseLink
  <1>3. CASE Crash(a)
    BY <1>3, ExecKept DEF Crash, Ends
  <1>4. CASE ExecExits(a)
    BY <1>4 DEF ExecExits, ExecInv, processVars
  <1>5. ASSUME NEW from \in Phases \ Holding, NEW to, OnlyGoes(a, from, to)
        PROVE  ExecInv'
    BY <1>5, ExecMoves DEF OnlyGoes, SameProcesses
  <1>6. CASE List(a) \/ VictimsStopped(a) \/ UnlinkPid(a) \/ WritePid(a)
    BY <1>6, ExecMoves DEF List, VictimsStopped, UnlinkPid, WritePid, SameProcesses, Holding
  <1>7. CASE Inspect(a) \/ SocketExists(a) \/ Hello(a) \/ DropPid(a)
    BY <1>5, <1>7
       DEF Inspect, SocketExists, Hello, DropPid, Phases, Holding, Replacing, Working, Dropping
  <1>8. ASSUME Ends(a), exec' = exec, killed \subseteq killed', phase[a] \notin Holding
        PROVE  ExecInv'
    BY <1>8, ExecMoves DEF Ends
  <1>9. ASSUME NEW b \in Agents, NEW next, Terminate(a, b, next), exec' = exec, phase[a] \notin Holding
        PROVE  ExecInv'
    <2>1. /\ killed \subseteq killed'
          /\ \A c \in Agents \ {a} : phase'[c] = phase[c] \/ c \in killed'
      BY <1>9 DEF Terminate
    <2>2. QED
      BY <1>9, <2>1, ExecMoves
  <1>10. ASSUME NEW b \in Agents, StopVictim(a, b)
         PROVE  ExecInv'
    <2>1. CASE Alive(b)
      BY <1>9, <1>10, <2>1 DEF StopVictim, Holding
    <2>2. CASE ~Alive(b)
      BY <1>10, <2>2, ExecKept DEF StopVictim, processVars
    <2>3. QED
      BY <2>1, <2>2
  <1>11. CASE AwaitVictim(a) \/ AwaitListener(a)
    BY <1>11, ExecMoves DEF AwaitVictim, AwaitListener, Await, SameProcesses, Holding
  <1>12. CASE KillVictim(a) \/ KillListener(a)
    <2>1. phase[a] \notin Holding /\ exec' = exec /\ \E next : Kill(a, next)
      BY <1>12 DEF KillVictim, KillListener, Holding
    <2>2. CASE Alive(target[a])
      <3>1. /\ killed \subseteq killed'
            /\ \A c \in Agents \ {a} : phase'[c] = phase[c] \/ c \in killed'
        BY <2>1, <2>2 DEF Kill
      <3>2. QED
        BY <2>1, <3>1, ExecMoves
    <2>3. CASE ~Alive(target[a])
      BY <1>8, <2>1, <2>3 DEF Kill
    <2>4. QED
      BY <2>2, <2>3
  <1>13. ASSUME Refuse(a), phase[a] \notin Holding
         PROVE  ExecInv'
    BY <1>8, <1>13 DEF Refuse
  <1>14. CASE Replace(a)
    <2>1. CASE ActiveAgent # NoAgent /\ Alive(ActiveAgent)
      <3>1. ActiveAgent \in Agents
        BY <2>1 DEF ActiveAgent, SomeAgent
      <3>2. QED
        BY <1>9, <1>14, <2>1, <3>1 DEF Replace, Holding
    <2>2. QED
      BY <1>13, <1>14, <2>1 DEF Replace, Holding
  <1>15. CASE Unlink(a)
    BY <1>13, <1>15, ExecMoves DEF Unlink, SameProcesses, Holding
  <1>16. CASE Bind(a)
    BY <1>13, <1>16, ExecMoves DEF Bind, Holding
  <1>17. CASE NoteSocket(a)
    BY <1>13, <1>17, ExecMoves DEF NoteSocket, SameProcesses, Holding
  <1>18. CASE SpawnExec(a)
    <2>1. CASE exec' = exec
      BY <1>18, <2>1, ExecMoves DEF SpawnExec, StopsListening, SameProcesses, Holding
    <2>2. CASE phase' = [phase EXCEPT ![a] = "startup"] /\ exec' = [exec EXCEPT ![a] = "running"]
               /\ killed' = killed
      BY <2>2 DEF ExecInv, Holding
    <2>3. QED
      BY <1>18, <2>1, <2>2 DEF SpawnExec, SameProcesses
  <1>19. CASE ExecStarted(a)
    BY <1>19 DEF ExecStarted, StopsListening, ExecInv, Holding
  <1>20. CASE StopServing(a)
    BY <1>20, ExecMoves DEF StopServing, StopsListening, Holding
  <1>21. CASE StopExec(a)
    BY <1>21 DEF StopExec, SameProcesses, ExecInv
  <1>22. CASE UnlinkOwnPid(a)
    BY <1>22, ExecMoves DEF UnlinkOwnPid, SameProcesses, Holding
  <1>23. CASE DropSocket(a)
    BY <1>5, <1>8, <1>23 DEF DropSocket, Phases, Holding, Dropping
  <1>24. CASE UnlinkOwnSocket(a)
    BY <1>8, <1>24 DEF UnlinkOwnSocket, Holding
  <1>25. QED
    BY <1>1, <1>2, <1>3, <1>4, <1>6, <1>7, <1>10, <1>11, <1>12, <1>14, <1>15, <1>16,
       <1>17, <1>18, <1>19, <1>20, <1>21, <1>22, <1>23, <1>24 DEF AgentStep

\* An agent that ends by itself leaves no Exec Server behind, on Linux and on
\* macOS; only one that is killed may (stop_exec_server, serve_agent_mux).
THEOREM AgentExecStopped == Spec => []ExecStopped
  <1>1. Init => ExecInv
    BY DEF Init, ExecInv
  <1>2. AgentInv /\ ExecInv /\ [Next]_vars => ExecInv'
    <2>1. ExecInv /\ UNCHANGED vars => ExecInv'
      BY DEF ExecInv, vars, processVars
    <2>2. QED
      BY <2>1, ExecStep DEF AgentInv
  <1>3. ExecInv => ExecStopped
    BY DEF ExecInv, ExecStopped, Holding
  <1>4. QED
    BY <1>1, <1>2, <1>3, AgentInvariant, PTL DEF Spec
=============================================================================
