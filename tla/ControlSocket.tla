---------------------------- MODULE ControlSocket -----------------------------
(***************************************************************************)
(* The remote control socket: codex app-server --listen unix:// and        *)
(* codex app-server proxy of crates/cxs-shim/src/main.rs.  Each bootstrap  *)
(* of the App starts a control server, which ends at once if one answers   *)
(* at the path, and then a proxy, which tries to connect for ten seconds.  *)
(* A server counts its clients and leaves after 30 seconds without any.    *)
(*                                                                         *)
(* Every socket is a new inode, named by the server that bound it.  A      *)
(* probe is a connection to the kernel: the server that is probed takes it *)
(* for a client.  What a client's relay does is in Session; here it ends.  *)
(***************************************************************************)
EXTENDS Integers, FiniteSets

CONSTANTS
  MaxServers,    \* bound of the model: control servers in one behaviour
  Proxies,       \* proxies, one per bootstrap that comes so far
  NoSocket       \* nothing at the path

ASSUME MaxServersAssumption == MaxServers \in Nat \ {0}

Servers == 1..MaxServers

ASSUME NoSocketAssumption == NoSocket \notin Servers
ASSUME ProxiesAssumption == Proxies \cap Servers = {}

Clients == Proxies \cup Servers    \* a server stands for its probe

VARIABLES
  phase,         \* per server, how far serve_control_socket_at has come
  path,          \* the inode at the path
  listening,     \* servers whose listener is open
  guard,         \* per server, the inode its SocketGuard has noted
  backlog,       \* per server, clients connected and not accepted
  relays,        \* per server, clients whose relay runs
  active,        \* per server, its count of clients
  completed,     \* per server, ends its loop has not looked at
  proxy,         \* per proxy, how far proxy_control_socket has come
  before,        \* history: per server, the listeners there were when it probed
  robbed         \* history: servers whose socket another, at work at the same time, took

serverVars == <<phase, guard, before>>
socketVars == <<path, listening, robbed>>
clientVars == <<backlog, relays, active, completed>>
vars == <<serverVars, socketVars, clientVars, proxy>>

Starting == {"probe", "prepare", "unlink", "bind", "listen", "guard"}
Leaving == {"drop", "unlink_own", "close"}

TypeOK ==
  /\ phase \in [Servers -> {"unborn", "serving", "gone"} \cup Starting \cup Leaving]
  /\ path \in Servers \cup {NoSocket}
  /\ listening \subseteq Servers
  /\ guard \in [Servers -> Servers \cup {NoSocket}]
  /\ backlog \in [Servers -> SUBSET Clients]
  /\ relays \in [Servers -> SUBSET Clients]
  /\ active \in [Servers -> Nat] /\ completed \in [Servers -> Nat]
  /\ proxy \in [Proxies -> {"unborn", "connecting", "connected", "ended"}]
  /\ before \in [Servers -> SUBSET Servers]
  /\ robbed \subseteq Servers

Init ==
  /\ phase = [s \in Servers |-> "unborn"]
  /\ path = NoSocket /\ listening = {}
  /\ guard = [s \in Servers |-> NoSocket]
  /\ backlog = [s \in Servers |-> {}]
  /\ relays = [s \in Servers |-> {}]
  /\ active = [s \in Servers |-> 0]
  /\ completed = [s \in Servers |-> 0]
  /\ proxy = [p \in Proxies |-> "unborn"]
  /\ before = [s \in Servers |-> {}]
  /\ robbed = {}

Goes(s, from, to) ==
  /\ phase[s] = from
  /\ phase' = [phase EXCEPT ![s] = to]

OnlyGoes(s, from, to) ==
  /\ Goes(s, from, to)
  /\ UNCHANGED <<guard, before, socketVars, clientVars, proxy>>

\* The descriptors of a process close: who is connected finds the end.
Closes(s) ==
  /\ listening' = listening \ {s}
  /\ proxy' = [p \in Proxies |-> IF p \in backlog[s] \cup relays[s] THEN "ended" ELSE proxy[p]]
  /\ backlog' = [backlog EXCEPT ![s] = {}]
  /\ relays' = [relays EXCEPT ![s] = {}]
  /\ active' = [active EXCEPT ![s] = 0]
  /\ completed' = [completed EXCEPT ![s] = 0]

Ends(s) ==
  /\ phase' = [phase EXCEPT ![s] = "gone"]
  /\ Closes(s)
  /\ guard' = [guard EXCEPT ![s] = NoSocket]
  /\ before' = [before EXCEPT ![s] = {}]

Answers == path \in listening

-----------------------------------------------------------------------------
(* A control server starts *)

\* The App runs codex app-server --listen unix://.
Start(s) ==
  /\ \A t \in 1..(s - 1) : phase[t] # "unborn"
  /\ OnlyGoes(s, "unborn", "probe")

\* Its probe waits in the backlog of the server that answered.
Probed(s) == backlog' = [backlog EXCEPT ![path] = @ \cup {s}]

\* Something that listens at the path is a server.
Probe(s) ==
  /\ IF Answers
     THEN Goes(s, "probe", "gone") /\ Probed(s) /\ UNCHANGED before
     ELSE /\ Goes(s, "probe", "prepare")
          /\ before' = [before EXCEPT ![s] = listening]
          /\ UNCHANGED backlog
  /\ UNCHANGED <<guard, socketVars, relays, active, completed, proxy>>

Prepare(s) == OnlyGoes(s, "prepare", IF path = NoSocket THEN "bind" ELSE "unlink")

\* remove_file fails if the file has gone since.
Unlink(s) ==
  /\ phase[s] = "unlink"
  /\ IF path = NoSocket
     THEN Ends(s) /\ UNCHANGED <<path, robbed>>
     ELSE /\ Goes(s, "unlink", "bind")
          /\ path' = NoSocket
          /\ robbed' = IF path \in before[s] THEN robbed ELSE robbed \cup {path}
          /\ UNCHANGED <<guard, before, listening, clientVars, proxy>>

\* AddrInUse is no error if something answers by now.
Bind(s) ==
  \/ /\ path = NoSocket
     /\ Goes(s, "bind", "listen")
     /\ path' = s
     /\ robbed' = IF \E t \in Servers : phase[t] = "unlink_own" THEN robbed \cup {s} ELSE robbed
     /\ before' = [before EXCEPT ![s] = {}]
     /\ UNCHANGED <<guard, listening, clientVars, proxy>>
  \/ /\ path # NoSocket
     /\ Goes(s, "bind", "gone")
     /\ IF Answers THEN Probed(s) ELSE UNCHANGED backlog
     /\ before' = [before EXCEPT ![s] = {}]
     /\ UNCHANGED <<guard, socketVars, relays, active, completed, proxy>>

\* bind and listen are two calls; between them a connection is refused.
Listen(s) ==
  /\ Goes(s, "listen", "guard")
  /\ listening' = listening \cup {s}
  /\ UNCHANGED <<guard, before, path, robbed, clientVars, proxy>>

\* set_permissions and SocketGuard::new look at what is at the path now.
NoteSocket(s) ==
  /\ phase[s] = "guard"
  /\ IF path = NoSocket
     THEN Ends(s) /\ UNCHANGED <<path, robbed>>
     ELSE /\ Goes(s, "guard", "serving")
          /\ guard' = [guard EXCEPT ![s] = path]
          /\ UNCHANGED <<before, socketVars, clientVars, proxy>>

-----------------------------------------------------------------------------
(* It serves, and leaves *)

SameServers == UNCHANGED <<serverVars, socketVars>>

\* Defect: the relay reports its end when it begins.
Accept_Completes(s, c) ==
  /\ phase[s] = "serving" /\ c \in backlog[s]
  /\ backlog' = [backlog EXCEPT ![s] = @ \ {c}]
  /\ relays' = [relays EXCEPT ![s] = @ \cup {c}]
  /\ active' = [active EXCEPT ![s] = @ + 1]
  /\ completed' = [completed EXCEPT ![s] = @ + 1]
  /\ SameServers /\ UNCHANGED proxy

Accept(s, c) ==
  /\ phase[s] = "serving" /\ c \in backlog[s]
  /\ backlog' = [backlog EXCEPT ![s] = @ \ {c}]
  /\ relays' = [relays EXCEPT ![s] = @ \cup {c}]
  /\ active' = [active EXCEPT ![s] = @ + 1]
  /\ SameServers /\ UNCHANGED <<completed, proxy>>

\* Defect: a relay that fails does not report it.
RelayEnds_Silently(s, c) ==
  /\ c \in relays[s]
  /\ relays' = [relays EXCEPT ![s] = @ \ {c}]
  /\ proxy' = [p \in Proxies |-> IF p = c THEN "ended" ELSE proxy[p]]
  /\ completed' \in {completed, [completed EXCEPT ![s] = @ + 1]}
  /\ SameServers /\ UNCHANGED <<backlog, active>>

\* The relay of a client ends, well or with an error, and reports it.
RelayEnds(s, c) ==
  /\ c \in relays[s]
  /\ relays' = [relays EXCEPT ![s] = @ \ {c}]
  /\ proxy' = [p \in Proxies |-> IF p = c THEN "ended" ELSE proxy[p]]
  /\ completed' = [completed EXCEPT ![s] = @ + 1]
  /\ SameServers /\ UNCHANGED <<backlog, active>>

Complete(s) ==
  /\ phase[s] = "serving" /\ active[s] > 0 /\ completed[s] > 0
  /\ completed' = [completed EXCEPT ![s] = @ - 1]
  /\ active' = [active EXCEPT ![s] = @ - 1]
  /\ SameServers /\ UNCHANGED <<backlog, relays, proxy>>

\* 30 seconds without a client; one may just have connected.
IdleExit(s) ==
  /\ active[s] = 0
  /\ OnlyGoes(s, "serving", "drop")

\* Defect: any socket at the path is removed.
DropGuard_Unchecked(s) == OnlyGoes(s, "drop", "unlink_own")

\* The guard goes before the listener: a look and, if the socket is its own,
\* the removal.
DropGuard(s) == OnlyGoes(s, "drop", IF path = guard[s] THEN "unlink_own" ELSE "close")

UnlinkOwn(s) ==
  /\ Goes(s, "unlink_own", "close")
  /\ path' = NoSocket
  /\ robbed' = IF guard[s] # s THEN robbed \cup ({path} \ {NoSocket}) ELSE robbed
  /\ UNCHANGED <<guard, before, listening, clientVars, proxy>>

Close(s) ==
  /\ phase[s] = "close"
  /\ Ends(s)
  /\ UNCHANGED <<path, robbed>>

Killed(s) ==
  /\ phase[s] \notin {"unborn", "gone"}
  /\ Ends(s)
  /\ UNCHANGED <<path, robbed>>

-----------------------------------------------------------------------------
(* Proxies *)

ProxyGoes(p, from, to) ==
  /\ proxy[p] = from
  /\ proxy' = [proxy EXCEPT ![p] = to]
  /\ SameServers

StartProxy(p) == ProxyGoes(p, "unborn", "connecting") /\ UNCHANGED clientVars

Connect(p) ==
  /\ Answers
  /\ ProxyGoes(p, "connecting", "connected")
  /\ backlog' = [backlog EXCEPT ![path] = @ \cup {p}]
  /\ UNCHANGED <<relays, active, completed>>

\* The last attempt, ten seconds after the first.
GiveUp(p) ==
  /\ ~Answers
  /\ ProxyGoes(p, "connecting", "ended")
  /\ UNCHANGED clientVars

-----------------------------------------------------------------------------
ServerStep(s) ==
  \/ Probe(s) \/ Prepare(s) \/ Unlink(s) \/ Bind(s) \/ Listen(s) \/ NoteSocket(s)
  \/ Complete(s) \/ IdleExit(s) \/ DropGuard(s) \/ UnlinkOwn(s) \/ Close(s)

Next ==
  \/ \E s \in Servers : Start(s) \/ ServerStep(s) \/ Killed(s)
  \/ \E s \in Servers, c \in Clients : Accept(s, c) \/ RelayEnds(s, c)
  \/ \E p \in Proxies : StartProxy(p) \/ Connect(p) \/ GiveUp(p)

Spec == Init /\ [][Next]_vars

\* A server runs, its idle timer fires, and a probe, closed when it was made,
\* is accepted and its relay ends.  A proxy may stay for ever.
FairSpec ==
  /\ Spec
  /\ \A s \in Servers : WF_vars(ServerStep(s))
  /\ \A s \in Servers, c \in Clients : WF_vars(Accept(s, c))
  /\ \A s \in Servers, c \in Servers : WF_vars(RelayEnds(s, c))

-----------------------------------------------------------------------------
(* Properties *)

\* What a server counts is the relays that run and the ends it has not looked
\* at, so a server that leaves for want of clients leaves none of those it has
\* accepted (active and completed_rx in serve_control_socket_at).
ClientsKept ==
  \A s \in Servers :
    /\ phase[s] = "serving" => active[s] = Cardinality(relays[s]) + completed[s]
    /\ phase[s] \in Leaving => relays[s] = {}

\* The path leads to the server that serves, whoever starts, leaves or was
\* killed in the meantime, and one that leaves late takes nobody else's socket:
\* unless another was at work on the path when the server took it, had not yet
\* seen it listen, or had taken its socket for its own.
PathServed ==
  \A s \in Servers :
    phase[s] = "serving" => path = s \/ s \in robbed

\* A server that clients cannot reach any more ends when the last has left,
\* probes notwithstanding: "the idle older listener exits on its own"
\* (docs/architecture.md).
Unreachable(s) ==
  /\ phase[s] = "serving" /\ path # s
  /\ (backlog[s] \cup relays[s]) \cap Proxies = {}
IdleExits == \A s \in Servers : Unreachable(s) ~> phase[s] = "gone"
=============================================================================
