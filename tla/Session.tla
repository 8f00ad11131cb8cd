------------------------------- MODULE Session -------------------------------
(***************************************************************************)
(* The tasks and processes of one App session, end to end, and how they    *)
(* come up and go down together: the proxy the App runs over ssh, the      *)
(* control server's relay, the agent's relays, the bridge's session with   *)
(* its local App Server, the Host App Server of the remote host and one    *)
(* Exec connection (crates/cxs-shim/src/main.rs, cxs-bridge/src/lib.rs).   *)
(*                                                                         *)
(*   app - proxy - control - app_relay = session - server - exec_local     *)
(*                                        ||                    ||         *)
(*                         host - host_relay     exec - exec_remote        *)
(*                                                                         *)
(* Each line is a link with two ends: pipes, sockets and, doubled, the     *)
(* channels of the multiplexed connection.  A party that is gone has       *)
(* closed its ends; one may also close for writing only.  What is relayed  *)
(* is left out, and so is an agent that lingers after a signal (Mux).      *)
(***************************************************************************)
VARIABLES
  made,        \* links that have come to be
  open,        \* ends <<party, link>> that may still be written
  alive,       \* children: the local App Server and the Host App Server
  session,     \* how far handle_websocket_connection has come
  linked,      \* the multiplexed connection
  agent,       \* the agent's process runs
  crashed      \* history: processes killed with no chance to stop their children

vars == <<made, open, alive, session, linked, agent, crashed>>

\* The parties of each link, the one that makes it first.
Parties == [
  stdio |-> <<"app", "proxy">>,
  control_socket |-> <<"proxy", "control">>,
  agent_socket |-> <<"control", "app_relay">>,
  app_channel |-> <<"app_relay", "session">>,
  upstream |-> <<"session", "server">>,
  host_channel |-> <<"session", "host_relay">>,
  host_stdio |-> <<"host_relay", "host">>,
  exec_port |-> <<"server", "exec_local">>,
  exec_channel |-> <<"exec_local", "exec_remote">>,
  exec_server |-> <<"exec_remote", "exec">>]

Links == DOMAIN Parties
Channels == {"app_channel", "host_channel", "exec_channel"}
Ends(l) == {<<Parties[l][1], l>>, <<Parties[l][2], l>>}
Everyone == UNION {{Parties[l][1], Parties[l][2]} : l \in Links}
OwnEnds == [p \in Everyone |-> {<<p, l>> : l \in {k \in Links : p \in {Parties[k][1], Parties[k][2]}}}]
EndsOf(p) == OwnEnds[p]

\* Relays between the link they are given and the one they make.
Given == [proxy |-> "stdio", control |-> "control_socket", app_relay |-> "agent_socket",
          host_relay |-> "host_channel", exec_local |-> "exec_port", exec_remote |-> "exec_channel"]
Makes == [proxy |-> "control_socket", control |-> "agent_socket", app_relay |-> "app_channel",
          host_relay |-> "host_stdio", exec_local |-> "exec_channel", exec_remote |-> "exec_server"]

Relays == DOMAIN Given
OfAgent == {"app_relay", "host_relay", "exec_remote"}
OfBridge == {"session", "exec_local"}
Selecting == {"proxy", "host_relay"}            \* end with either direction
Copying == Relays \ Selecting                   \* copy_bidirectional: both directions

TypeOK ==
  /\ made \subseteq Links
  /\ open \subseteq UNION {Ends(l) : l \in made}
  /\ alive \subseteq {"server", "host"}
  /\ session \in {"none", "handshake", "spawning", "waiting", "accepting", "connecting", "opening", "running", "stopping", "gone"}
  /\ linked \in BOOLEAN /\ agent \in BOOLEAN
  /\ crashed \subseteq {"bridge", "agent"}

\* The desktop App runs codex app-server proxy over ssh; a control server and
\* an agent are there.
Init ==
  /\ made = {"stdio"}
  /\ open = Ends("stdio")
  /\ alive = {}
  /\ session = "none"
  /\ linked = TRUE /\ agent = TRUE
  /\ crashed = {}

Holds(p, l) == <<p, l>> \in open
Other(p, l) == IF Parties[l][1] = p THEN Parties[l][2] ELSE Parties[l][1]

\* What a read of p's end of l comes to.
Eof(p, l) ==
  /\ l \in made
  /\ ~Holds(Other(p, l), l) \/ (l \in Channels /\ ~linked)

Make(l) ==
  /\ made' = made \cup {l}
  /\ open' = open \cup Ends(l)

-----------------------------------------------------------------------------
(* Relays *)

\* The next party is there to take the link: a listener of a process that
\* runs, a channel while the connection lasts, a child that starts.
Reachable(l) ==
  CASE l = "control_socket" -> TRUE
    [] l \in {"agent_socket", "host_stdio", "exec_server"} -> agent
    [] l \in Channels -> linked

\* A relay has the link it was given and not yet the one it makes.
Joining(p) == Holds(p, Given[p]) /\ Makes[p] \notin made

\* It connects, opens a channel or spawns its child ...
Join(p) ==
  /\ Joining(p)
  /\ Reachable(Makes[p])
  /\ Make(Makes[p])
  /\ alive' = IF p = "host_relay" THEN alive \cup {"host"} ELSE alive
  /\ session' = IF p = "app_relay" THEN "handshake" ELSE session
  /\ UNCHANGED <<linked, agent, crashed>>

\* ... or gives up: the proxy after ten seconds, exec_remote after five.
Abort(p) ==
  /\ Joining(p)
  /\ open' = open \ EndsOf(p)
  /\ UNCHANGED <<made, alive, session, linked, agent, crashed>>

Joined(p) == {Given[p], Makes[p]} \subseteq made

\* copy_bidirectional passes the end of one direction on and waits for the
\* other; when both have ended, both ends of the relay are closed.
PassEof(p, from, to) ==
  /\ p \in Copying /\ Joined(p)
  /\ Eof(p, from) /\ Holds(p, to)
  /\ open' = open \ {<<p, to>>}
  /\ UNCHANGED <<made, alive, session, linked, agent, crashed>>

\* A write to a party that is gone fails and ends the relay.
RelayBreaks(p) ==
  /\ p \in Copying /\ Joined(p)
  /\ \E l \in {Given[p], Makes[p]} : Eof(p, l) /\ Holds(p, l)
  /\ open' = open \ EndsOf(p)
  /\ UNCHANGED <<made, alive, session, linked, agent, crashed>>

\* The App's end closes the proxy's process.  The control server's end does
\* not: the process has yet to return from its read of stdin.
ProxyEnds ==
  /\ Joined("proxy") /\ Holds("proxy", "control_socket")
  /\ \/ /\ Eof("proxy", "stdio")
        /\ open' = open \ EndsOf("proxy")
     \/ /\ Eof("proxy", "control_socket")
        /\ open' = open \ {<<"proxy", "control_socket">>}
  /\ UNCHANGED <<made, alive, session, linked, agent, crashed>>

\* The App writes, or has closed.
ProxyReads ==
  /\ Joined("proxy") /\ Holds("proxy", "stdio") /\ ~Holds("proxy", "control_socket")
  /\ open' = open \ EndsOf("proxy")
  /\ UNCHANGED <<made, alive, session, linked, agent, crashed>>

\* Defect: the relay of the Host App Server waits for both directions.
HostRelayEnds_Both ==
  /\ Joined("host_relay") /\ Holds("host_relay", "host_channel")
  /\ Eof("host_relay", "host_channel") /\ Eof("host_relay", "host_stdio")
  /\ open' = open \ EndsOf("host_relay")
  /\ UNCHANGED <<made, alive, session, linked, agent, crashed>>

HostRelayEnds ==
  /\ Joined("host_relay") /\ Holds("host_relay", "host_channel")
  /\ Eof("host_relay", "host_channel") \/ Eof("host_relay", "host_stdio")
  /\ open' = open \ EndsOf("host_relay")
  /\ UNCHANGED <<made, alive, session, linked, agent, crashed>>

\* stop_exec_server: the child ends by itself, by SIGTERM or by SIGKILL.
StopHost ==
  /\ agent /\ "host" \in alive
  /\ open \cap EndsOf("host_relay") = {}
  /\ alive' = alive \ {"host"}
  /\ open' = open \ EndsOf("host")
  /\ UNCHANGED <<made, session, linked, agent, crashed>>

-----------------------------------------------------------------------------
(* The bridge's session *)

Starting == {"handshake", "spawning", "waiting", "accepting", "connecting", "opening"}

SessionGoes(from, to) ==
  /\ session = from
  /\ session' = to
  /\ UNCHANGED <<linked, agent, crashed>>

\* The shim's handshake is whole and valid.
ReadHandshake ==
  /\ SessionGoes("handshake", "spawning")
  /\ ~Eof("session", "app_channel")
  /\ UNCHANGED <<made, open, alive>>

StartServer ==
  /\ SessionGoes("spawning", "waiting")
  /\ alive' = alive \cup {"server"}
  /\ UNCHANGED <<made, open>>

\* The socket of a server that runs; it can be there and the server gone.
WaitForSocket ==
  /\ SessionGoes("waiting", "accepting")
  /\ "server" \in alive
  /\ UNCHANGED <<made, open, alive>>

\* The App's upgrade request.
AcceptApp ==
  /\ SessionGoes("accepting", "connecting")
  /\ ~Eof("session", "app_channel")
  /\ UNCHANGED <<made, open, alive>>

ConnectUpstream ==
  /\ SessionGoes("connecting", "opening")
  /\ "server" \in alive
  /\ Make("upstream")
  /\ UNCHANGED alive

OpenHost ==
  /\ SessionGoes("opening", "running")
  /\ linked
  /\ Make("host_channel")
  /\ UNCHANGED alive

\* Defect: the child outlives the handle that is dropped.
StartupFails_KeepsChild ==
  /\ session \in Starting
  /\ session' = "gone"
  /\ open' = open \ EndsOf("session")
  /\ UNCHANGED <<made, alive, linked, agent, crashed>>

\* A handshake that is not valid or, later, any error: five seconds without a
\* socket, an App, server or connection that is gone.  kill_on_drop.
StartupFails ==
  /\ session \in Starting
  /\ session' = "gone"
  /\ alive' = alive \ {"server"}
  /\ open' = open \ (EndsOf("session") \cup EndsOf("server"))
  /\ UNCHANGED <<made, linked, agent, crashed>>

\* relay_websocket returns when one of its three sides ends, or fails.
RelayEnds ==
  /\ SessionGoes("running", "stopping")
  /\ open' = open \ EndsOf("session")
  /\ UNCHANGED <<made, alive>>

SidesEnded == \E l \in {"app_channel", "upstream", "host_channel"} : Eof("session", l)

StopServer ==
  /\ SessionGoes("stopping", "gone")
  /\ alive' = alive \ {"server"}
  /\ open' = open \ EndsOf("server")
  /\ UNCHANGED made

\* The server dials the environment's port, which the bridge accepts while it
\* is connected.
ServerDials ==
  /\ "server" \in alive /\ session = "running"
  /\ linked /\ "exec_port" \notin made
  /\ Make("exec_port")
  /\ UNCHANGED <<alive, session, linked, agent, crashed>>

-----------------------------------------------------------------------------
(* Ends from outside *)

SameSession == UNCHANGED <<made, session, linked, agent, crashed>>

\* The App goes, or sees that the proxy has gone.
AppCloses ==
  /\ Holds("app", "stdio")
  /\ open' = open \ EndsOf("app")
  /\ UNCHANGED alive /\ SameSession

\* A crash; the Host App Server also ends with its stdin.
ChildExits(p) ==
  /\ p \in alive
  /\ alive' = alive \ {p}
  /\ open' = open \ EndsOf(p)
  /\ SameSession

HostReadsEof == Eof("host", "host_stdio") /\ ChildExits("host")

\* Exec Server and App Server close a connection that the other side has.
ClosesBack(p, l) ==
  /\ Holds(p, l) /\ Eof(p, l)
  /\ open' = open \ {<<p, l>>}
  /\ UNCHANGED alive /\ SameSession

ControlKilled ==
  /\ EndsOf("control") \cap open # {}
  /\ open' = open \ EndsOf("control")
  /\ UNCHANGED alive /\ SameSession

LoseConnection ==
  /\ linked /\ linked' = FALSE
  /\ UNCHANGED <<made, open, alive, session, agent, crashed>>

EndsOfAll(parties) == UNION {EndsOf(p) : p \in parties}

\* The agent has noticed: it stops the Exec Server and its tasks go, the Host
\* App Server with its handle (kill_on_drop).
AgentReturns ==
  /\ agent /\ ~linked
  /\ agent' = FALSE
  /\ alive' = alive \ {"host"}
  /\ open' = open \ EndsOfAll(OfAgent \cup {"host", "exec"})
  /\ UNCHANGED <<made, session, linked, crashed>>

AgentKilled ==
  /\ agent
  /\ agent' = FALSE /\ linked' = FALSE
  /\ crashed' = crashed \cup {"agent"}
  /\ open' = open \ EndsOfAll(OfAgent)
  /\ UNCHANGED <<made, alive, session>>

\* The bridge ends on a signal, with its tasks and their children, or is killed.
BridgeGone == session = "gone" /\ ~linked /\ open \cap EndsOfAll(OfBridge) = {}

BridgeEnds(killed) ==
  /\ ~BridgeGone
  /\ linked' = FALSE
  /\ session' = "gone"
  /\ IF killed
     THEN /\ crashed' = crashed \cup {"bridge"}
          /\ UNCHANGED alive
          /\ open' = open \ EndsOfAll(OfBridge)
     ELSE /\ alive' = alive \ {"server"}
          /\ open' = open \ EndsOfAll(OfBridge \cup {"server"})
          /\ UNCHANGED crashed
  /\ UNCHANGED <<made, agent>>

-----------------------------------------------------------------------------
RelayStep(p) ==
  \/ Join(p) \/ Abort(p) \/ RelayBreaks(p)
  \/ PassEof(p, Given[p], Makes[p]) \/ PassEof(p, Makes[p], Given[p])

SessionStep ==
  \/ ReadHandshake \/ StartServer \/ WaitForSocket \/ AcceptApp \/ ConnectUpstream \/ OpenHost
  \/ StartupFails \/ RelayEnds \/ StopServer \/ ServerDials

Outside ==
  \/ AppCloses \/ ControlKilled \/ LoseConnection \/ AgentKilled
  \/ (\E p \in {"server", "host"} : ChildExits(p))
  \/ (\E killed \in BOOLEAN : BridgeEnds(killed))

Next ==
  \/ \E p \in Relays : RelayStep(p)
  \/ ProxyEnds \/ ProxyReads \/ HostRelayEnds \/ StopHost
  \/ SessionStep \/ AgentReturns \/ HostReadsEof
  \/ ClosesBack("exec", "exec_server") \/ ClosesBack("server", "exec_port")
  \/ Outside

Spec == Init /\ [][Next]_vars

\* What the tasks do by themselves and in bounded time.  The App sends its
\* upgrade request or goes; Exec Server, App Server and Host App Server close
\* what the other side has closed.  Nothing makes the App write to a proxy
\* that only waits for it, a relay fail in a write, or a party end unasked.
Working ==
  \/ \E p \in Relays : Join(p) \/ Abort(p)
  \/ \E p \in Relays : PassEof(p, Given[p], Makes[p]) \/ PassEof(p, Makes[p], Given[p])
  \/ ProxyEnds \/ HostRelayEnds \/ StopHost
  \/ (~Holds("app", "stdio") /\ ProxyReads)
  \/ ReadHandshake \/ StartServer \/ WaitForSocket \/ AcceptApp \/ ConnectUpstream \/ OpenHost \/ StartupFails
  \/ (SidesEnded /\ RelayEnds) \/ StopServer
  \/ AgentReturns \/ HostReadsEof
  \/ ClosesBack("exec", "exec_server") \/ ClosesBack("server", "exec_port")

\* Each happens a bounded number of times in a behaviour, so that fairness to
\* all of it is fairness to each.
FairSpec == Spec /\ WF_vars(Working)

-----------------------------------------------------------------------------
(* Properties *)

Over(p) == EndsOf(p) \cap open = {}

\* A session that has lost one of what it is made of.
Broken ==
  \/ ~Holds("app", "stdio") \/ ~linked
  \/ session = "gone"
  \/ session \notin {"none", "handshake", "spawning"} /\ "server" \notin alive
  \/ "host_stdio" \in made /\ "host" \notin alive

\* When the App, the connection, the local App Server or the Host App Server is
\* gone, the whole session goes: every relay at both ends, both children but
\* that of a killed bridge and, if it was the App, its proxy.
Teardown ==
  /\ Broken ~>
       /\ \A p \in (Relays \cup {"session"}) \ {"proxy"} : Over(p)
       /\ session \in {"none", "gone"}
       /\ "host" \notin alive
       /\ "server" \in alive => "bridge" \in crashed
  /\ ~Holds("app", "stdio") ~> Over("proxy")

\* A session that is gone has stopped its App Server, and an agent that is
\* gone its Host App Server, whichever step they ended at, unless they were
\* killed (kill_on_drop, stop_child, stop_exec_server).
ChildrenStopped ==
  /\ session = "gone" /\ "server" \in alive => "bridge" \in crashed
  /\ ~agent /\ "host" \in alive => "agent" \in crashed
=============================================================================
