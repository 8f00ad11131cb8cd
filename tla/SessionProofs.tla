--------------------------- MODULE SessionProofs ---------------------------
(***************************************************************************)
(* What is proved of one App session: who still has an end of a link is    *)
(* there, and no child outlives the process that started it unless that    *)
(* one was killed.                                                         *)
(***************************************************************************)
EXTENDS Session, TLAPS

-----------------------------------------------------------------------------
(* Links and their ends *)

\* An end says whose it is.
LEMMA EndsOfParty ==
  ASSUME NEW p \in Everyone, NEW e \in EndsOf(p)
  PROVE  e[1] = p
  BY DEF EndsOf, OwnEnds

\* Whoever is a party of a link has that end among its own.
LEMMA OwnEnd ==
  ASSUME NEW l \in Links, NEW e \in Ends(l)
  PROVE  e[1] \in Everyone /\ e \in EndsOf(e[1])
  <1>1. PICK p \in {Parties[l][1], Parties[l][2]} : e = <<p, l>>
    BY DEF Ends
  <1>2. p \in Everyone
    BY <1>1 DEF Everyone
  <1>3. <<p, l>> \in EndsOf(p)
    BY <1>1, <1>2 DEF EndsOf, OwnEnds
  <1>4. QED
    BY <1>1, <1>2, <1>3

\* The two ends of each link.
LEMMA EndsByLink ==
  /\ Ends("stdio") = {<<"app", "stdio">>, <<"proxy", "stdio">>}
  /\ Ends("control_socket") = {<<"proxy", "control_socket">>, <<"control", "control_socket">>}
  /\ Ends("agent_socket") = {<<"control", "agent_socket">>, <<"app_relay", "agent_socket">>}
  /\ Ends("app_channel") = {<<"app_relay", "app_channel">>, <<"session", "app_channel">>}
  /\ Ends("upstream") = {<<"session", "upstream">>, <<"server", "upstream">>}
  /\ Ends("host_channel") = {<<"session", "host_channel">>, <<"host_relay", "host_channel">>}
  /\ Ends("host_stdio") = {<<"host_relay", "host_stdio">>, <<"host", "host_stdio">>}
  /\ Ends("exec_port") = {<<"server", "exec_port">>, <<"exec_local", "exec_port">>}
  /\ Ends("exec_channel") = {<<"exec_local", "exec_channel">>, <<"exec_remote", "exec_channel">>}
  /\ Ends("exec_server") = {<<"exec_remote", "exec_server">>, <<"exec", "exec_server">>}
  BY DEF Ends, Parties

LEMMA AllLinks ==
  Links = {"stdio", "control_socket", "agent_socket", "app_channel", "upstream", "host_channel",
           "host_stdio", "exec_port", "exec_channel", "exec_server"}
  BY DEF Links, Parties

LEMMA Everybody ==
  {"app", "proxy", "control", "app_relay", "session", "server", "host_relay", "host", "exec_local",
   "exec_remote", "exec"} \subseteq Everyone
  <1>1. /\ {"stdio", "control_socket", "agent_socket", "upstream", "host_channel", "host_stdio"} \subseteq Links
        /\ {"exec_port", "exec_channel", "exec_server"} \subseteq Links
    BY AllLinks
  <1>2. /\ Parties["stdio"][1] = "app" /\ Parties["stdio"][2] = "proxy"
        /\ Parties["agent_socket"][1] = "control" /\ Parties["agent_socket"][2] = "app_relay"
        /\ Parties["upstream"][1] = "session" /\ Parties["upstream"][2] = "server"
        /\ Parties["host_stdio"][1] = "host_relay" /\ Parties["host_stdio"][2] = "host"
        /\ Parties["exec_channel"][1] = "exec_local" /\ Parties["exec_channel"][2] = "exec_remote"
        /\ Parties["exec_server"][2] = "exec"
    BY DEF Parties
  <1>3. QED
    BY <1>1, <1>2 DEF Everyone

-----------------------------------------------------------------------------
(* The inductive invariant *)

\* Who has an end is there: the agent's relays with the agent, the session
\* while it lasts, each child while it runs.
Owned ==
  \A e \in open :
    /\ e[1] \in OfAgent => agent
    /\ e[1] = "session" => session \notin {"none", "stopping", "gone"}
    /\ e[1] \in {"server", "host"} => e[1] \in alive

\* The connection needs the agent; a session begins with its channel, once.
Stages ==
  /\ linked => agent
  /\ session # "none" => "app_channel" \in made \/ ~linked

SessionInv == TypeOK /\ Owned /\ Stages /\ ChildrenStopped

\* Nothing new is open and nobody goes.
LEMMA OwnedFewer ==
  ASSUME Owned, open' \subseteq open,
         \A e \in open' : /\ e[1] \in OfAgent => agent' = agent
                          /\ e[1] = "session" => session' \notin {"none", "stopping", "gone"}
                          /\ e[1] \in {"server", "host"} /\ e[1] \in alive => e[1] \in alive'
  PROVE  Owned'
  BY DEF Owned

\* A link that comes to be between parties that are there.
LEMMA OwnedMake ==
  ASSUME Owned, NEW l \in Links, Make(l), UNCHANGED agent, alive \subseteq alive',
         session' \in {"none", "stopping", "gone"} => session' = session,
         \A e \in Ends(l) : /\ e[1] \in OfAgent => agent
                            /\ e[1] = "session" => session' \notin {"none", "stopping", "gone"}
                            /\ e[1] \in {"server", "host"} => e[1] \in alive'
  PROVE  Owned'
  BY DEF Owned, Make

\* What types keep: ends of links that are made.
LEMMA TypeKept ==
  ASSUME TypeOK,
         \/ made' = made /\ open' \subseteq open
         \/ \E l \in Links : Make(l),
         alive' \subseteq {"server", "host"},
         session' \in {"none", "handshake", "spawning", "waiting", "accepting", "connecting",
                       "opening", "running", "stopping", "gone"},
         linked' \in BOOLEAN, agent' \in BOOLEAN, crashed' \subseteq {"bridge", "agent"}
  PROVE  TypeOK'
  <1>1. made' \subseteq Links
    BY DEF TypeOK, Make
  <1>2. open' \subseteq UNION {Ends(l) : l \in made'}
    BY DEF TypeOK, Make
  <1>3. QED
    BY <1>1, <1>2 DEF TypeOK

\* An open end is among those of whose it is.
LEMMA OpenEnd ==
  ASSUME TypeOK, NEW e \in open
  PROVE  e \in EndsOf(e[1])
  <1>1. PICK l \in Links : e \in Ends(l)
    BY DEF TypeOK
  <1>2. QED
    BY <1>1, OwnEnd

\* Who closes its ends has none.
LEMMA Closed ==
  ASSUME TypeOK
  PROVE  \A p : \A e \in open \ EndsOf(p) : e[1] # p
  BY OpenEnd

\* A step that only closes ends, of whoever.
LEMMA InvClose ==
  ASSUME SessionInv, open' \subseteq open, UNCHANGED <<made, alive, session, linked, agent, crashed>>
  PROVE  SessionInv'
  <1>1. TypeOK'
    BY TypeKept DEF SessionInv, TypeOK
  <1>2. Owned'
    BY DEF SessionInv, Owned
  <1>3. QED
    BY <1>1, <1>2 DEF SessionInv, Stages, ChildrenStopped

LEMMA InvRelay ==
  ASSUME SessionInv, NEW p \in Relays, RelayStep(p)
  PROVE  SessionInv'
  <1>1. CASE Abort(p) \/ RelayBreaks(p) \/ PassEof(p, Given[p], Makes[p]) \/ PassEof(p, Makes[p], Given[p])
    BY <1>1, InvClose DEF Abort, RelayBreaks, PassEof
  <1>2. CASE Join(p)
    <2>1. /\ Holds(p, Given[p]) /\ Makes[p] \notin made /\ Reachable(Makes[p]) /\ Make(Makes[p])
          /\ alive' = IF p = "host_relay" THEN alive \cup {"host"} ELSE alive
          /\ session' = IF p = "app_relay" THEN "handshake" ELSE session
          /\ UNCHANGED <<linked, agent, crashed>>
      BY <1>2 DEF Join, Joining
    <2>2. p \in {"proxy", "control", "app_relay", "host_relay", "exec_local", "exec_remote"}
      BY DEF Relays, Given
    <2>3. Makes[p] \in Links
      BY <2>2, AllLinks DEF Makes
    <2>4. TypeOK'
      BY <2>1, <2>3, TypeKept DEF SessionInv, TypeOK
    <2>5. p \in OfAgent => agent
      BY <2>1 DEF SessionInv, Owned, Holds
    <2>6. Owned'
      <3>1. CASE p \in {"proxy", "control"}
        <4>1. Makes[p] \in {"control_socket", "agent_socket"}
          BY <3>1 DEF Makes
        <4>2. Makes[p] = "agent_socket" => agent
          BY <2>1 DEF Reachable, Channels
        <4>3. QED
          BY <2>1, <2>3, <3>1, <4>1, <4>2, EndsByLink, OwnedMake DEF SessionInv, OfAgent
      <3>2. CASE p = "app_relay"
        <4>1. Makes[p] = "app_channel"
          BY <3>2 DEF Makes
        <4>2. QED
          BY <2>1, <2>3, <2>5, <3>2, <4>1, EndsByLink, OwnedMake DEF SessionInv, OfAgent
      <3>3. CASE p = "host_relay"
        <4>1. Makes[p] = "host_stdio"
          BY <3>3 DEF Makes
        <4>2. QED
          BY <2>1, <2>3, <2>5, <3>3, <4>1, EndsByLink, OwnedMake DEF SessionInv, OfAgent
      <3>4. CASE p = "exec_local"
        <4>1. Makes[p] = "exec_channel"
          BY <3>4 DEF Makes
        <4>2. agent
          BY <2>1, <4>1 DEF Reachable, Channels, SessionInv, Stages
        <4>3. QED
          BY <2>1, <2>3, <3>4, <4>1, <4>2, EndsByLink, OwnedMake DEF SessionInv, OfAgent
      <3>5. CASE p = "exec_remote"
        <4>1. Makes[p] = "exec_server"
          BY <3>5 DEF Makes
        <4>2. QED
          BY <2>1, <2>3, <2>5, <3>5, <4>1, EndsByLink, OwnedMake DEF SessionInv, OfAgent
      <3>6. QED
        BY <2>2, <3>1, <3>2, <3>3, <3>4, <3>5
    <2>7. Stages'
      <3>1. p = "app_relay" => "app_channel" \in made'
        BY <2>1 DEF Make, Makes
      <3>2. QED
        BY <2>1, <3>1 DEF SessionInv, Stages, Make
    <2>8. ChildrenStopped'
      BY <2>1, <2>5 DEF SessionInv, ChildrenStopped, OfAgent
    <2>9. QED
      BY <2>4, <2>6, <2>7, <2>8 DEF SessionInv
  <1>3. QED
    BY <1>1, <1>2 DEF RelayStep

\* A step of the session that closes only ends of its own and of its server's.
LEMMA InvStage ==
  ASSUME SessionInv, SessionStep
  PROVE  SessionInv'
  <1>1. CASE ReadHandshake \/ WaitForSocket \/ AcceptApp
    <2>1. /\ UNCHANGED <<made, open, alive, linked, agent, crashed>> /\ session \notin {"none", "gone"}
          /\ session' \in {"spawning", "accepting", "connecting"}
      BY <1>1 DEF ReadHandshake, WaitForSocket, AcceptApp, SessionGoes
    <2>2. TypeOK'
      BY <2>1, TypeKept DEF SessionInv, TypeOK
    <2>3. QED
      BY <2>1, <2>2 DEF SessionInv, Owned, Stages, ChildrenStopped
  <1>2. CASE StartServer
    <2>1. /\ UNCHANGED <<made, open, linked, agent, crashed>> /\ alive' = alive \cup {"server"}
          /\ session = "spawning" /\ session' = "waiting"
      BY <1>2 DEF StartServer, SessionGoes
    <2>2. TypeOK'
      BY <2>1, TypeKept DEF SessionInv, TypeOK
    <2>3. QED
      BY <2>1, <2>2 DEF SessionInv, Owned, Stages, ChildrenStopped
  <1>3. CASE ConnectUpstream
    <2>1. /\ UNCHANGED <<alive, linked, agent, crashed>> /\ Make("upstream") /\ "server" \in alive
          /\ session = "connecting" /\ session' = "opening"
      BY <1>3 DEF ConnectUpstream, SessionGoes
    <2>2. TypeOK'
      BY <2>1, TypeKept, AllLinks DEF SessionInv, TypeOK
    <2>3. Owned'
      BY <2>1, EndsByLink, AllLinks, OwnedMake DEF SessionInv, OfAgent
    <2>4. QED
      BY <2>1, <2>2, <2>3 DEF SessionInv, Stages, ChildrenStopped, Make
  <1>4. CASE OpenHost
    <2>1. /\ UNCHANGED <<alive, linked, agent, crashed>> /\ Make("host_channel") /\ linked
          /\ session = "opening" /\ session' = "running"
      BY <1>4 DEF OpenHost, SessionGoes
    <2>2. TypeOK'
      BY <2>1, TypeKept, AllLinks DEF SessionInv, TypeOK
    <2>3. Owned'
      BY <2>1, EndsByLink, AllLinks, OwnedMake DEF SessionInv, OfAgent, Stages
    <2>4. QED
      BY <2>1, <2>2, <2>3 DEF SessionInv, Stages, ChildrenStopped, Make
  <1>5. CASE ServerDials
    <2>1. /\ UNCHANGED <<alive, session, linked, agent, crashed>> /\ Make("exec_port") /\ "server" \in alive
      BY <1>5 DEF ServerDials
    <2>2. TypeOK'
      BY <2>1, TypeKept, AllLinks DEF SessionInv, TypeOK
    <2>3. Owned'
      BY <2>1, EndsByLink, AllLinks, OwnedMake DEF SessionInv, OfAgent
    <2>4. QED
      BY <2>1, <2>2, <2>3 DEF SessionInv, Stages, ChildrenStopped, Make
  <1>6. CASE RelayEnds
    <2>1. /\ UNCHANGED <<made, alive, linked, agent, crashed>> /\ open' = open \ EndsOf("session")
          /\ session = "running" /\ session' = "stopping"
      BY <1>6 DEF RelayEnds, SessionGoes
    <2>2. TypeOK'
      BY <2>1, TypeKept DEF SessionInv, TypeOK
    <2>3. Owned'
      BY <2>1, Closed DEF SessionInv, Owned
    <2>4. QED
      BY <2>1, <2>2, <2>3 DEF SessionInv, Stages, ChildrenStopped
  <1>7. CASE StartupFails \/ StopServer
    <2>1. /\ UNCHANGED <<made, linked, agent, crashed>> /\ alive' = alive \ {"server"}
          /\ session \notin {"none", "gone"} /\ session' = "gone" /\ open' \subseteq open
      BY <1>7 DEF StartupFails, StopServer, SessionGoes, Starting
    <2>2. TypeOK'
      BY <2>1, TypeKept DEF SessionInv, TypeOK
    <2>3. \A e \in open' : e[1] \notin {"session", "server"}
      <3>1. CASE StartupFails
        BY <3>1, Closed DEF StartupFails, SessionInv
      <3>2. CASE StopServer
        BY <3>2, Closed DEF StopServer, SessionGoes, SessionInv, Owned
      <3>3. QED
        BY <1>7, <3>1, <3>2
    <2>4. Owned'
      BY <2>1, <2>3 DEF SessionInv, Owned
    <2>5. QED
      BY <2>1, <2>2, <2>4 DEF SessionInv, Stages, ChildrenStopped
  <1>8. QED
    BY <1>1, <1>2, <1>3, <1>4, <1>5, <1>6, <1>7 DEF SessionStep

\* What comes from outside.
LEMMA InvOutside ==
  ASSUME SessionInv, Outside \/ AgentReturns \/ HostReadsEof
  PROVE  SessionInv'
  <1>1. CASE AppCloses \/ ControlKilled
    BY <1>1, InvClose DEF AppCloses, ControlKilled, SameSession
  <1>2. ASSUME NEW p \in {"server", "host"}, ChildExits(p)
        PROVE  SessionInv'
    <2>1. /\ UNCHANGED <<made, session, linked, agent, crashed>> /\ alive' = alive \ {p}
          /\ open' = open \ EndsOf(p)
      BY <1>2 DEF ChildExits, SameSession
    <2>2. TypeOK'
      BY <2>1, TypeKept DEF SessionInv, TypeOK
    <2>3. Owned'
      BY <2>1, Closed DEF SessionInv, Owned
    <2>4. QED
      BY <2>1, <2>2, <2>3 DEF SessionInv, Stages, ChildrenStopped
  <1>3. CASE LoseConnection
    <2>1. UNCHANGED <<made, open, alive, session, agent, crashed>> /\ linked' = FALSE
      BY <1>3 DEF LoseConnection
    <2>2. TypeOK'
      BY <2>1, TypeKept DEF SessionInv, TypeOK
    <2>3. QED
      BY <2>1, <2>2 DEF SessionInv, Owned, Stages, ChildrenStopped
  <1>4. CASE AgentReturns
    <2>1. /\ UNCHANGED <<made, session, linked, crashed>> /\ ~linked /\ agent' = FALSE
          /\ alive' = alive \ {"host"} /\ open' = open \ EndsOfAll(OfAgent \cup {"host", "exec"})
      BY <1>4 DEF AgentReturns
    <2>2. TypeOK'
      BY <2>1, TypeKept DEF SessionInv, TypeOK
    <2>3. \A e \in open' : e \in open /\ e[1] \notin OfAgent \cup {"host"}
      <3>1. \A q \in OfAgent \cup {"host"} : EndsOf(q) \cap open' = {}
        BY <2>1 DEF EndsOfAll
      <3>2. QED
        BY <2>1, <3>1, OpenEnd DEF SessionInv
    <2>4. Owned'
      BY <2>1, <2>3 DEF SessionInv, Owned
    <2>5. QED
      BY <2>1, <2>2, <2>4 DEF SessionInv, Stages, ChildrenStopped
  <1>5. CASE AgentKilled
    <2>1. /\ UNCHANGED <<made, alive, session>> /\ linked' = FALSE /\ agent' = FALSE
          /\ crashed' = crashed \cup {"agent"} /\ open' = open \ EndsOfAll(OfAgent)
      BY <1>5 DEF AgentKilled
    <2>2. TypeOK'
      BY <2>1, TypeKept DEF SessionInv, TypeOK
    <2>3. \A e \in open' : e \in open /\ e[1] \notin OfAgent
      <3>1. \A q \in OfAgent : EndsOf(q) \cap open' = {}
        BY <2>1 DEF EndsOfAll
      <3>2. QED
        BY <2>1, <3>1, OpenEnd DEF SessionInv
    <2>4. Owned'
      BY <2>1, <2>3 DEF SessionInv, Owned
    <2>5. QED
      BY <2>1, <2>2, <2>4 DEF SessionInv, Stages, ChildrenStopped
  <1>6. ASSUME NEW killed \in BOOLEAN, BridgeEnds(killed)
        PROVE  SessionInv'
    <2>1. /\ UNCHANGED <<made, agent>> /\ linked' = FALSE /\ session' = "gone"
          /\ \/ alive' = alive /\ crashed' = crashed \cup {"bridge"} /\ open' = open \ EndsOfAll(OfBridge)
             \/ /\ alive' = alive \ {"server"} /\ crashed' = crashed
                /\ open' = open \ EndsOfAll(OfBridge \cup {"server"})
      BY <1>6 DEF BridgeEnds
    <2>2. TypeOK'
      BY <2>1, TypeKept DEF SessionInv, TypeOK
    <2>3. \A e \in open' : /\ e \in open /\ e[1] # "session"
                           /\ e[1] = "server" => alive' = alive
      <3>1. /\ EndsOf("session") \cap open' = {}
            /\ alive' # alive => EndsOf("server") \cap open' = {}
        BY <2>1 DEF EndsOfAll, OfBridge
      <3>2. QED
        BY <2>1, <3>1, OpenEnd DEF SessionInv
    <2>4. Owned'
      <3>1. \A e \in open' : e[1] \in alive => e[1] = "session" \/ e[1] \in alive'
        BY <2>1, <2>3
      <3>2. \A e \in open' : e[1] \in OfAgent => agent'
        BY <2>1, <2>3 DEF SessionInv, Owned
      <3>3. \A e \in open' : e[1] # "session" /\ (e[1] \in {"server", "host"} => e[1] \in alive')
        BY <2>3, <3>1 DEF SessionInv, Owned
      <3>4. QED
        BY <3>2, <3>3 DEF Owned
    <2>5. QED
      BY <2>1, <2>2, <2>4 DEF SessionInv, Stages, ChildrenStopped
  <1>7. QED
    BY <1>1, <1>2, <1>3, <1>4, <1>5, <1>6 DEF Outside, HostReadsEof

LEMMA InvStopHost ==
  ASSUME SessionInv, StopHost
  PROVE  SessionInv'
  <1>1. /\ UNCHANGED <<made, session, linked, agent, crashed>> /\ alive' = alive \ {"host"}
        /\ open' = open \ EndsOf("host")
    BY DEF StopHost
  <1>2. TypeOK'
    BY <1>1, TypeKept DEF SessionInv, TypeOK
  <1>3. Owned'
    BY <1>1, Closed DEF SessionInv, Owned
  <1>4. QED
    BY <1>1, <1>2, <1>3 DEF SessionInv, Stages, ChildrenStopped

LEMMA InvInit == Init => SessionInv
  <1> SUFFICES ASSUME Init PROVE SessionInv
    OBVIOUS
  <1>2. TypeOK
    BY AllLinks DEF Init, TypeOK
  <1>3. Owned
    BY EndsByLink DEF Init, Owned, OfAgent
  <1>4. QED
    BY <1>2, <1>3 DEF Init, SessionInv, Stages, ChildrenStopped

LEMMA InvNext == SessionInv /\ [Next]_vars => SessionInv'
  <1> SUFFICES ASSUME SessionInv, [Next]_vars PROVE SessionInv'
    OBVIOUS
  <1>2. CASE UNCHANGED vars
    BY <1>2, InvClose DEF vars
  <1>3. CASE ProxyEnds \/ ProxyReads \/ HostRelayEnds
    BY <1>3, InvClose DEF ProxyEnds, ProxyReads, HostRelayEnds
  <1>4. CASE ClosesBack("exec", "exec_server") \/ ClosesBack("server", "exec_port")
    BY <1>4, InvClose DEF ClosesBack, SameSession
  <1>5. QED
    BY <1>2, <1>3, <1>4, InvRelay, InvStage, InvOutside, InvStopHost DEF Next
-----------------------------------------------------------------------------
(* Theorems *)

THEOREM SessionInvariant == Spec => []SessionInv
  BY InvInit, InvNext, PTL DEF Spec

\* No child outlives the process that started it, at whatever step that ended,
\* unless it was killed (kill_on_drop, stop_child, stop_exec_server).
THEOREM SessionChildrenStopped == Spec => []ChildrenStopped
  <1>1. SessionInv => ChildrenStopped
    BY DEF SessionInv
  <1>2. QED
    BY <1>1, SessionInvariant, PTL
=============================================================================
