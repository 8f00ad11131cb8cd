------------------------- MODULE ControlSocketProofs -------------------------
(***************************************************************************)
(* A control server leaves no client behind, and keeps its path against    *)
(* those that leave or were there before it: theorems of ControlSocket for *)
(* every number of servers and proxies.                                    *)
(***************************************************************************)
EXTENDS ControlSocket, FiniteSetTheorems, TLAPS

\* Has bound the path and not begun to leave.
Holding == {"listen", "guard", "serving"}

\* Has bound the path at some time.
Bound == Holding \cup Leaving \cup {"gone"}

Phases == {"unborn", "serving", "gone"} \cup Starting \cup Leaving

\* Who is connected has not come before and comes no more: an accepted client
\* is a new one.
ClientInv ==
  \A s \in Servers :
    /\ backlog[s] \cap relays[s] = {}
    /\ \A c \in backlog[s] \cup relays[s] :
         /\ c \in Servers => phase[c] = "gone"
         /\ c \in Proxies => proxy[c] \notin {"unborn", "connecting"}

\* The count of clients is right from the first to the last, and none has come
\* before the server serves.
CountInv ==
  \A s \in Servers :
    /\ IsFiniteSet(relays[s])
    /\ active[s] = Cardinality(relays[s]) + completed[s]
    /\ phase[s] \in Leaving => relays[s] = {}

\* Who still has the path, or was robbed of it: a server that was heard by one
\* that probed has lost it if that one found nobody; one that is about to remove
\* its own socket finds it, or nothing, or one that was robbed.
PathInv ==
  \A s \in Servers :
    /\ phase[s] \in Holding => path = s \/ s \in robbed
    /\ s \in listening => phase[s] \in Bound
    /\ \A t \in before[s] : phase[t] \in Bound /\ (phase[t] \in Holding => t \in robbed)
    /\ phase[s] = "unlink_own" /\ guard[s] = s => path \in {s, NoSocket} \cup robbed

ControlInv == TypeOK /\ ClientInv /\ CountInv /\ PathInv
-----------------------------------------------------------------------------
(* Types *)

USE DEF Goes, OnlyGoes, SameServers

LEMMA InitTypeOK == Init => TypeOK
  BY DEF Init, TypeOK

\* What the end of a server leaves.
LEMMA EndsType ==
  ASSUME TypeOK, NEW s \in Servers, Ends(s), path' \in Servers \cup {NoSocket}, robbed' \subseteq Servers
  PROVE  TypeOK'
  BY DEF TypeOK, Ends, Closes

LEMMA TypeStep ==
  ASSUME TypeOK, [Next]_vars
  PROVE  TypeOK'
  <1>1. ASSUME NEW s \in Servers, Start(s) \/ Prepare(s) \/ IdleExit(s) \/ DropGuard(s)
        PROVE  TypeOK'
    BY <1>1 DEF TypeOK, Start, Prepare, IdleExit, DropGuard, Starting, Leaving, socketVars, clientVars
  <1>2. ASSUME NEW s \in Servers, Probe(s)
        PROVE  TypeOK'
    BY <1>2 DEF TypeOK, Probe, Probed, Answers, Clients, Starting, socketVars
  <1>3. ASSUME NEW s \in Servers, Unlink(s)
        PROVE  TypeOK'
    <2>1. CASE path = NoSocket
      BY <1>3, <2>1, EndsType DEF TypeOK, Unlink
    <2>2. CASE path # NoSocket
      BY <1>3, <2>2 DEF TypeOK, Unlink, Starting, clientVars
    <2>3. QED
      BY <2>1, <2>2
  <1>4. ASSUME NEW s \in Servers, Bind(s)
        PROVE  TypeOK'
    <2>1. CASE path = NoSocket
      BY <1>4, <2>1 DEF TypeOK, Bind, Starting, clientVars
    <2>2. CASE path # NoSocket
      BY <1>4, <2>2 DEF TypeOK, Bind, Probed, Answers, Clients, socketVars
    <2>3. QED
      BY <2>1, <2>2
  <1>5. ASSUME NEW s \in Servers, Listen(s)
        PROVE  TypeOK'
    BY <1>5 DEF TypeOK, Listen, Starting, clientVars
  <1>6. ASSUME NEW s \in Servers, NoteSocket(s)
        PROVE  TypeOK'
    <2>1. CASE path = NoSocket
      BY <1>6, <2>1, EndsType DEF TypeOK, NoteSocket
    <2>2. CASE path # NoSocket
      BY <1>6, <2>2 DEF TypeOK, NoteSocket, socketVars, clientVars
    <2>3. QED
      BY <2>1, <2>2
  <1>7. ASSUME NEW s \in Servers, NEW c \in Clients, Accept(s, c) \/ RelayEnds(s, c)
        PROVE  TypeOK'
    BY <1>7 DEF TypeOK, Accept, RelayEnds, serverVars, socketVars
  <1>8. ASSUME NEW s \in Servers, Complete(s)
        PROVE  TypeOK'
    BY <1>8 DEF TypeOK, Complete, serverVars, socketVars
  <1>9. ASSUME NEW s \in Servers, UnlinkOwn(s)
        PROVE  TypeOK'
    BY <1>9 DEF TypeOK, UnlinkOwn, Leaving, clientVars
  <1>10. ASSUME NEW s \in Servers, Close(s) \/ Killed(s)
         PROVE  TypeOK'
    BY <1>10, EndsType DEF TypeOK, Close, Killed
  <1>11. ASSUME NEW p \in Proxies, StartProxy(p) \/ Connect(p) \/ GiveUp(p)
         PROVE  TypeOK'
    BY <1>11 DEF TypeOK, StartProxy, Connect, GiveUp, ProxyGoes, Answers, Clients, serverVars, socketVars, clientVars
  <1>12. CASE UNCHANGED vars
    BY <1>12 DEF TypeOK, vars, serverVars, socketVars, clientVars
  <1>13. QED
    BY <1>1, <1>2, <1>3, <1>4, <1>5, <1>6, <1>7, <1>8, <1>9, <1>10, <1>11, <1>12 DEF Next, ServerStep

\* The control socket's state keeps its types, for every number of servers and
\* proxies (serve_control_socket_at, proxy_control_socket).
THEOREM ControlTypeOK == Spec => []TypeOK
  BY InitTypeOK, TypeStep, PTL DEF Spec
-----------------------------------------------------------------------------
(* Clients *)

LEMMA InitClientInv == Init => ClientInv
  BY DEF Init, ClientInv

LEMMA EndsClientInv ==
  ASSUME TypeOK, ClientInv, NEW s \in Servers, Ends(s)
  PROVE  ClientInv'
  BY DEF TypeOK, ClientInv, Ends, Closes

\* Who connects now is in no other list.
LEMMA NewClient ==
  ASSUME TypeOK, ClientInv, NEW s \in Servers, NEW c \in Clients,
         c \in Servers => phase[c] # "gone" /\ phase' = [phase EXCEPT ![c] = "gone"] /\ proxy' = proxy,
         c \in Proxies => proxy[c] = "connecting" /\ proxy' = [proxy EXCEPT ![c] = "connected"] /\ phase' = phase,
         backlog' = [backlog EXCEPT ![s] = @ \cup {c}], relays' = relays
  PROVE  ClientInv'
  BY ProxiesAssumption DEF TypeOK, ClientInv, Clients

LEMMA ClientStep ==
  ASSUME TypeOK, ClientInv, [Next]_vars
  PROVE  ClientInv'
  <1>1. ASSUME NEW s \in Servers, Start(s) \/ Prepare(s) \/ IdleExit(s) \/ DropGuard(s) \/ Listen(s) \/ UnlinkOwn(s) \/ Complete(s)
        PROVE  ClientInv'
    BY <1>1 DEF TypeOK, ClientInv, Start, Prepare, IdleExit, DropGuard, Listen, UnlinkOwn, Complete, clientVars, serverVars
  <1>2. ASSUME NEW s \in Servers, Probe(s)
        PROVE  ClientInv'
    <2>1. CASE Answers
      <3>1. path \in Servers
        BY <2>1 DEF TypeOK, Answers
      <3>2. s \in Clients /\ s \notin Proxies
        BY ProxiesAssumption DEF Clients
      <3>3. QED
        BY <1>2, <2>1, <3>1, <3>2, NewClient DEF TypeOK, Probe, Probed
    <2>2. CASE ~Answers
      BY <1>2, <2>2 DEF TypeOK, ClientInv, Probe
    <2>3. QED
      BY <2>1, <2>2
  <1>3. ASSUME NEW s \in Servers, Unlink(s) \/ NoteSocket(s) \/ Close(s) \/ Killed(s)
        PROVE  ClientInv'
    <2>1. CASE Ends(s)
      BY <2>1, EndsClientInv
    <2>2. CASE ~Ends(s)
      BY <1>3, <2>2 DEF TypeOK, ClientInv, Unlink, NoteSocket, Close, Killed, clientVars
    <2>3. QED
      BY <2>1, <2>2
  <1>4. ASSUME NEW s \in Servers, Bind(s)
        PROVE  ClientInv'
    <2>1. CASE path # NoSocket /\ Answers
      <3>1. path \in Servers
        BY <2>1 DEF TypeOK, Answers
      <3>2. s \in Clients /\ s \notin Proxies
        BY ProxiesAssumption DEF Clients
      <3>3. QED
        BY <1>4, <2>1, <3>1, <3>2, NewClient DEF TypeOK, Bind, Probed
    <2>2. CASE ~(path # NoSocket /\ Answers)
      BY <1>4, <2>2 DEF TypeOK, ClientInv, Bind, clientVars
    <2>3. QED
      BY <2>1, <2>2
  <1>5. ASSUME NEW s \in Servers, NEW c \in Clients, Accept(s, c)
        PROVE  ClientInv'
    BY <1>5 DEF TypeOK, ClientInv, Accept, serverVars
  <1>6. ASSUME NEW s \in Servers, NEW c \in Clients, RelayEnds(s, c)
        PROVE  ClientInv'
    BY <1>6 DEF TypeOK, ClientInv, RelayEnds, serverVars
  <1>7. ASSUME NEW p \in Proxies, Connect(p)
        PROVE  ClientInv'
    <2>1. path \in Servers /\ p \in Clients /\ p \notin Servers
      BY <1>7, ProxiesAssumption DEF TypeOK, Connect, Answers, Clients
    <2>2. QED
      BY <1>7, <2>1, NewClient DEF Connect, ProxyGoes, serverVars
  <1>8. ASSUME NEW p \in Proxies, StartProxy(p) \/ GiveUp(p)
        PROVE  ClientInv'
    BY <1>8 DEF TypeOK, ClientInv, StartProxy, GiveUp, ProxyGoes, serverVars, clientVars
  <1>9. CASE UNCHANGED vars
    BY <1>9 DEF ClientInv, vars, serverVars, clientVars
  <1>10. QED
    BY <1>1, <1>2, <1>3, <1>4, <1>5, <1>6, <1>7, <1>8, <1>9 DEF Next, ServerStep

-----------------------------------------------------------------------------
(* The count of clients *)

LEMMA InitCountInv == Init => CountInv
  BY FS_EmptySet DEF Init, CountInv, Leaving

LEMMA EndsCountInv ==
  ASSUME TypeOK, CountInv, NEW s \in Servers, Ends(s)
  PROVE  CountInv'
  BY FS_EmptySet DEF TypeOK, CountInv, Ends, Closes

\* No server begins to leave, no relay begins or ends.
LEMMA SameCount ==
  ASSUME TypeOK, CountInv, NEW s \in Servers, NEW to, phase[s] \in Leaving \/ to \notin Leaving,
         phase' = [phase EXCEPT ![s] = to] \/ phase' = phase,
         UNCHANGED <<relays, active, completed>>
  PROVE  CountInv'
  BY DEF TypeOK, CountInv

LEMMA CountStep ==
  ASSUME TypeOK, ClientInv, CountInv, [Next]_vars
  PROVE  CountInv'
  <1>1. ASSUME NEW s \in Servers, Start(s) \/ Probe(s) \/ Prepare(s) \/ Bind(s) \/ Listen(s) \/ DropGuard(s) \/ UnlinkOwn(s)
        PROVE  CountInv'
    BY <1>1, SameCount DEF Start, Probe, Prepare, Bind, Listen, DropGuard, UnlinkOwn, clientVars, Leaving
  <1>2. ASSUME NEW s \in Servers, Unlink(s) \/ NoteSocket(s) \/ Close(s) \/ Killed(s)
        PROVE  CountInv'
    <2>1. CASE Ends(s)
      BY <2>1, EndsCountInv
    <2>2. CASE ~Ends(s)
      BY <1>2, <2>2, SameCount DEF Unlink, NoteSocket, Close, Killed, clientVars, Leaving
    <2>3. QED
      BY <2>1, <2>2
  <1>3. ASSUME NEW s \in Servers, IdleExit(s)
        PROVE  CountInv'
    <2>1. IsFiniteSet(relays[s]) /\ active[s] = 0 /\ active[s] = Cardinality(relays[s]) + completed[s]
      BY <1>3 DEF IdleExit, CountInv
    <2>2. Cardinality(relays[s]) \in Nat /\ completed[s] \in Nat
      BY <2>1, FS_CardinalityType DEF TypeOK
    <2>3. relays[s] = {}
      BY <2>1, <2>2, FS_EmptySet
    <2>4. QED
      BY <1>3, <2>3 DEF TypeOK, CountInv, IdleExit, clientVars
  <1>4. ASSUME NEW s \in Servers, NEW c \in Clients, Accept(s, c)
        PROVE  CountInv'
    <2>1. c \notin relays[s] /\ IsFiniteSet(relays[s])
      BY <1>4 DEF Accept, ClientInv, CountInv
    <2>2. /\ IsFiniteSet(relays[s] \cup {c})
          /\ Cardinality(relays[s] \cup {c}) = Cardinality(relays[s]) + 1
      BY <2>1, FS_AddElement
    <2>3. Cardinality(relays[s]) \in Nat
      BY <2>1, FS_CardinalityType
    <2>4. QED
      BY <1>4, <2>2, <2>3 DEF TypeOK, CountInv, Accept, serverVars, Leaving
  <1>5. ASSUME NEW s \in Servers, NEW c \in Clients, RelayEnds(s, c)
        PROVE  CountInv'
    <2>1. c \in relays[s] /\ IsFiniteSet(relays[s])
      BY <1>5 DEF RelayEnds, CountInv
    <2>2. /\ IsFiniteSet(relays[s] \ {c})
          /\ Cardinality(relays[s] \ {c}) = Cardinality(relays[s]) - 1
      BY <2>1, FS_RemoveElement
    <2>3. Cardinality(relays[s]) \in Nat
      BY <2>1, FS_CardinalityType
    <2>4. QED
      BY <1>5, <2>1, <2>2, <2>3 DEF TypeOK, CountInv, RelayEnds, serverVars
  <1>6. ASSUME NEW s \in Servers, Complete(s)
        PROVE  CountInv'
    <2>1. Cardinality(relays[s]) \in Nat
      BY FS_CardinalityType DEF CountInv
    <2>2. QED
      BY <1>6, <2>1 DEF TypeOK, CountInv, Complete, serverVars
  <1>7. ASSUME NEW p \in Proxies, StartProxy(p) \/ Connect(p) \/ GiveUp(p)
        PROVE  CountInv'
    BY <1>7 DEF CountInv, StartProxy, Connect, GiveUp, ProxyGoes, serverVars, clientVars
  <1>8. CASE UNCHANGED vars
    BY <1>8 DEF CountInv, vars, serverVars, clientVars
  <1>9. QED
    BY <1>1, <1>2, <1>3, <1>4, <1>5, <1>6, <1>7, <1>8 DEF Next, ServerStep
-----------------------------------------------------------------------------
(* The path *)

LEMMA InitPathInv == Init => PathInv
  BY DEF Init, PathInv, Holding

\* A process that ends leaves the path and what others know as they are.
LEMMA EndsPathInv ==
  ASSUME TypeOK, PathInv, NEW s \in Servers, Ends(s), UNCHANGED <<path, robbed>>
  PROVE  PathInv'
  BY DEF TypeOK, PathInv, Ends, Closes, Holding, Bound

\* A step of a server that does not touch the path.
LEMMA SamePath ==
  ASSUME TypeOK, PathInv, NEW s \in Servers, NEW to,
         phase[s] \in Bound => to \in Bound,
         to \in Holding => phase[s] \in Holding,
         to # "unlink_own",
         phase' = [phase EXCEPT ![s] = to] \/ phase' = phase,
         before' = before \/ before' = [before EXCEPT ![s] = {}],
         UNCHANGED <<guard, socketVars>>
  PROVE  PathInv'
  BY DEF TypeOK, PathInv, socketVars, Holding, Bound

LEMMA PathStep ==
  ASSUME TypeOK, PathInv, [Next]_vars
  PROVE  PathInv'
  <1>1. ASSUME NEW s \in Servers, Start(s) \/ Prepare(s) \/ IdleExit(s)
        PROVE  PathInv'
    BY <1>1, SamePath DEF Start, Prepare, IdleExit, Holding, Bound, Leaving
  <1>2. ASSUME NEW s \in Servers, Probe(s)
        PROVE  PathInv'
    <2>1. CASE Answers
      BY <1>2, <2>1, SamePath DEF Probe, Holding, Bound, Leaving
    <2>2. CASE ~Answers
      BY <1>2, <2>2 DEF TypeOK, PathInv, Probe, Answers, Holding, Bound, Leaving, socketVars
    <2>3. QED
      BY <2>1, <2>2
  <1>3. ASSUME NEW s \in Servers, Unlink(s)
        PROVE  PathInv'
    <2>1. CASE path = NoSocket
      BY <1>3, <2>1, EndsPathInv DEF Unlink
    <2>2. CASE path # NoSocket
      BY <1>3, <2>2, NoSocketAssumption DEF TypeOK, PathInv, Unlink, Holding, Bound, Leaving
    <2>3. QED
      BY <2>1, <2>2
  <1>4. ASSUME NEW s \in Servers, Bind(s)
        PROVE  PathInv'
    <2>1. CASE path = NoSocket
      BY <1>4, <2>1, NoSocketAssumption DEF TypeOK, PathInv, Bind, Holding, Bound, Leaving
    <2>2. CASE path # NoSocket
      BY <1>4, <2>2, SamePath DEF Bind, Holding, Bound, Leaving
    <2>3. QED
      BY <2>1, <2>2
  <1>5. ASSUME NEW s \in Servers, Listen(s)
        PROVE  PathInv'
    BY <1>5 DEF TypeOK, PathInv, Listen, Holding, Bound, Leaving
  <1>6. ASSUME NEW s \in Servers, NoteSocket(s)
        PROVE  PathInv'
    <2>1. CASE path = NoSocket
      BY <1>6, <2>1, EndsPathInv DEF NoteSocket
    <2>2. CASE path # NoSocket
      BY <1>6, <2>2 DEF TypeOK, PathInv, NoteSocket, Holding, Bound, Leaving, socketVars
    <2>3. QED
      BY <2>1, <2>2
  <1>7. ASSUME NEW s \in Servers, DropGuard(s)
        PROVE  PathInv'
    BY <1>7 DEF TypeOK, PathInv, DropGuard, Holding, Bound, Leaving, socketVars
  <1>8. ASSUME NEW s \in Servers, UnlinkOwn(s)
        PROVE  PathInv'
    BY <1>8, NoSocketAssumption DEF TypeOK, PathInv, UnlinkOwn, Holding, Bound, Leaving
  <1>9. ASSUME NEW s \in Servers, Close(s) \/ Killed(s)
        PROVE  PathInv'
    BY <1>9, EndsPathInv DEF Close, Killed
  <1>10. ASSUME UNCHANGED <<serverVars, socketVars>>
         PROVE  PathInv'
    BY <1>10 DEF PathInv, serverVars, socketVars
  <1>11. QED
    BY <1>1, <1>2, <1>3, <1>4, <1>5, <1>6, <1>7, <1>8, <1>9, <1>10
    DEF Next, ServerStep, Accept, RelayEnds, Complete, StartProxy, Connect, GiveUp, ProxyGoes, vars

-----------------------------------------------------------------------------
(* Theorems *)

\* The inductive invariant: clients are counted once, the count is right, and
\* whoever has bound the path still has it or was robbed of it.
THEOREM ControlInvariant == Spec => []ControlInv
  <1>1. Init => ControlInv
    BY InitTypeOK, InitClientInv, InitCountInv, InitPathInv DEF ControlInv
  <1>2. ControlInv /\ [Next]_vars => ControlInv'
    BY TypeStep, ClientStep, CountStep, PathStep DEF ControlInv
  <1>3. QED
    BY <1>1, <1>2, PTL DEF Spec

\* A server counts its clients right and leaves none of those it has accepted
\* (active and completed_rx in serve_control_socket_at).
THEOREM ControlClientsKept == Spec => []ClientsKept
  <1>1. ControlInv => ClientsKept
    BY DEF ControlInv, CountInv, ClientsKept
  <1>2. QED
    BY <1>1, ControlInvariant, PTL

\* The path leads to the server that serves, but for those that another took
\* it from while both were at work on it (SocketGuard, prepare_control_socket).
THEOREM ControlPathServed == Spec => []PathServed
  <1>1. ControlInv => PathServed
    BY DEF ControlInv, PathInv, PathServed, Holding
  <1>2. QED
    BY <1>1, ControlInvariant, PTL
=============================================================================
