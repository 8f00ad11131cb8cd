--------------------------------- MODULE Mux ---------------------------------
(***************************************************************************)
(* One multiplexed ssh session: crates/cxs-mux/src/lib.rs at both ends,    *)
(* with the loops of the agent (serve_agent_mux) and of the bridge         *)
(* (serve_multiplexed) that accept its channels.  At each end a driver     *)
(* task alone polls the Yamux connection; the tasks that hold streams      *)
(* reach it through a bounded queue of commands, and it runs only when it  *)
(* is woken.  A channel begins with a header of two writes, which the      *)
(* accepting end reads in a task of its own.                               *)
(*                                                                         *)
(* The bridge stops its ssh when its loop ends.  The agent's process ends  *)
(* when its loop has ended and the read of its stdin that is under way     *)
(* has returned: a blocking read, which the runtime waits for and cannot   *)
(* stop.                                                                   *)
(*                                                                         *)
(* Yamux is external: a connection that is polled sends what its streams   *)
(* have queued, and one that has MaxStreams streams refuses the next, by   *)
(* an error or by closing.  What is sent arrives when it is sent.  What    *)
(* follows the header is any number of operations of the end that accepted *)
(* the channel; those of the opener, the same, are left out.               *)
(***************************************************************************)
EXTENDS Integers, Sequences, FiniteSets, Functions

CONSTANTS
  AppChannels,      \* channels the agent opens, one per client of its socket
  BridgeChannels,   \* channels the bridge opens, Exec and Host
  Lasting,          \* bound of the model: channels that last as long as the connection
  Capacity,         \* bound of the queues of commands and of incoming channels
  MaxStreams        \* MAX_STREAMS

ASSUME ChannelsAssumption == AppChannels \cap BridgeChannels = {}
ASSUME LastingAssumption == Lasting \subseteq AppChannels \cup BridgeChannels
ASSUME WakeAssumption == "wake" \notin AppChannels \cup BridgeChannels
ASSUME CapacityAssumption == Capacity \in Nat \ {0}
ASSUME MaxStreamsAssumption == MaxStreams \in Nat \ {0}

Ends == {"agent", "bridge"}
Channels == AppChannels \cup BridgeChannels
Opener(c) == IF c \in AppChannels THEN "agent" ELSE "bridge"
Peer(e) == CHOOSE f \in Ends : f # e
Streams == Ends \X Channels

VARIABLES
  stage,       \* per channel, how far open() has come
  accepted,    \* per channel, how far identify_inbound has come
  written,     \* per channel, the parts of the header its stream has taken
  arrived,     \* per channel, those the other end can read
  step,        \* per stream, where its holder is within one operation
  work,        \* streams with something their connection has not looked at
  closed,      \* streams their holders have dropped
  commands,    \* per end, the queue of DriverCommands
  awake,       \* ends whose driver will poll the connection before it sleeps
  over,        \* ends whose driver has returned
  refusing,    \* ends whose connection Yamux has closed
  faults,      \* ends with an inbound channel that could not be identified
  incoming,    \* per end, the queue of identified channels
  serving,     \* ends whose accepting loop runs
  connected    \* the ssh connection

channelVars == <<stage, accepted, written, arrived>>
streamVars == <<step, work, closed>>
driverVars == <<commands, awake, over, refusing, faults>>
loopVars == <<incoming, serving, connected>>
vars == <<channelVars, streamVars, driverVars, loopVars>>

Wake == "wake"
HeaderParts == 2      \* STREAM_MAGIC and the code of the kind

TypeOK ==
  /\ stage \in [Channels -> {"none", "asking", "asked", "header", "labelled", "failed"}]
  /\ accepted \in [Channels -> {"no", "identifying", "queued", "relayed", "rejected"}]
  /\ written \in [Channels -> 0..HeaderParts]
  /\ arrived \in [Channels -> 0..HeaderParts]
  /\ step \in [Streams -> {"idle", "woken", "polled"}]
  /\ work \subseteq Streams /\ closed \subseteq Streams
  /\ commands \in [Ends -> Seq(Channels \cup {Wake})]
  /\ \A e \in Ends : Len(commands[e]) <= Capacity
  /\ awake \subseteq Ends /\ over \subseteq Ends /\ refusing \subseteq Ends /\ faults \subseteq Ends
  /\ incoming \in [Ends -> Seq(Channels)]
  /\ \A e \in Ends : Len(incoming[e]) <= Capacity
  /\ serving \subseteq Ends
  /\ connected \in BOOLEAN

Init ==
  /\ stage = [c \in Channels |-> "none"]
  /\ accepted = [c \in Channels |-> "no"]
  /\ written = [c \in Channels |-> 0]
  /\ arrived = [c \in Channels |-> 0]
  /\ step = [s \in Streams |-> "idle"]
  /\ work = {} /\ closed = {}
  /\ commands = [e \in Ends |-> <<>>]
  /\ awake = Ends /\ over = {} /\ refusing = {} /\ faults = {}
  /\ incoming = [e \in Ends |-> <<>>]
  /\ serving = Ends
  /\ connected = TRUE

\* A stream that exists at its end: allocated or accepted, not dropped.
Live(e, c) ==
  /\ <<e, c>> \notin closed
  /\ IF e = Opener(c) THEN stage[c] \in {"header", "labelled"}
                      ELSE accepted[c] \notin {"no", "rejected"}

AtLimit(e) == Cardinality({c \in Channels : Live(e, c)}) >= MaxStreams

-----------------------------------------------------------------------------
(* A stream and its driver *)

\* try_send: a full queue has woken the driver as well.
TryWake(e) ==
  IF e \notin over /\ Len(commands[e]) < Capacity
  THEN /\ commands' = [commands EXCEPT ![e] = Append(@, Wake)]
       /\ awake' = awake \cup {e}
  ELSE UNCHANGED <<commands, awake>>

\* A task that holds the stream: open(), or the relay of the channel.
Held(e, c) ==
  /\ Live(e, c)
  /\ e # Opener(c) => accepted[c] = "relayed"

\* An operation of MuxStream wakes the driver ...
WakeBefore(e, c) ==
  /\ Held(e, c) /\ e \notin over
  /\ e = Opener(c) => stage[c] = "header"
  /\ step[<<e, c>>] = "idle"
  /\ step' = [step EXCEPT ![<<e, c>>] = "woken"]
  /\ TryWake(e)
  /\ UNCHANGED <<channelVars, work, closed, over, refusing, faults, loopVars>>

\* ... polls the stream, which may leave work for the connection ...
PollStream(e, c) ==
  /\ step[<<e, c>>] = "woken"
  /\ step' = [step EXCEPT ![<<e, c>>] = "polled"]
  /\ work' = work \cup {<<e, c>>}
  /\ written' = IF e = Opener(c) /\ written[c] < HeaderParts
                THEN [written EXCEPT ![c] = @ + 1] ELSE written
  /\ UNCHANGED <<stage, accepted, arrived, closed, driverVars, loopVars>>

\* Defect: the driver is woken only before the operation.
WakeAfter_Missing(e, c) ==
  /\ step[<<e, c>>] = "polled"
  /\ step' = [step EXCEPT ![<<e, c>>] = "idle"]
  /\ stage' = IF e = Opener(c) /\ written[c] = HeaderParts
              THEN [stage EXCEPT ![c] = "labelled"] ELSE stage
  /\ UNCHANGED <<accepted, written, arrived, work, closed, driverVars, loopVars>>

\* ... and wakes it again: it may have polled the connection in between.
\* The header's last operation ends open().
WakeAfter(e, c) ==
  /\ step[<<e, c>>] = "polled"
  /\ step' = [step EXCEPT ![<<e, c>>] = "idle"]
  /\ TryWake(e)
  /\ stage' = IF e = Opener(c) /\ written[c] = HeaderParts
              THEN [stage EXCEPT ![c] = "labelled"] ELSE stage
  /\ UNCHANGED <<accepted, written, arrived, work, closed, over, refusing, faults, loopVars>>

\* A relay is done with its stream, learns that the other is, or finds the
\* connection gone.
Drop(e, c) ==
  /\ Held(e, c) /\ step[<<e, c>>] = "idle"
  /\ e = Opener(c) => stage[c] = "labelled"
  /\ \/ e = Opener(c) /\ c \notin Lasting
     \/ e # Opener(c) /\ <<Opener(c), c>> \in closed
     \/ e \in over
  /\ closed' = closed \cup {<<e, c>>}
  /\ work' = work \ {<<e, c>>}
  /\ UNCHANGED <<channelVars, step, driverVars, loopVars>>

-----------------------------------------------------------------------------
(* open() *)

\* A client of the agent's socket, a session or an Exec connection wants one.
AskOpen(c) ==
  /\ Opener(c) \in serving
  /\ stage[c] = "none"
  /\ stage' = [stage EXCEPT ![c] = "asking"]
  /\ UNCHANGED <<accepted, written, arrived, streamVars, driverVars, loopVars>>

\* send() waits for room.
SendOpen(c) == LET e == Opener(c) IN
  /\ stage[c] = "asking"
  /\ e \notin over /\ Len(commands[e]) < Capacity
  /\ stage' = [stage EXCEPT ![c] = "asked"]
  /\ commands' = [commands EXCEPT ![e] = Append(@, c)]
  /\ awake' = awake \cup {e}
  /\ UNCHANGED <<accepted, written, arrived, streamVars, over, refusing, faults, loopVars>>

\* Defect: an open that has returned fails as well.
OpenFails_Late(c) == LET e == Opener(c) IN
  /\ stage[c] \in {"asking", "asked", "header", "labelled"}
  /\ e \in over
  /\ stage' = [stage EXCEPT ![c] = "failed"]
  /\ step' = [step EXCEPT ![<<e, c>>] = "idle"]
  /\ UNCHANGED <<accepted, written, arrived, work, closed, driverVars, loopVars>>

\* The driver is gone: no one to ask, no answer, or no connection to write to.
OpenFails(c) == LET e == Opener(c) IN
  /\ stage[c] \in {"asking", "asked", "header"}
  /\ e \in over
  /\ stage' = [stage EXCEPT ![c] = "failed"]
  /\ step' = [step EXCEPT ![<<e, c>>] = "idle"]
  /\ UNCHANGED <<accepted, written, arrived, work, closed, driverVars, loopVars>>

-----------------------------------------------------------------------------
(* The driver: run_driver *)

Running(e) == e \notin over

Received(e) ==
  /\ Running(e) /\ commands[e] # <<>>
  /\ commands' = [commands EXCEPT ![e] = Tail(@)]
  /\ UNCHANGED <<accepted, written, arrived, streamVars, awake, over, faults, loopVars>>

ReceiveWake(e) ==
  /\ Received(e)
  /\ Head(commands[e]) = Wake
  /\ UNCHANGED <<stage, refusing>>

\* Defect: at the limit the driver waits for a stream to go.
ReceiveOpen_Waits(e) ==
  /\ Received(e)
  /\ Head(commands[e]) # Wake
  /\ ~AtLimit(e)
  /\ stage' = [stage EXCEPT ![Head(commands[e])] = "header"]
  /\ UNCHANGED refusing

\* At the limit Yamux answers with an error, and may close the connection.
ReceiveOpen(e) ==
  /\ Received(e)
  /\ Head(commands[e]) # Wake
  /\ \/ /\ ~AtLimit(e) /\ e \notin refusing
        /\ stage' = [stage EXCEPT ![Head(commands[e])] = "header"]
        /\ UNCHANGED refusing
     \/ /\ AtLimit(e) \/ e \in refusing
        /\ stage' = [stage EXCEPT ![Head(commands[e])] = "failed"]
        /\ refusing' \in {refusing, refusing \cup {e}}

\* Polling the connection sends what the streams have queued; then, with no
\* command to take, the driver sleeps until one, the network or a fault wakes it.
\* What reaches an agent that only waits for its stdin lets it exit.
PollConnection(e) == LET pending == {c \in Channels : <<e, c>> \in work} IN
  /\ Running(e) /\ e \in awake
  /\ connected /\ e \notin refusing
  /\ arrived' = [c \in Channels |-> IF c \in pending /\ e = Opener(c) THEN written[c] ELSE arrived[c]]
  /\ connected' = ~(e = "bridge" /\ pending # {} /\ "agent" \in over)
  /\ work' = work \ ({e} \X pending)
  /\ awake' = (IF commands[e] = <<>> THEN awake \ {e} ELSE awake)
              \cup (IF pending = {} THEN {} ELSE {Peer(e)} \ over)
  /\ UNCHANGED <<stage, accepted, written, step, closed, commands, over, refusing, faults, incoming, serving>>

\* A new inbound stream: a task of its own reads the header.  One more than
\* MaxStreams makes Yamux close the connection.
Accept(e, c) ==
  /\ Running(e) /\ connected /\ e \notin refusing
  /\ e # Opener(c) /\ accepted[c] = "no" /\ arrived[c] > 0
  /\ IF AtLimit(e)
       THEN refusing' = refusing \cup {e} /\ UNCHANGED accepted
       ELSE accepted' = [accepted EXCEPT ![c] = "identifying"] /\ UNCHANGED refusing
  /\ awake' = awake \cup {e}
  /\ UNCHANGED <<stage, written, arrived, streamVars, commands, over, faults, loopVars>>

\* Defect: the queue outlives the driver that read it.
DriverEnds_KeepsCommands(e) ==
  /\ Running(e)
  /\ \/ ~connected \/ e \in refusing \/ e \in faults
     \/ e = "agent" /\ e \notin serving
  /\ over' = over \cup {e}
  /\ connected' = (connected /\ e # "bridge")
  /\ awake' = awake \ {e} /\ refusing' = refusing \ {e} /\ faults' = faults \ {e}
  /\ UNCHANGED <<commands, channelVars, streamVars, incoming, serving>>

\* The connection failed or closed, an inbound channel was not identified, or
\* run_agent has returned and its tasks go.  The bridge's driver holds the
\* pipes of its ssh; the agent's stdin and stdout outlive its driver.
DriverEnds(e) ==
  /\ Running(e)
  /\ \/ ~connected \/ e \in refusing \/ e \in faults
     \/ e = "agent" /\ e \notin serving
  /\ over' = over \cup {e}
  /\ connected' = (connected /\ e # "bridge")
  /\ commands' = [commands EXCEPT ![e] = <<>>]
  /\ awake' = awake \ {e} /\ refusing' = refusing \ {e} /\ faults' = faults \ {e}
  /\ UNCHANGED <<channelVars, streamVars, incoming, serving>>

-----------------------------------------------------------------------------
(* Inbound channels *)

Fault(e) == faults' = IF e \in over THEN faults ELSE faults \cup {e}

SameButAccepted == UNCHANGED <<stage, written, arrived, streamVars, commands, awake, over, refusing>>

\* The header is whole: the channel goes to the accepting loop when its queue
\* has room, or nowhere if the loop has ended.
Identify(c) == LET e == Peer(Opener(c)) IN
  /\ accepted[c] = "identifying" /\ arrived[c] = HeaderParts
  /\ IF e \in serving
       THEN /\ Len(incoming[e]) < Capacity
            /\ incoming' = [incoming EXCEPT ![e] = Append(@, c)]
            /\ accepted' = [accepted EXCEPT ![c] = "queued"]
            /\ UNCHANGED faults
       ELSE /\ accepted' = [accepted EXCEPT ![c] = "rejected"]
            /\ Fault(e)
            /\ UNCHANGED incoming
  /\ SameButAccepted /\ UNCHANGED <<serving, connected>>

\* Ten seconds without the whole header, or the stream ends before it.
IdentifyFails(c) ==
  /\ accepted[c] = "identifying" /\ arrived[c] < HeaderParts
  /\ accepted' = [accepted EXCEPT ![c] = "rejected"]
  /\ Fault(Peer(Opener(c)))
  /\ SameButAccepted /\ UNCHANGED loopVars

-----------------------------------------------------------------------------
(* The accepting loops: serve_agent_mux, serve_multiplexed *)

\* A relay of its own takes the channel.  Its kind is one this end accepts:
\* the agent opens App channels only and the bridge never does.
Take(e) ==
  /\ e \in serving /\ incoming[e] # <<>>
  /\ incoming' = [incoming EXCEPT ![e] = Tail(@)]
  /\ accepted' = [accepted EXCEPT ![Head(incoming[e])] = "relayed"]
  /\ SameButAccepted /\ UNCHANGED <<faults, serving, connected>>

\* Defect: the bridge leaves its ssh to end by itself.
LoopEnds_KeepsConnection(e) ==
  /\ e \in serving
  /\ serving' = serving \ {e}
  /\ incoming' = [incoming EXCEPT ![e] = <<>>]
  /\ accepted' = [c \in Channels |->
       IF accepted[c] = "queued" /\ Opener(c) # e THEN "rejected" ELSE accepted[c]]
  /\ SameButAccepted /\ UNCHANGED <<faults, connected>>

\* run_agent returns; the bridge stops its ssh.
LoopEnds(e) ==
  /\ e \in serving
  /\ serving' = serving \ {e}
  /\ connected' = (connected /\ e = "agent")
  /\ incoming' = [incoming EXCEPT ![e] = <<>>]
  /\ accepted' = [c \in Channels |->
       IF accepted[c] = "queued" /\ Opener(c) # e THEN "rejected" ELSE accepted[c]]
  /\ SameButAccepted /\ UNCHANGED faults

\* A signal, an accept that failed or, at the agent, an Exec Server that did
\* not start.
Stop(e) == LoopEnds(e)

\* mux.task has returned.
NoticeOver(e) == e \in over /\ LoopEnds(e)

\* The network, or the agent's process is killed.
LoseConnection ==
  /\ connected
  /\ connected' = FALSE
  /\ UNCHANGED <<channelVars, streamVars, driverVars, incoming, serving>>

-----------------------------------------------------------------------------
StreamStep(e, c) == WakeBefore(e, c) \/ PollStream(e, c) \/ WakeAfter(e, c) \/ Drop(e, c)

ChannelStep(c) ==
  AskOpen(c) \/ SendOpen(c) \/ OpenFails(c) \/ Identify(c) \/ IdentifyFails(c)

EndStep(e) ==
  ReceiveWake(e) \/ ReceiveOpen(e) \/ PollConnection(e) \/ DriverEnds(e) \/ Take(e) \/ Stop(e) \/ NoticeOver(e)

Next ==
  \/ \E e \in Ends, c \in Channels : StreamStep(e, c) \/ Accept(e, c)
  \/ \E c \in Channels : ChannelStep(c)
  \/ \E e \in Ends : EndStep(e)
  \/ LoseConnection

Spec == Init /\ [][Next]_vars

\* What happens to an end or a channel a bounded number of times in a
\* behaviour, so that fairness to all of it is fairness to each.
Settling ==
  \/ \E e \in Ends : DriverEnds(e) \/ NoticeOver(e) \/ Take(e)
  \/ \E c \in Channels : OpenFails(c) \/ Identify(c) \/ IdentifyFails(c)
  \/ \E e \in Ends, c \in Channels : Accept(e, c) \/ (e \in over /\ Drop(e, c))
  \/ \E c \in Channels : stage[c] = "header" /\ WakeBefore(Opener(c), c)

\* Every task runs while it can, select! takes each of its arms in the end, a
\* timer fires, and the queue's permits are given in order: who waits for room
\* gets it.  A holder is not obliged to begin an operation, except to write the
\* header, nor to drop its stream, except when the connection is gone.
Fairness ==
  /\ WF_vars(Settling)
  /\ SF_vars(\E c \in Channels : SendOpen(c))
  /\ \A e \in Ends : WF_vars(ReceiveWake(e) \/ ReceiveOpen(e)) /\ WF_vars(PollConnection(e))
  /\ \A e \in Ends, c \in Channels : WF_vars(PollStream(e, c) \/ WakeAfter(e, c))

FairSpec == Spec /\ Fairness

-----------------------------------------------------------------------------
(* Properties *)

\* No wake-up is lost: while a driver runs, a command in its queue finds it
\* awake, and so does what an operation has left for the connection, unless its
\* holder has yet to wake the driver once more (MuxStream::wake_driver, run_driver).
WakesKept ==
  \A e \in Ends \ over :
    /\ commands[e] # <<>> => e \in awake
    /\ \A c \in Channels : <<e, c>> \in work => e \in awake \/ step[<<e, c>>] = "polled"

\* No channel stands in a queue twice.
Once(queue) == \A i, j \in DOMAIN queue : queue[i] = queue[j] /\ queue[i] # Wake => i = j

\* Who asks for a channel is in the queue of its driver until the driver answers
\* or ends, and a channel that is identified in that of its accepting loop until
\* the loop takes it or ends: each once, and nothing else is (run_driver,
\* identify_inbound, serve_agent_mux, serve_multiplexed).
QueuesExact ==
  \A e \in Ends :
    /\ Once(commands[e]) /\ Once(incoming[e])
    /\ \A c \in Channels :
         /\ c \in Range(commands[e]) <=> e = Opener(c) /\ e \notin over /\ stage[c] = "asked"
         /\ c \in Range(incoming[e]) <=> e # Opener(c) /\ accepted[c] = "queued"
    /\ e \notin serving => incoming[e] = <<>>

\* An open is answered once: a channel that was given stays given, and one that
\* was refused refused (MuxHandle::open).
AnswersFinal ==
  [][\A c \in Channels : stage[c] \in {"labelled", "failed"} => stage'[c] = stage[c]]_vars

\* What the opener of a channel knows of it, and the accepting end has done.
NearOf(c) ==
  CASE stage[c] \in {"none", "asked"} -> stage[c]
    [] stage[c] = "asking" -> "asked"
    [] stage[c] = "header" -> "given"
    [] stage[c] = "labelled" -> "open"
    [] stage[c] = "failed" -> IF written[c] = 0 THEN "refused" ELSE "broken"

FarOf(c) ==
  CASE accepted[c] \in {"no", "identifying"} -> "no"
    [] accepted[c] = "queued" -> "offered"
    [] accepted[c] = "relayed" -> "taken"
    [] accepted[c] = "rejected" -> "rejected"

\* The connection implements the service it is for: one answer to an open, and
\* a channel offered to the other end's loop at most once, only if a stream was
\* given for it (MuxHandle::open, identify_inbound).
Service ==
  INSTANCE ChannelService WITH
    near <- [c \in Channels |-> NearOf(c)],
    far <- [c \in Channels |-> FarOf(c)]

ImplementsChannelService == Service!Spec

\* Whoever asks for a channel gets it or an error: no ask is left in a queue,
\* refused in silence at the limit of streams, or lost with the driver
\* (MuxHandle::open).
OpensReturn ==
  \A c \in Channels : stage[c] = "asking" ~> stage[c] \in {"labelled", "failed"}

\* What an operation of a stream leaves for the connection is looked at, even
\* if the driver slept before the operation and the holder never does another:
\* "wakes the separately polled Yamux driver before and after reads, writes,
\* flushes, and shutdowns" (docs/architecture.md).
WorkIsDone ==
  \A e \in Ends, c \in Channels :
    <<e, c>> \in work ~> (<<e, c>> \notin work \/ e \in over)

\* Nothing of the connection waits at this end any more.
EndOver(e) ==
  /\ e \in over /\ e \notin serving
  /\ \A c \in Channels : ~Held(e, c) /\ (Opener(c) = e => stage[c] \notin {"asking", "asked", "header"})

\* When the connection is lost or the bridge is done with it, everything ends
\* at both ends: no driver, loop, asker or stream is left waiting.  What ends
\* at the agent, for one late header of a single channel too, ends all of the
\* agent.
AllEnd ==
  /\ (~connected \/ "bridge" \in over \/ "bridge" \notin serving) ~> \A e \in Ends : EndOver(e)
  /\ ("agent" \in over \/ "agent" \notin serving) ~> EndOver("agent")

\* A bridge learns that its agent no longer serves, and reconnects: "If it
\* ends unexpectedly, the same bridge process reconnects"
\* (docs/architecture.md).  Violated: the agent's process lives on in the read
\* of its stdin, and as long as the bridge has nothing to send neither moves.
LossNoticed == "agent" \notin serving ~> ~connected
=============================================================================
