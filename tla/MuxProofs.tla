----------------------------- MODULE MuxProofs ------------------------------
(***************************************************************************)
(* What is proved of the multiplexed connection, for every set of channels *)
(* and every bound: no wake-up of a driver is lost, each open and each     *)
(* identified channel stands in its queue once, and an open is answered    *)
(* once.                                                                   *)
(***************************************************************************)
EXTENDS Mux, TLAPS

-----------------------------------------------------------------------------
(* Ends and queues *)

LEMMA EndsOfChannel ==
  ASSUME NEW c \in Channels
  PROVE  /\ Opener(c) \in Ends /\ Peer(Opener(c)) \in Ends /\ Peer(Opener(c)) # Opener(c)
         /\ \A e \in Ends : e # Opener(c) <=> e = Peer(Opener(c))
  <1>1. "agent" # "bridge"
    OBVIOUS
  <1>2. Peer("agent") = "bridge" /\ Peer("bridge") = "agent"
    BY DEF Peer, Ends
  <1>3. QED
    BY <1>1, <1>2 DEF Opener, Ends

\* A channel is put at the end of a queue, or a wake-up.
LEMMA Queued ==
  ASSUME NEW S, NEW queue \in Seq(S), NEW x \in S, Once(queue), x = Wake \/ x \notin Range(queue)
  PROVE  /\ Append(queue, x) \in Seq(S) /\ Once(Append(queue, x))
         /\ Range(Append(queue, x)) = Range(queue) \cup {x}
         /\ Append(queue, x) # <<>> /\ Len(Append(queue, x)) = Len(queue) + 1
  <1> DEFINE longer == Append(queue, x)
  <1>1. /\ longer \in Seq(S) /\ Len(longer) = Len(queue) + 1 /\ longer # <<>>
        /\ \A i \in 1..Len(queue) : longer[i] = queue[i]
        /\ longer[Len(queue) + 1] = x
        /\ DOMAIN longer = 1..(Len(queue) + 1) /\ DOMAIN queue = 1..Len(queue) /\ Len(queue) \in Nat
    OBVIOUS
  <1> HIDE DEF longer
  <1>2. \A i \in DOMAIN longer : i \in DOMAIN queue \/ i = Len(queue) + 1
    BY <1>1
  <1>3. \A i \in DOMAIN queue : queue[i] \in Range(queue)
    BY DEF Range
  <1>4. Once(longer)
    BY <1>1, <1>2, <1>3 DEF Once
  <1>5. Range(longer) = Range(queue) \cup {x}
    BY <1>1, <1>2 DEF Range
  <1>6. QED
    BY <1>1, <1>4, <1>5 DEF longer

\* The first of a queue is taken: it is not in what is left.
LEMMA Dequeued ==
  ASSUME NEW S, NEW queue \in Seq(S), Once(queue), queue # <<>>
  PROVE  /\ Head(queue) \in S /\ Head(queue) \in Range(queue)
         /\ Tail(queue) \in Seq(S) /\ Once(Tail(queue)) /\ Len(Tail(queue)) = Len(queue) - 1
         /\ Head(queue) # Wake => Range(Tail(queue)) = Range(queue) \ {Head(queue)}
         /\ Head(queue) = Wake => Range(Tail(queue)) \cup {Wake} = Range(queue)
  <1> DEFINE rest == Tail(queue)
  <1>1. /\ rest \in Seq(S) /\ Len(rest) = Len(queue) - 1 /\ Head(queue) = queue[1] /\ Head(queue) \in S
        /\ \A i \in 1..(Len(queue) - 1) : rest[i] = queue[i + 1]
        /\ DOMAIN rest = 1..(Len(queue) - 1) /\ DOMAIN queue = 1..Len(queue) /\ Len(queue) \in Nat \ {0}
    OBVIOUS
  <1> HIDE DEF rest
  <1>2. /\ \A i \in DOMAIN rest : i + 1 \in DOMAIN queue /\ i + 1 # 1
        /\ \A i \in DOMAIN queue : i = 1 \/ (i - 1 \in DOMAIN rest /\ queue[i] = rest[i - 1])
    BY <1>1
  <1>3. Once(rest)
    <2>1. \A i, j \in DOMAIN rest : i + 1 = j + 1 => i = j
      BY <1>1
    <2>2. QED
      BY <1>1, <1>2, <2>1 DEF Once
  <1>4. Range(rest) \cup {Head(queue)} = Range(queue)
    <2>1. Range(rest) \subseteq Range(queue)
      BY <1>1, <1>2 DEF Range
    <2>2. Head(queue) \in Range(queue)
      BY <1>1 DEF Range
    <2>3. \A i \in DOMAIN queue : queue[i] \in Range(rest) \cup {Head(queue)}
      BY <1>1, <1>2 DEF Range
    <2>4. Range(queue) \subseteq Range(rest) \cup {Head(queue)}
      BY <2>3 DEF Range
    <2>5. QED
      BY <2>1, <2>2, <2>4
  <1>5. Head(queue) # Wake => Head(queue) \notin Range(rest)
    BY <1>1, <1>2 DEF Once, Range
  <1>6. QED
    BY <1>1, <1>3, <1>4, <1>5 DEF rest

LEMMA EmptyQueue == Once(<<>>) /\ Range(<<>>) = {}
  BY DEF Once, Range
-----------------------------------------------------------------------------
(* Types *)

QueueTypes ==
  /\ commands \in [Ends -> Seq(Channels \cup {Wake})]
  /\ \A e \in Ends : Len(commands[e]) <= Capacity

LEMMA TryWakeType ==
  ASSUME TypeOK, NEW e \in Ends, TryWake(e)
  PROVE  QueueTypes' /\ awake' \subseteq Ends
  <1>1. CASE e \notin over /\ Len(commands[e]) < Capacity
    <2> DEFINE longer == Append(commands[e], Wake)
    <2>1. commands' = [commands EXCEPT ![e] = longer] /\ awake' = awake \cup {e}
      BY <1>1 DEF TryWake
    <2>2. longer \in Seq(Channels \cup {Wake}) /\ Len(longer) <= Capacity
      BY <1>1, CapacityAssumption DEF TypeOK
    <2> HIDE DEF longer
    <2>3. QED
      BY <2>1, <2>2 DEF TypeOK, QueueTypes
  <1>2. CASE ~(e \notin over /\ Len(commands[e]) < Capacity)
    BY <1>2 DEF TryWake, TypeOK, QueueTypes
  <1>3. QED
    BY <1>1, <1>2

LEMMA TypeStream ==
  ASSUME TypeOK, NEW e \in Ends, NEW c \in Channels, StreamStep(e, c)
  PROVE  TypeOK'
  <1>1. <<e, c>> \in Streams
    BY DEF Streams
  <1>2. CASE WakeBefore(e, c)
    BY <1>1, <1>2, TryWakeType DEF WakeBefore, TypeOK, QueueTypes, channelVars, loopVars
  <1>3. CASE PollStream(e, c)
    <2>1. written[c] < HeaderParts => written[c] + 1 \in 0..HeaderParts
      <3>1. written[c] \in 0..2 /\ HeaderParts = 2
        BY DEF TypeOK, HeaderParts
      <3>2. QED
        BY <3>1
    <2>2. QED
      BY <1>1, <1>3, <2>1 DEF PollStream, TypeOK, driverVars, loopVars
  <1>4. CASE WakeAfter(e, c)
    BY <1>1, <1>4, TryWakeType DEF WakeAfter, TypeOK, QueueTypes, loopVars
  <1>5. CASE Drop(e, c)
    BY <1>1, <1>5 DEF Drop, TypeOK, channelVars, driverVars, loopVars
  <1>6. QED
    BY <1>2, <1>3, <1>4, <1>5 DEF StreamStep

LEMMA TypeChannel ==
  ASSUME TypeOK, NEW c \in Channels, ChannelStep(c)
  PROVE  TypeOK'
  <1>1. Opener(c) \in Ends /\ Peer(Opener(c)) \in Ends
    BY EndsOfChannel
  <1>2. CASE AskOpen(c)
    BY <1>2 DEF AskOpen, TypeOK, streamVars, driverVars, loopVars
  <1>3. CASE SendOpen(c)
    <2> DEFINE e == Opener(c)
               longer == Append(commands[e], c)
    <2>1. longer \in Seq(Channels \cup {Wake}) /\ Len(longer) <= Capacity
      BY <1>1, <1>3, CapacityAssumption DEF SendOpen, TypeOK
    <2>2. commands' = [commands EXCEPT ![e] = longer] /\ awake' = awake \cup {e}
          /\ stage' = [stage EXCEPT ![c] = "asked"]
          /\ UNCHANGED <<accepted, written, arrived, streamVars, over, refusing, faults, loopVars>>
      BY <1>3 DEF SendOpen
    <2> HIDE DEF e, longer
    <2>3. e \in Ends
      BY <1>1 DEF e
    <2>4. QED
      BY <2>1, <2>2, <2>3 DEF TypeOK, streamVars, loopVars
  <1>4. CASE OpenFails(c)
    BY <1>4 DEF OpenFails, TypeOK, driverVars, loopVars
  <1>5. CASE Identify(c)
    <2> DEFINE e == Peer(Opener(c))
               longer == Append(incoming[e], c)
    <2>1. CASE e \in serving
      <3>1. longer \in Seq(Channels) /\ Len(longer) <= Capacity
        BY <1>1, <1>5, <2>1, CapacityAssumption DEF Identify, TypeOK
      <3>2. incoming' = [incoming EXCEPT ![e] = longer] /\ accepted' = [accepted EXCEPT ![c] = "queued"]
            /\ faults' = faults
        BY <1>5, <2>1 DEF Identify
      <3> HIDE DEF e, longer
      <3>3. e \in Ends
        BY <1>1 DEF e
      <3>4. QED
        BY <1>5, <3>1, <3>2, <3>3 DEF Identify, SameButAccepted, TypeOK, streamVars
    <2>2. CASE e \notin serving
      BY <1>1, <1>5, <2>2 DEF Identify, Fault, SameButAccepted, TypeOK, streamVars
    <2>3. QED
      BY <2>1, <2>2
  <1>6. CASE IdentifyFails(c)
    BY <1>1, <1>6 DEF IdentifyFails, Fault, SameButAccepted, TypeOK, streamVars, loopVars
  <1>7. QED
    BY <1>2, <1>3, <1>4, <1>5, <1>6 DEF ChannelStep

LEMMA TailType ==
  ASSUME NEW S, NEW queue \in Seq(S), queue # <<>>
  PROVE  /\ Head(queue) \in S /\ Tail(queue) \in Seq(S) /\ Len(Tail(queue)) <= Len(queue)
         /\ Len(queue) \in Nat /\ Len(Tail(queue)) \in Nat
  OBVIOUS

LEMMA TypeReceived ==
  ASSUME TypeOK, NEW e \in Ends, Received(e)
  PROVE  /\ QueueTypes' /\ Head(commands[e]) \in Channels \cup {Wake}
         /\ UNCHANGED <<accepted, written, arrived, streamVars, awake, over, faults, loopVars>>
  <1> DEFINE rest == Tail(commands[e])
  <1>1. commands[e] \in Seq(Channels \cup {Wake}) /\ commands[e] # <<>>
    BY DEF TypeOK, Received
  <1>2. /\ rest \in Seq(Channels \cup {Wake}) /\ Len(rest) <= Capacity
        /\ Head(commands[e]) \in Channels \cup {Wake}
    BY <1>1, TailType, CapacityAssumption DEF TypeOK
  <1>3. commands' = [commands EXCEPT ![e] = rest]
    BY DEF Received
  <1> HIDE DEF rest
  <1>4. QED
    BY <1>2, <1>3 DEF TypeOK, QueueTypes, Received

LEMMA TypeEnd ==
  ASSUME TypeOK, NEW e \in Ends, EndStep(e)
  PROVE  TypeOK'
  <1>1. CASE ReceiveWake(e)
    BY <1>1, TypeReceived DEF ReceiveWake, TypeOK, QueueTypes, streamVars, loopVars
  <1>2. CASE ReceiveOpen(e)
    <2>1. Received(e) /\ Head(commands[e]) \in Channels
      BY <1>2, TypeReceived DEF ReceiveOpen
    <2>2. stage' \in [Channels -> {"none", "asking", "asked", "header", "labelled", "failed"}] /\ refusing' \subseteq Ends
      BY <1>2, <2>1 DEF ReceiveOpen, TypeOK
    <2>3. QED
      BY <2>1, <2>2, TypeReceived DEF TypeOK, QueueTypes, streamVars, loopVars
  <1>3. CASE PollConnection(e)
    <2>1. Peer(e) \in Ends
      BY DEF Peer, Ends
    <2>2. QED
      BY <1>3, <2>1 DEF PollConnection, TypeOK
  <1>4. CASE DriverEnds(e)
    <2>1. <<>> \in Seq(Channels \cup {Wake}) /\ Len(<<>>) <= Capacity
      BY CapacityAssumption
    <2>2. QED
      BY <1>4, <2>1 DEF DriverEnds, TypeOK, channelVars, streamVars
  <1>5. CASE Take(e)
    <2> DEFINE rest == Tail(incoming[e])
               c == Head(incoming[e])
    <2>1. incoming[e] \in Seq(Channels) /\ incoming[e] # <<>>
      BY <1>5 DEF Take, TypeOK
    <2>2. rest \in Seq(Channels) /\ Len(rest) <= Capacity /\ c \in Channels
      BY <2>1, TailType, CapacityAssumption DEF TypeOK
    <2>3. incoming' = [incoming EXCEPT ![e] = rest] /\ accepted' = [accepted EXCEPT ![c] = "relayed"]
          /\ SameButAccepted /\ UNCHANGED <<faults, serving, connected>>
      BY <1>5 DEF Take
    <2> HIDE DEF rest, c
    <2>4. QED
      BY <2>2, <2>3 DEF SameButAccepted, TypeOK, streamVars
  <1>6. CASE LoopEnds(e)
    <2>1. <<>> \in Seq(Channels) /\ Len(<<>>) <= Capacity
      BY CapacityAssumption
    <2>2. QED
      BY <1>6, <2>1 DEF LoopEnds, SameButAccepted, TypeOK, streamVars
  <1>7. QED
    BY <1>1, <1>2, <1>3, <1>4, <1>5, <1>6 DEF EndStep, Stop, NoticeOver

LEMMA TypeStep ==
  ASSUME TypeOK, Next
  PROVE  TypeOK'
  <1>1. ASSUME NEW e \in Ends, NEW c \in Channels, Accept(e, c)
        PROVE  TypeOK'
    BY <1>1 DEF Accept, TypeOK, streamVars, loopVars
  <1>2. CASE LoseConnection
    BY <1>2 DEF LoseConnection, TypeOK, channelVars, streamVars, driverVars
  <1>3. QED
    BY <1>1, <1>2, TypeStream, TypeChannel, TypeEnd DEF Next

-----------------------------------------------------------------------------
(* Who holds a stream *)

\* A stream within an operation is not dropped, and its holder is open(), with
\* the header to write, or the relay of the channel.  What is dropped had been
\* given to a relay.
HolderOf(e, c) ==
  /\ step[<<e, c>>] # "idle" =>
       /\ <<e, c>> \notin closed
       /\ IF e = Opener(c) THEN stage[c] = "header" ELSE accepted[c] = "relayed"
  /\ <<e, c>> \in closed =>
       IF e = Opener(c) THEN stage[c] = "labelled" ELSE accepted[c] = "relayed"

Holders == \A e \in Ends, c \in Channels : HolderOf(e, c)

\* A step of a stream changes that of no other.
LEMMA OneStream ==
  ASSUME TypeOK, NEW e \in Ends, NEW c \in Channels, NEW x, step' = [step EXCEPT ![<<e, c>>] = x]
  PROVE  /\ step'[<<e, c>>] = x
         /\ \A f \in Ends, d \in Channels : f # e \/ d # c => step'[<<f, d>>] = step[<<f, d>>]
  <1>1. /\ <<e, c>> \in Streams /\ step \in [Streams -> {"idle", "woken", "polled"}]
        /\ \A f \in Ends, d \in Channels :
             <<f, d>> \in Streams /\ (<<e, c>> = <<f, d>> <=> e = f /\ c = d)
    BY DEF Streams, TypeOK
  <1>2. QED
    BY <1>1

LEMMA HoldersStream ==
  ASSUME TypeOK, Holders, NEW e \in Ends, NEW c \in Channels, StreamStep(e, c)
  PROVE  Holders'
  <1>1. CASE WakeBefore(e, c)
    <2>1. /\ stage' = stage /\ accepted' = accepted /\ closed' = closed
          /\ step' = [step EXCEPT ![<<e, c>>] = "woken"]
          /\ <<e, c>> \notin closed
          /\ IF e = Opener(c) THEN stage[c] = "header" ELSE accepted[c] = "relayed"
      BY <1>1 DEF WakeBefore, Held, Live, channelVars
    <2>2. /\ step'[<<e, c>>] = "woken"
          /\ \A f \in Ends, d \in Channels : f # e \/ d # c => step'[<<f, d>>] = step[<<f, d>>]
      BY <2>1, OneStream
    <2>3. ASSUME NEW f \in Ends, NEW d \in Channels
         PROVE  HolderOf(f, d)'
      <3>1. HolderOf(f, d)
        BY DEF Holders
      <3>2. CASE f = e /\ d = c
        BY <3>1, <3>2, <2>1, <2>2 DEF HolderOf
      <3>3. CASE f # e \/ d # c
        BY <3>1, <3>3, <2>1, <2>2 DEF HolderOf
      <3>4. QED
        BY <3>2, <3>3
    <2>4. QED
      BY <2>3 DEF Holders
  <1>2. CASE PollStream(e, c)
    <2>1. /\ stage' = stage /\ accepted' = accepted /\ closed' = closed
          /\ step' = [step EXCEPT ![<<e, c>>] = "polled"] /\ step[<<e, c>>] = "woken"
      BY <1>2 DEF PollStream
    <2>2. /\ step'[<<e, c>>] = "polled"
          /\ \A f \in Ends, d \in Channels : f # e \/ d # c => step'[<<f, d>>] = step[<<f, d>>]
      BY <2>1, OneStream
    <2>3. ASSUME NEW f \in Ends, NEW d \in Channels
         PROVE  HolderOf(f, d)'
      <3>1. HolderOf(f, d)
        BY DEF Holders
      <3>2. CASE f = e /\ d = c
        BY <3>1, <3>2, <2>1, <2>2 DEF HolderOf
      <3>3. CASE f # e \/ d # c
        BY <3>1, <3>3, <2>1, <2>2 DEF HolderOf
      <3>4. QED
        BY <3>2, <3>3
    <2>4. QED
      BY <2>3 DEF Holders
  <1>3. CASE WakeAfter(e, c)
    <2>1. /\ accepted' = accepted /\ closed' = closed
          /\ step' = [step EXCEPT ![<<e, c>>] = "idle"] /\ step[<<e, c>>] = "polled"
          /\ \A d \in Channels : d # c \/ e # Opener(c) => stage'[d] = stage[d]
      BY <1>3 DEF WakeAfter, TypeOK
    <2>2. /\ step'[<<e, c>>] = "idle"
          /\ \A f \in Ends, d \in Channels : f # e \/ d # c => step'[<<f, d>>] = step[<<f, d>>]
      BY <2>1, OneStream
    <2>3. <<e, c>> \notin closed
      BY <2>1 DEF Holders, HolderOf
    <2>4. ASSUME NEW f \in Ends, NEW d \in Channels
         PROVE  HolderOf(f, d)'
      <3>1. HolderOf(f, d)
        BY DEF Holders
      <3>2. CASE f = e /\ d = c
        BY <3>1, <3>2, <2>1, <2>2, <2>3 DEF HolderOf
      <3>3. CASE f # e \/ d # c
        BY <3>1, <3>3, <2>1, <2>2, <2>3 DEF HolderOf
      <3>4. QED
        BY <3>2, <3>3
    <2>5. QED
      BY <2>4 DEF Holders
  <1>4. CASE Drop(e, c)
    <2>1. /\ stage' = stage /\ accepted' = accepted /\ step' = step
          /\ closed' = closed \cup {<<e, c>>} /\ step[<<e, c>>] = "idle"
          /\ IF e = Opener(c) THEN stage[c] = "labelled" ELSE accepted[c] = "relayed"
      BY <1>4 DEF Drop, Held, channelVars
    <2>2. \A f \in Ends, d \in Channels : <<f, d>> \in closed' <=> <<f, d>> \in closed \/ (f = e /\ d = c)
      BY <2>1
    <2>3. QED
      BY <2>1, <2>2 DEF Holders, HolderOf
  <1>5. QED
    BY <1>1, <1>2, <1>3, <1>4 DEF StreamStep

\* A step that changes no stream, keeps a channel in its relay, and gives or
\* takes none that has a holder.
LEMMA HoldersKept ==
  ASSUME Holders, step' = step, closed' = closed,
         \A c \in Channels : stage[c] \in {"header", "labelled"} => stage'[c] = stage[c],
         \A c \in Channels : accepted[c] = "relayed" => accepted'[c] = "relayed"
  PROVE  Holders'
  BY DEF Holders, HolderOf

LEMMA HoldersChannel ==
  ASSUME TypeOK, Holders, NEW c \in Channels, ChannelStep(c)
  PROVE  Holders'
  <1>1. CASE OpenFails(c)
    <2>0. Opener(c) \in Ends
      BY EndsOfChannel
    <2>1. /\ stage' = [stage EXCEPT ![c] = "failed"] /\ stage[c] # "labelled"
          /\ step' = [step EXCEPT ![<<Opener(c), c>>] = "idle"]
          /\ accepted' = accepted /\ closed' = closed
      BY <1>1 DEF OpenFails
    <2>2. \A d \in Channels : d # c => stage'[d] = stage[d]
      BY <2>1 DEF TypeOK
    <2>3. /\ step'[<<Opener(c), c>>] = "idle"
          /\ \A f \in Ends, d \in Channels : f # Opener(c) \/ d # c => step'[<<f, d>>] = step[<<f, d>>]
      BY <2>0, <2>1, OneStream
    <2>4. ASSUME NEW f \in Ends, NEW d \in Channels
         PROVE  HolderOf(f, d)'
      <3>1. HolderOf(f, d)
        BY DEF Holders
      <3>2. CASE f = Opener(c) /\ d = c
        BY <3>1, <3>2, <2>1, <2>2, <2>3 DEF HolderOf
      <3>3. CASE f # Opener(c) \/ d # c
        BY <3>1, <3>3, <2>1, <2>2, <2>3 DEF HolderOf
      <3>4. QED
        BY <3>2, <3>3
    <2>5. QED
      BY <2>4 DEF Holders
  <1>2. CASE AskOpen(c) \/ SendOpen(c)
    BY <1>2, HoldersKept DEF AskOpen, SendOpen, TypeOK, streamVars
  <1>3. CASE Identify(c) \/ IdentifyFails(c)
    BY <1>3, HoldersKept DEF Identify, IdentifyFails, SameButAccepted, TypeOK, streamVars
  <1>4. QED
    BY <1>1, <1>2, <1>3 DEF ChannelStep

-----------------------------------------------------------------------------
(* The queues *)

AskQueue(e) ==
  /\ Once(commands[e])
  /\ \A c \in Channels : c \in Range(commands[e]) <=> e = Opener(c) /\ e \notin over /\ stage[c] = "asked"

LoopQueue(e) ==
  /\ Once(incoming[e])
  /\ \A c \in Channels : c \in Range(incoming[e]) <=> e # Opener(c) /\ accepted[c] = "queued"
  /\ e \notin serving => incoming[e] = <<>>

LEMMA QueuesOfEnds == QueuesExact <=> \A e \in Ends : AskQueue(e) /\ LoopQueue(e)
  BY DEF QueuesExact, AskQueue, LoopQueue

\* A step that changes no queue and neither queues a channel nor answers it.
SameAsks ==
  /\ commands' = commands /\ over' = over
  /\ \A c \in Channels : stage'[c] = "asked" <=> stage[c] = "asked"

SameLoops ==
  /\ incoming' = incoming /\ serving' = serving
  /\ \A c \in Channels : accepted'[c] = "queued" <=> accepted[c] = "queued"

LEMMA AsksKept ==
  ASSUME SameAsks, NEW e \in Ends, AskQueue(e)
  PROVE  AskQueue(e)'
  BY DEF SameAsks, AskQueue, Once, Range

LEMMA LoopsKept ==
  ASSUME SameLoops, NEW e \in Ends, LoopQueue(e)
  PROVE  LoopQueue(e)'
  BY DEF SameLoops, LoopQueue, Once, Range

\* A wake-up changes the queue of no channel.
LEMMA WakeQueued ==
  ASSUME TypeOK, NEW e \in Ends, TryWake(e), over' = over, NEW f \in Ends, AskQueue(f),
         \A c \in Channels : stage'[c] = "asked" <=> stage[c] = "asked"
  PROVE  AskQueue(f)'
  <1>1. CASE commands' = commands
    BY <1>1, AsksKept DEF SameAsks
  <1>2. CASE f # e /\ commands' # commands
    <2>1. commands'[f] = commands[f]
      BY <1>2 DEF TryWake, TypeOK
    <2>2. QED
      BY <2>1 DEF AskQueue, Once, Range
  <1>3. CASE f = e /\ commands' # commands
    <2> DEFINE queue == commands[e]
               longer == Append(queue, Wake)
    <2>1. queue \in Seq(Channels \cup {Wake}) /\ commands'[e] = longer
      BY <1>3 DEF TryWake, TypeOK
    <2>2. Once(queue) /\ Wake \in Channels \cup {Wake}
      BY <1>3 DEF AskQueue
    <2> HIDE DEF queue, longer
    <2>3. Once(longer) /\ Range(longer) = Range(queue) \cup {Wake}
      BY <2>1, <2>2, Queued DEF longer
    <2>4. Wake \notin Channels
      BY WakeAssumption DEF Wake, Channels
    <2>5. \A c \in Channels : c \in Range(longer) <=> c \in Range(queue)
      BY <2>3, <2>4
    <2>6. Once(commands'[e]) /\ \A c \in Channels : c \in Range(commands'[e]) <=> c \in Range(commands[e])
      BY <2>1, <2>3, <2>5 DEF queue
    <2>7. QED
      BY <1>3, <2>6 DEF AskQueue, Once, Range
  <1>4. QED
    BY <1>1, <1>2, <1>3

\* The driver takes its first command.
LEMMA CommandTaken ==
  ASSUME TypeOK, NEW e \in Ends, Received(e), \A f \in Ends : AskQueue(f)
  PROVE  /\ over' = over /\ e \notin over
         /\ \A f \in Ends : f # e => commands'[f] = commands[f]
         /\ Once(commands'[e])
         /\ \A c \in Channels :
              c \in Range(commands'[e]) <=> c \in Range(commands[e]) /\ c # Head(commands[e])
         /\ Head(commands[e]) # Wake =>
              Opener(Head(commands[e])) = e /\ stage[Head(commands[e])] = "asked"
  <1> DEFINE queue == commands[e]
  <1>1. queue \in Seq(Channels \cup {Wake}) /\ queue # <<>> /\ Once(queue)
    BY DEF TypeOK, Received, AskQueue
  <1>2. /\ commands' = [commands EXCEPT ![e] = Tail(queue)] /\ over' = over /\ e \notin over
    BY DEF Received, Running
  <1>3. commands'[e] = Tail(queue) /\ \A f \in Ends : f # e => commands'[f] = commands[f]
    BY <1>2 DEF TypeOK
  <1> HIDE DEF queue
  <1>4. /\ Head(queue) \in Range(queue) /\ Once(Tail(queue)) /\ Head(queue) \in Channels \cup {Wake}
        /\ Head(queue) # Wake => Range(Tail(queue)) = Range(queue) \ {Head(queue)}
        /\ Head(queue) = Wake => Range(Tail(queue)) \cup {Wake} = Range(queue)
    BY <1>1, Dequeued
  <1>5. Wake \notin Channels
    BY WakeAssumption DEF Wake, Channels
  <1>6. \A c \in Channels : c \in Range(Tail(queue)) <=> c \in Range(queue) /\ c # Head(queue)
    BY <1>4, <1>5
  <1>7. Head(queue) # Wake => Opener(Head(queue)) = e /\ stage[Head(queue)] = "asked"
    BY <1>4 DEF AskQueue, queue
  <1>8. QED
    BY <1>2, <1>3, <1>4, <1>6, <1>7 DEF queue

LEMMA QueuesStream ==
  ASSUME TypeOK, Holders, \A f \in Ends : AskQueue(f) /\ LoopQueue(f),
         NEW e \in Ends, NEW c \in Channels, StreamStep(e, c)
  PROVE  \A f \in Ends : AskQueue(f)' /\ LoopQueue(f)'
  <1>1. SameLoops
    BY DEF StreamStep, WakeBefore, PollStream, WakeAfter, Drop, SameLoops, channelVars, loopVars
  <1>2. CASE WakeBefore(e, c)
    BY <1>1, <1>2, WakeQueued, LoopsKept DEF WakeBefore, channelVars
  <1>3. CASE WakeAfter(e, c)
    <2>1. stage'[c] # stage[c] => stage[c] = "header" /\ stage'[c] = "labelled"
      BY <1>3 DEF WakeAfter, Holders, HolderOf, TypeOK
    <2>2. \A d \in Channels : stage'[d] = "asked" <=> stage[d] = "asked"
      BY <1>3, <2>1 DEF WakeAfter, TypeOK
    <2>3. QED
      BY <1>1, <1>3, <2>2, WakeQueued, LoopsKept DEF WakeAfter
  <1>4. CASE PollStream(e, c) \/ Drop(e, c)
    <2>1. SameAsks
      BY <1>4 DEF PollStream, Drop, SameAsks, channelVars, driverVars
    <2>2. QED
      BY <1>1, <2>1, AsksKept, LoopsKept
  <1>5. QED
    BY <1>2, <1>3, <1>4 DEF StreamStep

\* The channel is put at the end of the driver's queue.
LEMMA QueuesSendOpen ==
  ASSUME TypeOK, \A f \in Ends : AskQueue(f) /\ LoopQueue(f), NEW c \in Channels, SendOpen(c)
  PROVE  \A f \in Ends : AskQueue(f)' /\ LoopQueue(f)'
  <1> DEFINE e == Opener(c)
             queue == commands[e]
             longer == Append(queue, c)
  <1>1. e \in Ends
    BY EndsOfChannel
  <1>2. /\ commands' = [commands EXCEPT ![e] = longer] /\ stage' = [stage EXCEPT ![c] = "asked"]
        /\ over' = over /\ e \notin over /\ stage[c] = "asking"
        /\ accepted' = accepted /\ incoming' = incoming /\ serving' = serving
    BY DEF SendOpen, loopVars
  <1>3. queue \in Seq(Channels \cup {Wake}) /\ Once(queue) /\ c \in Channels \cup {Wake}
    BY <1>1 DEF TypeOK, AskQueue
  <1>4. c \notin Range(queue)
    BY <1>1, <1>2 DEF AskQueue
  <1>5. e = Opener(c)
    OBVIOUS
  <1> HIDE DEF queue, e
  <1>6. Once(longer) /\ Range(longer) = Range(queue) \cup {c}
    BY <1>3, <1>4, Queued
  <1> HIDE DEF longer
  <1>7. /\ commands'[e] = longer
        /\ \A f \in Ends : f # e => commands'[f] = commands[f]
        /\ stage'[c] = "asked" /\ \A d \in Channels : d # c => stage'[d] = stage[d]
    BY <1>1, <1>2 DEF TypeOK
  <1>8. /\ Once(commands'[e])
        /\ \A d \in Channels : d \in Range(commands'[e]) <=> d \in Range(commands[e]) \/ d = c
    BY <1>6, <1>7 DEF queue
  <1>9. \A f \in Ends : LoopQueue(f)'
    BY <1>2, LoopsKept DEF SameLoops
  <1>10. \A f \in Ends : f # e => AskQueue(f)'
    BY <1>2, <1>5, <1>7 DEF AskQueue, Once, Range
  <1>11. AskQueue(e)'
    BY <1>1, <1>2, <1>5, <1>7, <1>8 DEF AskQueue, Once, Range
  <1>12. QED
    BY <1>9, <1>10, <1>11

\* The channel is put at the end of the accepting loop's queue.
LEMMA QueuesIdentify ==
  ASSUME TypeOK, \A f \in Ends : AskQueue(f) /\ LoopQueue(f), NEW c \in Channels, Identify(c)
  PROVE  \A f \in Ends : AskQueue(f)' /\ LoopQueue(f)'
  <1> DEFINE e == Peer(Opener(c))
  <1>1. e \in Ends /\ \A f \in Ends : f # Opener(c) <=> f = e
    BY EndsOfChannel
  <1>2. /\ SameAsks /\ serving' = serving /\ accepted[c] = "identifying"
    BY DEF Identify, SameButAccepted, SameAsks
  <1>3. \A f \in Ends : AskQueue(f)'
    BY <1>2, AsksKept
  <1>4. CASE e \notin serving
    <2>1. SameLoops
      BY <1>2, <1>4 DEF Identify, SameLoops, TypeOK
    <2>2. QED
      BY <1>3, <2>1, LoopsKept
  <1>5. CASE e \in serving
    <2> DEFINE queue == incoming[e]
               longer == Append(queue, c)
    <2>1. incoming' = [incoming EXCEPT ![e] = longer] /\ accepted' = [accepted EXCEPT ![c] = "queued"]
      BY <1>5 DEF Identify
    <2>2. queue \in Seq(Channels) /\ Once(queue) /\ c \notin Range(queue)
      BY <1>1, <1>2 DEF TypeOK, LoopQueue
    <2> HIDE DEF queue, e
    <2>3. Once(longer) /\ Range(longer) = Range(queue) \cup {c}
      BY <2>2, Queued
    <2> HIDE DEF longer
    <2>4. /\ incoming'[e] = longer
          /\ \A f \in Ends : f # e => incoming'[f] = incoming[f]
          /\ accepted'[c] = "queued" /\ \A d \in Channels : d # c => accepted'[d] = accepted[d]
      BY <1>1, <2>1 DEF TypeOK
    <2>5. /\ Once(incoming'[e])
          /\ \A d \in Channels : d \in Range(incoming'[e]) <=> d \in Range(incoming[e]) \/ d = c
      BY <2>3, <2>4 DEF queue
    <2>6. \A f \in Ends : f # e => LoopQueue(f)'
      BY <1>1, <1>2, <2>4 DEF LoopQueue, Once, Range
    <2>7. LoopQueue(e)'
      BY <1>1, <1>2, <1>5, <2>4, <2>5 DEF LoopQueue, Once, Range
    <2>8. QED
      BY <1>3, <2>6, <2>7
  <1>6. QED
    BY <1>4, <1>5

LEMMA QueuesChannel ==
  ASSUME TypeOK, \A f \in Ends : AskQueue(f) /\ LoopQueue(f), NEW c \in Channels, ChannelStep(c)
  PROVE  \A f \in Ends : AskQueue(f)' /\ LoopQueue(f)'
  <1>1. CASE AskOpen(c)
    <2>1. SameAsks /\ SameLoops
      BY <1>1 DEF AskOpen, SameAsks, SameLoops, TypeOK, driverVars, loopVars
    <2>2. QED
      BY <2>1, AsksKept, LoopsKept
  <1>2. CASE OpenFails(c)
    <2>1. /\ stage' = [stage EXCEPT ![c] = "failed"] /\ Opener(c) \in over
          /\ commands' = commands /\ over' = over
      BY <1>2 DEF OpenFails, driverVars
    <2>2. \A d \in Channels : d # c => stage'[d] = stage[d]
      BY <2>1 DEF TypeOK
    <2>3. \A f \in Ends : AskQueue(f)'
      BY <2>1, <2>2 DEF AskQueue, Once, Range
    <2>4. SameLoops
      BY <1>2 DEF OpenFails, SameLoops, loopVars
    <2>5. QED
      BY <2>3, <2>4, LoopsKept
  <1>3. CASE IdentifyFails(c)
    <2>1. SameAsks /\ SameLoops
      BY <1>3 DEF IdentifyFails, SameButAccepted, SameAsks, SameLoops, TypeOK, loopVars
    <2>2. QED
      BY <2>1, AsksKept, LoopsKept
  <1>4. QED
    BY <1>1, <1>2, <1>3, QueuesSendOpen, QueuesIdentify DEF ChannelStep

LEMMA QueuesEnd ==
  ASSUME TypeOK, \A f \in Ends : AskQueue(f) /\ LoopQueue(f), NEW e \in Ends, EndStep(e)
  PROVE  \A f \in Ends : AskQueue(f)' /\ LoopQueue(f)'
  <1>1. CASE ReceiveWake(e)
    <2>1. /\ Received(e) /\ stage' = stage /\ Wake \notin Channels /\ Head(commands[e]) = Wake
      BY <1>1, WakeAssumption DEF ReceiveWake, Wake, Channels
    <2>2. SameLoops
      BY <2>1 DEF Received, SameLoops, loopVars
    <2>3. \A f \in Ends : AskQueue(f)'
      <3>1. ASSUME NEW f \in Ends, f # e PROVE AskQueue(f)'
        BY <2>1, <3>1, CommandTaken DEF AskQueue, Once, Range
      <3>2. AskQueue(e)'
        <4>1. \A c \in Channels : c \in Range(commands'[e]) <=> c \in Range(commands[e])
          BY <2>1, CommandTaken
        <4>2. Once(commands'[e]) /\ over' = over
          BY <2>1, CommandTaken
        <4>3. QED
          BY <2>1, <4>1, <4>2 DEF AskQueue, Once, Range
      <3>3. QED
        BY <3>1, <3>2
    <2>4. QED
      BY <2>2, <2>3, LoopsKept
  <1>2. CASE ReceiveOpen(e)
    <2> DEFINE c == Head(commands[e])
    <2>1. Received(e) /\ c # Wake /\ c \in Channels
      BY <1>2, TypeReceived DEF ReceiveOpen
    <2>2. SameLoops
      BY <2>1 DEF Received, SameLoops, loopVars
    <2>3. /\ over' = over /\ e \notin over /\ Opener(c) = e /\ Once(commands'[e])
          /\ \A f \in Ends : f # e => commands'[f] = commands[f]
          /\ \A d \in Channels : d \in Range(commands'[e]) <=> d \in Range(commands[e]) /\ d # c
      BY <2>1, CommandTaken
    <2>4. stage'[c] \in {"header", "failed"} /\ \A d \in Channels : d # c => stage'[d] = stage[d]
      BY <1>2, <2>1 DEF ReceiveOpen, TypeOK
    <2> HIDE DEF c
    <2>5. ASSUME NEW f \in Ends, f # e PROVE AskQueue(f)'
      BY <2>3, <2>4, <2>5 DEF AskQueue, Once, Range
    <2>6. AskQueue(e)'
      BY <2>3, <2>4 DEF AskQueue, Once, Range
    <2>7. QED
      BY <2>2, <2>5, <2>6, LoopsKept
  <1>3. CASE PollConnection(e)
    <2>1. SameAsks /\ SameLoops
      BY <1>3 DEF PollConnection, SameAsks, SameLoops
    <2>2. QED
      BY <2>1, AsksKept, LoopsKept
  <1>4. CASE DriverEnds(e)
    <2>1. SameLoops /\ stage' = stage
      BY <1>4 DEF DriverEnds, SameLoops, channelVars
    <2>2. /\ over' = over \cup {e} /\ commands'[e] = <<>>
          /\ \A f \in Ends : f # e => commands'[f] = commands[f]
      BY <1>4 DEF DriverEnds, TypeOK
    <2>3. ASSUME NEW f \in Ends, f # e PROVE AskQueue(f)'
      BY <2>1, <2>2, <2>3 DEF AskQueue, Once, Range
    <2>4. AskQueue(e)'
      <3>1. Once(commands'[e]) /\ Range(commands'[e]) = {} /\ e \in over'
        BY <2>2, EmptyQueue
      <3>2. QED
        BY <3>1 DEF AskQueue, Once, Range
    <2>5. QED
      BY <2>1, <2>3, <2>4, LoopsKept
  <1>5. CASE Take(e)
    <2> DEFINE queue == incoming[e]
               c == Head(queue)
               rest == Tail(queue)
    <2>1. queue \in Seq(Channels) /\ queue # <<>> /\ Once(queue)
      BY <1>5 DEF Take, TypeOK, LoopQueue
    <2>2. /\ incoming' = [incoming EXCEPT ![e] = rest] /\ accepted' = [accepted EXCEPT ![c] = "relayed"]
          /\ serving' = serving /\ e \in serving
      BY <1>5 DEF Take
    <2>3. SameAsks
      BY <1>5 DEF Take, SameButAccepted, SameAsks
    <2>4. /\ incoming'[e] = rest /\ \A f \in Ends : f # e => incoming'[f] = incoming[f]
      BY <2>2 DEF TypeOK
    <2> HIDE DEF queue
    <2>5. c \in Channels /\ c \in Range(queue) /\ Once(rest) /\ Wake \notin Channels
      BY <2>1, Dequeued, WakeAssumption DEF Wake, Channels
    <2>6. Range(rest) = Range(queue) \ {c}
      BY <2>1, <2>5, Dequeued
    <2> HIDE DEF c, rest
    <2>7. accepted'[c] = "relayed" /\ \A d \in Channels : d # c => accepted'[d] = accepted[d]
      BY <2>2, <2>5 DEF TypeOK
    <2>8. /\ Once(incoming'[e]) /\ e # Opener(c)
          /\ \A d \in Channels : d \in Range(incoming'[e]) <=> d \in Range(incoming[e]) /\ d # c
      BY <2>4, <2>5, <2>6 DEF LoopQueue, queue
    <2>9. ASSUME NEW f \in Ends, f # e PROVE LoopQueue(f)'
      <3>1. f = Opener(c)
        BY <2>5, <2>8, <2>9, EndsOfChannel
      <3>2. QED
        BY <2>2, <2>4, <2>7, <2>9, <3>1 DEF LoopQueue, Once, Range
    <2>10. LoopQueue(e)'
      BY <2>2, <2>7, <2>8 DEF LoopQueue, Once, Range
    <2>11. QED
      BY <2>3, <2>9, <2>10, AsksKept
  <1>6. CASE LoopEnds(e)
    <2>1. /\ SameAsks /\ serving' = serving \ {e}
          /\ incoming'[e] = <<>> /\ \A f \in Ends : f # e => incoming'[f] = incoming[f]
          /\ \A c \in Channels : accepted'[c] =
               IF accepted[c] = "queued" /\ Opener(c) # e THEN "rejected" ELSE accepted[c]
      BY <1>6 DEF LoopEnds, SameButAccepted, SameAsks, TypeOK
    <2>2. ASSUME NEW f \in Ends, f # e PROVE LoopQueue(f)'
      <3>1. \A c \in Channels : f # Opener(c) => Opener(c) = e
        BY <2>2, EndsOfChannel
      <3>2. QED
        BY <2>1, <2>2, <3>1 DEF LoopQueue, Once, Range
    <2>3. LoopQueue(e)'
      <3>1. Once(incoming'[e]) /\ Range(incoming'[e]) = {}
        BY <2>1, EmptyQueue
      <3>2. QED
        BY <2>1, <3>1 DEF LoopQueue, Once, Range
    <2>4. QED
      BY <2>1, <2>2, <2>3, AsksKept
  <1>7. QED
    BY <1>1, <1>2, <1>3, <1>4, <1>5, <1>6 DEF EndStep, Stop, NoticeOver

LEMMA QueuesStep ==
  ASSUME TypeOK, Holders, QueuesExact, Next
  PROVE  QueuesExact'
  <1>0. \A f \in Ends : AskQueue(f) /\ LoopQueue(f)
    BY QueuesOfEnds
  <1> SUFFICES \A f \in Ends : AskQueue(f)' /\ LoopQueue(f)'
    BY DEF QueuesExact, AskQueue, LoopQueue
  <1>1. ASSUME NEW e \in Ends, NEW c \in Channels, Accept(e, c)
        PROVE  SameAsks /\ SameLoops
    BY <1>1 DEF Accept, SameAsks, SameLoops, TypeOK, loopVars
  <1>2. CASE LoseConnection
    BY <1>0, <1>2, AsksKept, LoopsKept DEF LoseConnection, SameAsks, SameLoops, channelVars, driverVars
  <1>3. CASE \E e \in Ends, c \in Channels : Accept(e, c)
    BY <1>0, <1>1, <1>3, AsksKept, LoopsKept
  <1>4. QED
    BY <1>0, <1>2, <1>3, QueuesStream, QueuesChannel, QueuesEnd DEF Next

LEMMA HoldersStep ==
  ASSUME TypeOK, Holders, QueuesExact, Next
  PROVE  Holders'
  <1>0. \A f \in Ends : AskQueue(f) /\ LoopQueue(f)
    BY QueuesOfEnds
  <1>1. ASSUME NEW e \in Ends, EndStep(e)
        PROVE  Holders'
    <2>1. CASE ReceiveOpen(e)
      <3>1. Received(e) /\ Head(commands[e]) \in Channels /\ stage[Head(commands[e])] = "asked"
        BY <1>0, <2>1, TypeReceived, CommandTaken DEF ReceiveOpen
      <3>2. \A d \in Channels : d # Head(commands[e]) => stage'[d] = stage[d]
        BY <2>1 DEF ReceiveOpen, TypeOK
      <3>3. accepted' = accepted /\ step' = step /\ closed' = closed
        BY <3>1 DEF Received, streamVars
      <3>4. QED
        BY <3>1, <3>2, <3>3, HoldersKept
    <2>2. CASE ReceiveWake(e) \/ PollConnection(e) \/ DriverEnds(e)
      BY <2>2, HoldersKept DEF ReceiveWake, Received, PollConnection, DriverEnds, channelVars, streamVars
    <2>3. CASE Take(e) \/ LoopEnds(e)
      BY <2>3, HoldersKept DEF Take, LoopEnds, SameButAccepted, TypeOK, streamVars
    <2>4. QED
      BY <1>1, <2>1, <2>2, <2>3 DEF EndStep, Stop, NoticeOver
  <1>2. ASSUME NEW e \in Ends, NEW c \in Channels, Accept(e, c)
        PROVE  Holders'
    BY <1>2, HoldersKept DEF Accept, TypeOK, streamVars
  <1>3. CASE LoseConnection
    BY <1>3, HoldersKept DEF LoseConnection, channelVars, streamVars
  <1>4. QED
    BY <1>1, <1>2, <1>3, HoldersStream, HoldersChannel DEF Next

-----------------------------------------------------------------------------
(* The wake-ups *)

\* Who wakes the driver finds it awake afterwards, also when the queue is full.
LEMMA WokenDriver ==
  ASSUME TypeOK, WakesKept, NEW e \in Ends, e \notin over, TryWake(e)
  PROVE  /\ e \in awake' /\ awake \subseteq awake'
         /\ \A f \in Ends : f # e => commands'[f] = commands[f]
  <1>1. CASE Len(commands[e]) < Capacity
    BY <1>1 DEF TryWake, TypeOK
  <1>2. CASE ~(Len(commands[e]) < Capacity)
    <2>1. commands' = commands /\ awake' = awake
      BY <1>2 DEF TryWake
    <2>2. commands[e] \in Seq(Channels \cup {Wake})
      BY DEF TypeOK
    <2>3. commands[e] # <<>>
      BY <1>2, <2>2, CapacityAssumption
    <2>4. QED
      BY <2>1, <2>3 DEF WakesKept
  <1>3. QED
    BY <1>1, <1>2

\* A step that leaves no more to do and puts no driver to sleep.
LEMMA WakesUndisturbed ==
  ASSUME WakesKept, over \subseteq over', awake \subseteq awake' \cup over', work' \subseteq work,
         \A e \in Ends \ over' : commands'[e] # <<>> => commands[e] # <<>>,
         \A e \in Ends \ over', c \in Channels : step[<<e, c>>] = "polled" => step'[<<e, c>>] = "polled"
  PROVE  WakesKept'
  BY DEF WakesKept

LEMMA WakesStream ==
  ASSUME TypeOK, WakesKept, NEW e \in Ends, NEW c \in Channels, StreamStep(e, c)
  PROVE  WakesKept'
  <1>1. CASE WakeBefore(e, c)
    <2>1. /\ e \notin over /\ over' = over /\ work' = work /\ TryWake(e)
          /\ step' = [step EXCEPT ![<<e, c>>] = "woken"]
      BY <1>1 DEF WakeBefore
    <2>2. \A f \in Ends, d \in Channels : f # e \/ d # c => step'[<<f, d>>] = step[<<f, d>>]
      BY <2>1, OneStream
    <2>3. QED
      BY <2>1, <2>2, WokenDriver DEF WakesKept
  <1>2. CASE PollStream(e, c)
    <2>1. /\ over' = over /\ work' = work \cup {<<e, c>>} /\ commands' = commands /\ awake' = awake
          /\ step' = [step EXCEPT ![<<e, c>>] = "polled"]
      BY <1>2 DEF PollStream, driverVars
    <2>2. /\ step'[<<e, c>>] = "polled"
          /\ \A f \in Ends, d \in Channels : f # e \/ d # c => step'[<<f, d>>] = step[<<f, d>>]
      BY <2>1, OneStream
    <2>3. QED
      BY <2>1, <2>2 DEF WakesKept
  <1>3. CASE WakeAfter(e, c)
    <2>1. /\ over' = over /\ work' = work /\ TryWake(e)
          /\ step' = [step EXCEPT ![<<e, c>>] = "idle"]
      BY <1>3 DEF WakeAfter
    <2>2. \A f \in Ends, d \in Channels : f # e \/ d # c => step'[<<f, d>>] = step[<<f, d>>]
      BY <2>1, OneStream
    <2>3. CASE e \notin over
      BY <2>1, <2>2, <2>3, WokenDriver DEF WakesKept
    <2>4. CASE e \in over
      BY <2>1, <2>2, <2>4 DEF TryWake, WakesKept
    <2>5. QED
      BY <2>3, <2>4
  <1>4. CASE Drop(e, c)
    BY <1>4, WakesUndisturbed DEF Drop, driverVars
  <1>5. QED
    BY <1>1, <1>2, <1>3, <1>4 DEF StreamStep

LEMMA WakesChannel ==
  ASSUME TypeOK, WakesKept, NEW c \in Channels, ChannelStep(c)
  PROVE  WakesKept'
  <1>1. CASE SendOpen(c)
    <2> DEFINE e == Opener(c)
    <2>1. /\ over' = over /\ work' = work /\ step' = step /\ awake' = awake \cup {e}
          /\ \A f \in Ends : f # e => commands'[f] = commands[f]
      BY <1>1 DEF SendOpen, TypeOK, streamVars
    <2>2. QED
      BY <2>1 DEF WakesKept
  <1>2. CASE OpenFails(c)
    <2>1. Opener(c) \in Ends /\ Opener(c) \in over
      BY <1>2, EndsOfChannel DEF OpenFails
    <2>2. /\ over' = over /\ work' = work /\ commands' = commands /\ awake' = awake
          /\ step' = [step EXCEPT ![<<Opener(c), c>>] = "idle"]
      BY <1>2 DEF OpenFails, driverVars
    <2>3. \A f \in Ends, d \in Channels : f # Opener(c) => step'[<<f, d>>] = step[<<f, d>>]
      BY <2>1, <2>2, OneStream
    <2>4. QED
      BY <2>1, <2>2, <2>3, WakesUndisturbed
  <1>3. CASE AskOpen(c)
    BY <1>3, WakesUndisturbed DEF AskOpen, streamVars, driverVars
  <1>4. CASE Identify(c) \/ IdentifyFails(c)
    BY <1>4, WakesUndisturbed DEF Identify, IdentifyFails, SameButAccepted, streamVars
  <1>5. QED
    BY <1>1, <1>2, <1>3, <1>4 DEF ChannelStep

LEMMA WakesEnd ==
  ASSUME TypeOK, WakesKept, NEW e \in Ends, EndStep(e)
  PROVE  WakesKept'
  <1>1. CASE Received(e)
    <2>1. /\ over' = over /\ work' = work /\ step' = step /\ awake' = awake /\ commands[e] # <<>>
          /\ \A f \in Ends : f # e => commands'[f] = commands[f]
      BY <1>1 DEF Received, TypeOK, streamVars
    <2>2. QED
      BY <2>1, WakesUndisturbed
  <1>2. CASE PollConnection(e)
    <2> DEFINE pending == {c \in Channels : <<e, c>> \in work}
    <2>1. /\ over' = over /\ step' = step /\ commands' = commands
          /\ work' = work \ ({e} \X pending)
          /\ \A f \in Ends : f # e /\ f \in awake => f \in awake'
          /\ commands[e] # <<>> /\ e \in awake => e \in awake'
      BY <1>2 DEF PollConnection
    <2>2. \A c \in Channels : <<e, c>> \notin work'
      BY <2>1
    <2> HIDE DEF pending
    <2>3. QED
      BY <2>1, <2>2 DEF WakesKept
  <1>3. CASE DriverEnds(e)
    <2>1. /\ over' = over \cup {e} /\ work' = work /\ step' = step /\ awake' = awake \ {e}
          /\ \A f \in Ends : f # e => commands'[f] = commands[f]
      BY <1>3 DEF DriverEnds, TypeOK, streamVars
    <2>2. QED
      BY <2>1, WakesUndisturbed
  <1>4. CASE Take(e) \/ LoopEnds(e)
    BY <1>4, WakesUndisturbed DEF Take, LoopEnds, SameButAccepted, streamVars
  <1>5. QED
    BY <1>1, <1>2, <1>3, <1>4 DEF EndStep, ReceiveWake, ReceiveOpen, Stop, NoticeOver

LEMMA WakesStep ==
  ASSUME TypeOK, WakesKept, Next
  PROVE  WakesKept'
  <1>1. ASSUME NEW e \in Ends, NEW c \in Channels, Accept(e, c)
        PROVE  WakesKept'
    BY <1>1, WakesUndisturbed DEF Accept, streamVars
  <1>2. CASE LoseConnection
    BY <1>2, WakesUndisturbed DEF LoseConnection, streamVars, driverVars
  <1>3. QED
    BY <1>1, <1>2, WakesStream, WakesChannel, WakesEnd DEF Next

-----------------------------------------------------------------------------
(* The header *)

\* The other end knows of a channel only what its opener has written, and only
\* who was given a stream has written anything.
HeaderInv ==
  \A c \in Channels :
    /\ written[c] # 0 => stage[c] \in {"header", "labelled", "failed"}
    /\ arrived[c] # 0 => written[c] # 0
    /\ accepted[c] # "no" => arrived[c] # 0

LEMMA HeaderKept ==
  ASSUME HeaderInv, written' = written, arrived' = arrived,
         \A c \in Channels : stage[c] \in {"header", "labelled", "failed"} =>
                             stage'[c] \in {"header", "labelled", "failed"},
         \A c \in Channels : accepted'[c] # "no" => accepted[c] # "no" \/ arrived[c] # 0
  PROVE  HeaderInv'
  BY DEF HeaderInv

LEMMA HeaderStep ==
  ASSUME TypeOK, Holders, QueuesExact, HeaderInv, Next
  PROVE  HeaderInv'
  <1>0. \A f \in Ends : AskQueue(f) /\ LoopQueue(f)
    BY QueuesOfEnds
  <1>1. ASSUME NEW e \in Ends, NEW c \in Channels, StreamStep(e, c)
        PROVE  HeaderInv'
    <2>1. CASE WakeAfter(e, c)
      BY <2>1, HeaderKept DEF WakeAfter, TypeOK
    <2>2. CASE PollStream(e, c)
      <3>1. /\ stage' = stage /\ accepted' = accepted /\ arrived' = arrived
            /\ \A d \in Channels : d # c => written'[d] = written[d]
            /\ e # Opener(c) => written'[c] = written[c]
        BY <2>2 DEF PollStream, TypeOK
      <3>2. e = Opener(c) => stage[c] = "header"
        BY <2>2 DEF PollStream, Holders, HolderOf
      <3>3. written[c] # 0 => written'[c] # 0
        <4>1. written[c] \in 0..2
          BY DEF TypeOK, HeaderParts
        <4>2. written[c] # 0 => written[c] + 1 # 0
          BY <4>1
        <4>3. QED
          BY <2>2, <4>2 DEF PollStream, TypeOK
      <3>4. QED
        BY <3>1, <3>2, <3>3 DEF HeaderInv
    <2>3. CASE WakeBefore(e, c) \/ Drop(e, c)
      BY <2>3, HeaderKept DEF WakeBefore, Drop, channelVars
    <2>4. QED
      BY <1>1, <2>1, <2>2, <2>3 DEF StreamStep
  <1>2. ASSUME NEW c \in Channels, ChannelStep(c)
        PROVE  HeaderInv'
    <2>1. CASE AskOpen(c) \/ SendOpen(c) \/ OpenFails(c)
      BY <2>1, HeaderKept DEF AskOpen, SendOpen, OpenFails, TypeOK
    <2>2. CASE Identify(c) \/ IdentifyFails(c)
      BY <2>2, HeaderKept DEF Identify, IdentifyFails, SameButAccepted, TypeOK
    <2>3. QED
      BY <1>2, <2>1, <2>2 DEF ChannelStep
  <1>3. ASSUME NEW e \in Ends, NEW c \in Channels, Accept(e, c)
        PROVE  HeaderInv'
    <2>1. arrived[c] # 0
      BY <1>3 DEF Accept, TypeOK, HeaderParts
    <2>2. QED
      BY <1>3, <2>1, HeaderKept DEF Accept, TypeOK
  <1>4. ASSUME NEW e \in Ends, EndStep(e)
        PROVE  HeaderInv'
    <2>1. CASE ReceiveOpen(e)
      <3>1. Received(e) /\ Head(commands[e]) \in Channels /\ stage[Head(commands[e])] = "asked"
        BY <1>0, <2>1, TypeReceived, CommandTaken DEF ReceiveOpen
      <3>2. \A d \in Channels : d # Head(commands[e]) => stage'[d] = stage[d]
        BY <2>1 DEF ReceiveOpen, TypeOK
      <3>3. accepted' = accepted /\ written' = written /\ arrived' = arrived
        BY <3>1 DEF Received
      <3>4. QED
        BY <3>1, <3>2, <3>3, HeaderKept
    <2>2. CASE PollConnection(e)
      <3>1. /\ stage' = stage /\ accepted' = accepted /\ written' = written
            /\ \A c \in Channels : arrived'[c] = written[c] \/ arrived'[c] = arrived[c]
            /\ \A c \in Channels : arrived[c] # 0 => arrived'[c] # 0
        BY <2>2 DEF PollConnection, HeaderInv
      <3>2. QED
        BY <3>1 DEF HeaderInv
    <2>3. CASE ReceiveWake(e) \/ DriverEnds(e)
      BY <2>3, HeaderKept DEF ReceiveWake, Received, DriverEnds, channelVars
    <2>4. CASE Take(e)
      <3>1. incoming[e] \in Seq(Channels) /\ incoming[e] # <<>> /\ Once(incoming[e])
        BY <1>0, <2>4 DEF Take, TypeOK, LoopQueue
      <3>2. Head(incoming[e]) \in Channels /\ accepted[Head(incoming[e])] = "queued"
        BY <1>0, <3>1, Dequeued DEF LoopQueue
      <3>3. \A d \in Channels : d # Head(incoming[e]) => accepted'[d] = accepted[d]
        BY <2>4 DEF Take, TypeOK
      <3>4. stage' = stage /\ written' = written /\ arrived' = arrived
        BY <2>4 DEF Take, SameButAccepted
      <3>5. QED
        BY <3>2, <3>3, <3>4, HeaderKept
    <2>5. CASE LoopEnds(e)
      BY <2>5, HeaderKept DEF LoopEnds, SameButAccepted, TypeOK
    <2>6. QED
      BY <1>4, <2>1, <2>2, <2>3, <2>4, <2>5 DEF EndStep, Stop, NoticeOver
  <1>5. CASE LoseConnection
    BY <1>5, HeaderKept DEF LoseConnection, channelVars
  <1>6. QED
    BY <1>1, <1>2, <1>3, <1>4, <1>5 DEF Next

-----------------------------------------------------------------------------
(* The answers *)

LEMMA AnswersStep ==
  ASSUME TypeOK, Holders, QueuesExact, Next
  PROVE  \A c \in Channels : stage[c] \in {"labelled", "failed"} => stage'[c] = stage[c]
  <1>0. \A f \in Ends : AskQueue(f) /\ LoopQueue(f)
    BY QueuesOfEnds
  <1>1. ASSUME NEW e \in Ends, NEW c \in Channels, StreamStep(e, c)
        PROVE  \A d \in Channels : stage[d] \in {"labelled", "failed"} => stage'[d] = stage[d]
    <2>1. CASE WakeAfter(e, c)
      BY <2>1 DEF WakeAfter, Holders, HolderOf, TypeOK
    <2>2. CASE WakeBefore(e, c) \/ PollStream(e, c) \/ Drop(e, c)
      BY <2>2 DEF WakeBefore, PollStream, Drop, channelVars
    <2>3. QED
      BY <1>1, <2>1, <2>2 DEF StreamStep
  <1>2. ASSUME NEW c \in Channels, ChannelStep(c)
        PROVE  \A d \in Channels : stage[d] \in {"labelled", "failed"} => stage'[d] = stage[d]
    BY <1>2 DEF ChannelStep, AskOpen, SendOpen, OpenFails, Identify, IdentifyFails, SameButAccepted, TypeOK
  <1>3. ASSUME NEW e \in Ends, EndStep(e)
        PROVE  \A d \in Channels : stage[d] \in {"labelled", "failed"} => stage'[d] = stage[d]
    <2>1. CASE ReceiveOpen(e)
      <3>1. Received(e) /\ Head(commands[e]) \in Channels /\ stage[Head(commands[e])] = "asked"
        BY <1>0, <2>1, TypeReceived, CommandTaken DEF ReceiveOpen
      <3>2. \A d \in Channels : d # Head(commands[e]) => stage'[d] = stage[d]
        BY <2>1 DEF ReceiveOpen, TypeOK
      <3>3. QED
        BY <3>1, <3>2
    <2>2. CASE ~ReceiveOpen(e)
      BY <1>3, <2>2 DEF EndStep, ReceiveWake, PollConnection, DriverEnds, Take, Stop, NoticeOver,
                        LoopEnds, SameButAccepted, channelVars
    <2>3. QED
      BY <2>1, <2>2
  <1>4. ASSUME NEW e \in Ends, NEW c \in Channels, Accept(e, c)
        PROVE  stage' = stage
    BY <1>4 DEF Accept
  <1>5. CASE LoseConnection
    BY <1>5 DEF LoseConnection, channelVars
  <1>6. QED
    BY <1>1, <1>2, <1>3, <1>4, <1>5 DEF Next

-----------------------------------------------------------------------------
(* The invariant of the connection *)

MuxInv ==
  /\ TypeOK
  /\ Holders
  /\ QueuesExact
  /\ WakesKept
  /\ HeaderInv

LEMMA MuxInvInit ==
  ASSUME Init
  PROVE  MuxInv
  <1>1. <<>> \in Seq(Channels \cup {Wake}) /\ <<>> \in Seq(Channels) /\ Len(<<>>) <= Capacity
    BY CapacityAssumption
  <1>2. TypeOK
    BY <1>1 DEF Init, TypeOK, HeaderParts
  <1>3. Holders
    BY DEF Init, Holders, HolderOf, Streams
  <1>4. QueuesExact
    <2>1. \A e \in Ends : commands[e] = <<>> /\ incoming[e] = <<>> /\ e \in serving
      BY DEF Init
    <2>2. \A c \in Channels : stage[c] = "none" /\ accepted[c] = "no"
      BY DEF Init
    <2>3. QED
      BY <2>1, <2>2, EmptyQueue DEF QueuesExact
  <1>5. WakesKept
    BY DEF Init, WakesKept
  <1>6. HeaderInv
    BY DEF Init, HeaderInv
  <1>7. QED
    BY <1>2, <1>3, <1>4, <1>5, <1>6 DEF MuxInv

LEMMA MuxInvStep ==
  ASSUME MuxInv, [Next]_vars
  PROVE  MuxInv'
  <1>1. CASE Next
    BY <1>1, TypeStep, HoldersStep, QueuesStep, WakesStep, HeaderStep DEF MuxInv
  <1>2. CASE UNCHANGED vars
    <2>1. UNCHANGED <<stage, accepted, written, arrived, step, work, closed, commands, awake, over,
                      refusing, faults, incoming, serving, connected>>
      BY <1>2 DEF vars, channelVars, streamVars, driverVars, loopVars
    <2>2. TypeOK' /\ Holders' /\ WakesKept' /\ HeaderInv'
      BY <2>1 DEF MuxInv, TypeOK, Holders, HolderOf, WakesKept, HeaderInv
    <2>3. QueuesExact'
      BY <2>1 DEF MuxInv, QueuesExact, Once, Range
    <2>4. QED
      BY <2>2, <2>3 DEF MuxInv
  <1>3. QED
    BY <1>1, <1>2

LEMMA MuxInvariant == Spec => []MuxInv
  BY MuxInvInit, MuxInvStep, PTL DEF Spec

\* Queues stay within their bounds and every variable within its type.
THEOREM MuxTypeOK == Spec => []TypeOK
  BY MuxInvariant, PTL DEF MuxInv

\* No wake-up of a driver is lost, however many tasks hold streams, whatever
\* they do between the two wake-ups of an operation, and although a full queue
\* swallows them (MuxStream::wake_driver, run_driver).
THEOREM MuxWakesKept == Spec => []WakesKept
  BY MuxInvariant, PTL DEF MuxInv

\* Each open that waits for its answer, and each identified channel that waits
\* for the accepting loop, stands in its queue exactly once; nothing else does,
\* and nothing at an end that has ended (run_driver, identify_inbound,
\* serve_agent_mux, serve_multiplexed).
THEOREM MuxQueuesExact == Spec => []QueuesExact
  BY MuxInvariant, PTL DEF MuxInv

\* An open is answered once: what was given is not taken back by a later answer,
\* and what was refused is not given (MuxHandle::open).
THEOREM MuxAnswersFinal == Spec => AnswersFinal
  <1>1. ASSUME MuxInv, [Next]_vars
        PROVE  [\A c \in Channels : stage[c] \in {"labelled", "failed"} => stage'[c] = stage[c]]_vars
    <2>1. CASE Next
      BY <1>1, <2>1, AnswersStep DEF MuxInv
    <2>2. CASE UNCHANGED vars
      BY <2>2
    <2>3. QED
      BY <1>1, <2>1, <2>2
  <1>2. QED
    BY <1>1, MuxInvariant, PTL DEF Spec, AnswersFinal

-----------------------------------------------------------------------------
(* Refinement of ChannelService *)

LEMMA ServiceInit == Init => Service!Init
  <1> SUFFICES ASSUME Init PROVE Service!Init
    OBVIOUS
  <1>1. \A c \in Channels : NearOf(c) = "none" /\ FarOf(c) = "no"
    BY DEF Init, NearOf, FarOf
  <1>2. QED
    BY <1>1 DEF Service!Init

\* A step that changes nothing the service is about.
SameNear == \A c \in Channels : NearOf(c)' = NearOf(c)
SameFar == \A c \in Channels : FarOf(c)' = FarOf(c)

LEMMA ServiceStutters ==
  ASSUME SameNear, SameFar
  PROVE  UNCHANGED Service!vars
  BY DEF SameNear, SameFar, Service!vars

LEMMA NearSame == stage' = stage /\ written' = written => SameNear
  BY DEF SameNear, NearOf

LEMMA FarSame == accepted' = accepted => SameFar
  BY DEF SameFar, FarOf

\* One opener learns something.
LEMMA ServiceGoes ==
  ASSUME NEW c \in Channels, SameFar, NEW from, NEW to, NearOf(c) \in from, NearOf(c)' = to,
         \A d \in Channels : d # c => NearOf(d)' = NearOf(d)
  PROVE  Service!Goes(c, from, to)
  BY DEF SameFar, Service!Goes

\* The accepting end is ahead of no opener.
LEMMA ServiceKnown ==
  ASSUME TypeOK, HeaderInv, NEW c \in Channels, accepted[c] # "no" \/ arrived[c] # 0
  PROVE  Service!Known(c)
  <1>1. written[c] # 0 /\ stage[c] \in {"header", "labelled", "failed"}
    BY DEF HeaderInv
  <1>2. NearOf(c) \in {"given", "open", "broken"}
    BY <1>1 DEF NearOf
  <1>3. QED
    BY <1>2 DEF Service!Known

LEMMA ServiceStream ==
  ASSUME TypeOK, Holders, NEW e \in Ends, NEW c \in Channels, StreamStep(e, c)
  PROVE  [Service!Next]_(Service!vars)
  <1>1. SameFar
    BY FarSame DEF StreamStep, WakeBefore, PollStream, WakeAfter, Drop, channelVars
  <1>2. CASE WakeBefore(e, c) \/ Drop(e, c)
    BY <1>1, <1>2, NearSame, ServiceStutters DEF WakeBefore, Drop, channelVars
  <1>3. CASE PollStream(e, c)
    <2>1. stage' = stage /\ \A d \in Channels : stage[d] = "failed" => written'[d] = written[d]
      BY <1>3 DEF PollStream, Holders, HolderOf, TypeOK
    <2>2. SameNear
      BY <2>1 DEF SameNear, NearOf
    <2>3. QED
      BY <1>1, <2>2, ServiceStutters
  <1>4. CASE WakeAfter(e, c)
    <2>1. CASE stage' = stage
      BY <1>1, <1>4, <2>1, NearSame, ServiceStutters DEF WakeAfter
    <2>2. CASE stage' # stage
      <3>1. /\ stage[c] = "header" /\ stage'[c] = "labelled" /\ written' = written
            /\ \A d \in Channels : d # c => stage'[d] = stage[d]
        BY <1>4, <2>2 DEF WakeAfter, Holders, HolderOf, TypeOK
      <3>2. /\ NearOf(c) = "given" /\ NearOf(c)' = "open"
            /\ \A d \in Channels : d # c => NearOf(d)' = NearOf(d)
        BY <3>1 DEF NearOf
      <3>3. Service!Goes(c, {"given"}, "open")
        BY <1>1, <3>2, ServiceGoes
      <3>4. QED
        BY <3>3 DEF Service!Next, Service!Open
    <2>3. QED
      BY <2>1, <2>2
  <1>5. QED
    BY <1>2, <1>3, <1>4 DEF StreamStep

LEMMA ServiceChannel ==
  ASSUME TypeOK, HeaderInv, NEW c \in Channels, ChannelStep(c)
  PROVE  [Service!Next]_(Service!vars)
  <1>1. CASE AskOpen(c)
    <2>1. /\ stage[c] = "none" /\ stage'[c] = "asking" /\ written' = written /\ accepted' = accepted
          /\ \A d \in Channels : d # c => stage'[d] = stage[d]
      BY <1>1 DEF AskOpen, TypeOK
    <2>2. /\ NearOf(c) = "none" /\ NearOf(c)' = "asked"
          /\ \A d \in Channels : d # c => NearOf(d)' = NearOf(d)
      BY <2>1 DEF NearOf
    <2>3. Service!Goes(c, {"none"}, "asked")
      BY <2>1, <2>2, FarSame, ServiceGoes
    <2>4. QED
      BY <2>3 DEF Service!Next, Service!Ask
  <1>2. CASE SendOpen(c)
    <2>1. /\ stage[c] = "asking" /\ stage'[c] = "asked" /\ written' = written /\ accepted' = accepted
          /\ \A d \in Channels : d # c => stage'[d] = stage[d]
      BY <1>2 DEF SendOpen, TypeOK
    <2>2. SameNear
      BY <2>1 DEF SameNear, NearOf
    <2>3. QED
      BY <2>1, <2>2, FarSame, ServiceStutters
  <1>3. CASE OpenFails(c)
    <2>1. /\ stage[c] \in {"asking", "asked", "header"} /\ stage'[c] = "failed"
          /\ written' = written /\ accepted' = accepted
          /\ \A d \in Channels : d # c => stage'[d] = stage[d]
      BY <1>3 DEF OpenFails, TypeOK
    <2>2. \A d \in Channels : d # c => NearOf(d)' = NearOf(d)
      BY <2>1 DEF NearOf
    <2>3. CASE written[c] = 0
      <3>1. NearOf(c) \in {"asked", "given"} /\ NearOf(c)' = "refused"
        BY <2>1, <2>3 DEF NearOf
      <3>2. Service!Goes(c, {"asked", "given"}, "refused")
        BY <2>1, <2>2, <3>1, FarSame, ServiceGoes
      <3>3. QED
        BY <3>2 DEF Service!Next, Service!Refuse
    <2>4. CASE written[c] # 0
      <3>1. stage[c] = "header"
        BY <2>1, <2>4 DEF HeaderInv
      <3>2. NearOf(c) = "given" /\ NearOf(c)' = "broken"
        BY <2>1, <2>4, <3>1 DEF NearOf
      <3>3. Service!Goes(c, {"given"}, "broken")
        BY <2>1, <2>2, <3>2, FarSame, ServiceGoes
      <3>4. QED
        BY <3>3 DEF Service!Next, Service!Break
    <2>5. QED
      BY <2>3, <2>4
  <1>4. CASE Identify(c) \/ IdentifyFails(c)
    <2>1. /\ accepted[c] = "identifying" /\ accepted'[c] \in {"queued", "rejected"}
          /\ \A d \in Channels : d # c => accepted'[d] = accepted[d]
          /\ stage' = stage /\ written' = written
      BY <1>4 DEF Identify, IdentifyFails, SameButAccepted, TypeOK
    <2>2. FarOf(c) = "no" /\ \A d \in Channels : d # c => FarOf(d)' = FarOf(d)
      BY <2>1 DEF FarOf
    <2>3. SameNear /\ Service!Known(c)
      BY <2>1, NearSame, ServiceKnown
    <2>4. CASE accepted'[c] = "queued"
      <3>1. FarOf(c)' = "offered"
        BY <2>4 DEF FarOf
      <3>2. Service!Offer(c)
        BY <2>2, <2>3, <3>1 DEF Service!Offer, SameNear
      <3>3. QED
        BY <3>2 DEF Service!Next
    <2>5. CASE accepted'[c] = "rejected"
      <3>1. FarOf(c)' = "rejected"
        BY <2>5 DEF FarOf
      <3>2. Service!Reject({c})
        BY <2>2, <2>3, <3>1 DEF Service!Reject, SameNear
      <3>3. QED
        BY <3>2 DEF Service!Next
    <2>6. QED
      BY <2>1, <2>4, <2>5
  <1>5. QED
    BY <1>1, <1>2, <1>3, <1>4 DEF ChannelStep

LEMMA ServiceEnd ==
  ASSUME TypeOK, QueuesExact, HeaderInv, NEW e \in Ends, EndStep(e)
  PROVE  [Service!Next]_(Service!vars)
  <1>0. \A f \in Ends : AskQueue(f) /\ LoopQueue(f)
    BY QueuesOfEnds
  <1>1. CASE ReceiveOpen(e)
    <2>0. /\ Received(e) /\ Head(commands[e]) \in Channels /\ stage[Head(commands[e])] = "asked"
      BY <1>0, <1>1, TypeReceived, CommandTaken DEF ReceiveOpen
    <2>1. PICK c \in Channels : c = Head(commands[e]) /\ stage[c] = "asked"
      BY <2>0
    <2>2. /\ stage'[c] \in {"header", "failed"} /\ accepted' = accepted /\ written' = written
          /\ \A d \in Channels : d # c => stage'[d] = stage[d]
      BY <1>1, <2>0, <2>1 DEF ReceiveOpen, Received, TypeOK
    <2>3. written[c] = 0
      BY <2>1 DEF HeaderInv
    <2>4. NearOf(c) = "asked" /\ \A d \in Channels : d # c => NearOf(d)' = NearOf(d)
      BY <2>1, <2>2 DEF NearOf
    <2>5. CASE stage'[c] = "header"
      <3>1. NearOf(c)' = "given"
        BY <2>5 DEF NearOf
      <3>2. Service!Goes(c, {"asked"}, "given")
        BY <2>1, <2>2, <2>4, <3>1, FarSame, ServiceGoes
      <3>3. QED
        BY <2>1, <3>2 DEF Service!Next, Service!Give
    <2>6. CASE stage'[c] = "failed"
      <3>1. NearOf(c)' = "refused"
        BY <2>2, <2>3, <2>6 DEF NearOf
      <3>2. Service!Goes(c, {"asked", "given"}, "refused")
        BY <2>1, <2>2, <2>4, <3>1, FarSame, ServiceGoes
      <3>3. QED
        BY <2>1, <3>2 DEF Service!Next, Service!Refuse
    <2>7. QED
      BY <2>2, <2>5, <2>6
  <1>2. CASE ReceiveWake(e) \/ PollConnection(e) \/ DriverEnds(e)
    <2>1. stage' = stage /\ written' = written /\ accepted' = accepted
      BY <1>2 DEF ReceiveWake, Received, PollConnection, DriverEnds, channelVars
    <2>2. QED
      BY <2>1, NearSame, FarSame, ServiceStutters
  <1>3. CASE Take(e)
    <2>1. incoming[e] \in Seq(Channels) /\ incoming[e] # <<>> /\ Once(incoming[e])
      BY <1>0, <1>3 DEF Take, TypeOK, LoopQueue
    <2>2. PICK c \in Channels : c = Head(incoming[e]) /\ accepted[c] = "queued"
      <3>1. Head(incoming[e]) \in Channels /\ accepted[Head(incoming[e])] = "queued"
        BY <1>0, <2>1, Dequeued DEF LoopQueue
      <3>2. QED
        BY <3>1
    <2>3. /\ accepted'[c] = "relayed" /\ stage' = stage /\ written' = written
          /\ \A d \in Channels : d # c => accepted'[d] = accepted[d]
      BY <1>3, <2>2 DEF Take, SameButAccepted, TypeOK
    <2>4. /\ FarOf(c) = "offered" /\ FarOf(c)' = "taken" /\ SameNear
          /\ \A d \in Channels : d # c => FarOf(d)' = FarOf(d)
      BY <2>2, <2>3, NearSame DEF FarOf
    <2>5. Service!Take(c)
      BY <2>2, <2>4 DEF Service!Take, SameNear
    <2>6. QED
      BY <2>2, <2>5 DEF Service!Next
  <1>4. CASE LoopEnds(e)
    <2> DEFINE cs == {c \in Channels : accepted[c] = "queued" /\ Opener(c) # e}
    <2>1. /\ stage' = stage /\ written' = written
          /\ \A c \in Channels : accepted'[c] = IF c \in cs THEN "rejected" ELSE accepted[c]
      BY <1>4 DEF LoopEnds, SameButAccepted
    <2>2. /\ cs \in SUBSET Channels
          /\ \A c \in cs : accepted[c] = "queued" /\ Service!Known(c)
      BY ServiceKnown
    <2> HIDE DEF cs
    <2>3. /\ \A c \in cs : FarOf(c) = "offered" /\ FarOf(c)' = "rejected"
          /\ \A c \in Channels \ cs : FarOf(c)' = FarOf(c)
      BY <2>1, <2>2 DEF FarOf
    <2>4. Service!Reject(cs)
      BY <2>1, <2>2, <2>3, NearSame DEF Service!Reject, SameNear
    <2>5. QED
      BY <2>2, <2>4 DEF Service!Next
  <1>5. QED
    BY <1>1, <1>2, <1>3, <1>4 DEF EndStep, Stop, NoticeOver

LEMMA ServiceStep == MuxInv /\ [Next]_vars => [Service!Next]_(Service!vars)
  <1> SUFFICES ASSUME MuxInv, [Next]_vars PROVE [Service!Next]_(Service!vars)
    OBVIOUS
  <1>0. TypeOK /\ Holders /\ QueuesExact /\ HeaderInv
    BY DEF MuxInv
  <1>1. CASE UNCHANGED vars
    BY <1>1, NearSame, FarSame, ServiceStutters DEF vars, channelVars
  <1>2. ASSUME NEW e \in Ends, NEW c \in Channels, Accept(e, c)
        PROVE  [Service!Next]_(Service!vars)
    <2>1. stage' = stage /\ written' = written
          /\ \A d \in Channels : accepted'[d] = accepted[d] \/ {accepted[d], accepted'[d]} = {"no", "identifying"}
      BY <1>0, <1>2 DEF Accept, TypeOK
    <2>2. SameFar
      BY <2>1 DEF SameFar, FarOf
    <2>3. QED
      BY <2>1, <2>2, NearSame, ServiceStutters
  <1>3. CASE LoseConnection
    BY <1>3, NearSame, FarSame, ServiceStutters DEF LoseConnection, channelVars
  <1>4. QED
    BY <1>0, <1>1, <1>2, <1>3, ServiceStream, ServiceChannel, ServiceEnd DEF Next

\* Both ends of the connection, with their drivers and loops, are the service
\* of channels they are for: an open has one answer, and the other end's loop is
\* offered a channel at most once and only if a stream was given for it.
THEOREM MuxImplements == Spec => ImplementsChannelService
  BY MuxInvariant, ServiceInit, ServiceStep, PTL DEF Spec, ImplementsChannelService, Service!Spec
=============================================================================
