------------------------------- MODULE Relay -------------------------------
(***************************************************************************)
(* One desktop App session as the bridge relays it: relay_websocket of     *)
(* crates/cxs-bridge/src/lib.rs between the desktop client, the supervised *)
(* local App Server ("server") and the Host App Server of the remote host  *)
(* ("host").  Every action is one iteration of its select! loop: the       *)
(* branch that won and the code that follows the select.                   *)
(*                                                                         *)
(* A client request is named by its JSON-RPC id.  An id the bridge makes   *)
(* up is the tuple of its parts: "cxs/<env>/thread-metadata/<n>" is        *)
(* Metadata(r) for the thread/start r it shadows, and the ids of the       *)
(* instruction reads extend it; the counter only makes it fresh.  Both     *)
(* peers may answer what they were sent in any order or never.  A client   *)
(* sends one initialize and does not reuse an id.                          *)
(***************************************************************************)
EXTENDS Integers, Sequences, FiniteSets, FiniteSetsExt, Functions

CONSTANTS
  Requests,                \* the client's requests other than initialize
  Method,                  \* their method class: see MethodClasses
  Bytes,                   \* their encoded length
  MaxPendingClientBytes,   \* MAX_PENDING_CLIENT_BYTES
  MaxStatusAttempts,       \* the 200 of handle_status_response
  Paths,                   \* instruction files on the remote host
  FileBytes,               \* their length
  MaxSources,              \* MAX_INSTRUCTION_SOURCES
  MaxSourceBytes,          \* MAX_INSTRUCTION_SOURCE_BYTES
  MaxTotalBytes,           \* MAX_INSTRUCTION_TOTAL_BYTES
  MaxListed,               \* bound: the host lists no more sources than this
  OtherThreads,            \* threads of the local history no session of the profile started
  ServerRequestIds,        \* client ids that the local App Server also uses for its own requests
  None                     \* no entry in pending_thread_metadata

MethodClasses == {"thread/start", "thread/list", "host", "local"}

ASSUME RequestsAssumption ==
  /\ Method \in [Requests -> MethodClasses]
  /\ Bytes \in [Requests -> Nat]
  /\ ServerRequestIds \subseteq Requests
  /\ Requests \cap OtherThreads = {}
ASSUME LimitsAssumption ==
  /\ MaxStatusAttempts \in Nat \ {0}
  /\ MaxPendingClientBytes \in Nat
  /\ FileBytes \in [Paths -> Nat]
  /\ IsFiniteSet(Paths)
  /\ {MaxSources, MaxSourceBytes, MaxTotalBytes, MaxListed} \subseteq Nat

VARIABLES
  session,                         \* "open", or "over": it returned, with an error or without
  initialize_requested,            \* initialize_id is set
  phase,                           \* EnvironmentPhase
  attempts,                        \* of EnvironmentPhase::Polling, otherwise 0
  local_initialize_response,       \* held, not yet merged
  host_initialize_response,
  initialize_response_sent,
  pending_client_messages,         \* requests held until the session is usable
  pending_client_bytes,            \* their length, as the loop counts it
  pending_thread_metadata,         \* per thread/start, its entry or None
  pending_thread_list_requests,
  thread_ids,                      \* SessionScope.thread_ids of the profile
  server_open,                     \* what the local App Server owes a reply to
  host_open,                       \* what the Host App Server owes a reply to
  client_sent,                     \* history: requests read from the client, in order
  forwarded,                       \* history: requests forwarded, in order
  local_starts,                    \* history: per thread/start, the files each copy sent to the server carried
  inbox,                           \* history: per request, the responses the client received
  stray,                           \* history: replies the client received to requests that are not its own
  quiet                            \* this iteration has waited for 50 ms

registrationVars == <<initialize_requested, phase, attempts>>
initializeVars == <<local_initialize_response, host_initialize_response, initialize_response_sent>>
listVars == <<pending_thread_list_requests, thread_ids>>
forwardVars == <<pending_client_messages, pending_client_bytes, forwarded>>
clientVars == <<inbox, stray>>
peerVars == <<pending_thread_metadata, server_open, host_open, local_starts>>
relayVars == <<session, registrationVars, initializeVars, forwardVars, peerVars, listVars, client_sent, clientVars>>
vars == <<relayVars, quiet>>

-----------------------------------------------------------------------------
(* Types *)

Starts == {r \in Requests : Method[r] = "thread/start"}
\* The thread that thread/start r creates is named r.
Threads == Starts \cup OtherThreads

InitializeId == <<"initialize">>
AddId == <<"environment-add">>
StatusId == <<"environment-status">>
HostInitializeId == <<"host-initialize">>
Request(r) == <<"request", r>>
Metadata(r) == <<"thread-metadata", r>>
Read(r, i) == <<"thread-metadata", r, "instruction", i>>

ServerIds == {InitializeId, AddId, StatusId} \cup {Request(r) : r \in Requests}
InternalIds ==
  {HostInitializeId} \cup {Metadata(r) : r \in Starts}
                     \cup {Read(r, i) : r \in Starts, i \in 1..MaxSources}
HostIds == InternalIds \cup {Request(r) : r \in Requests}

Phases == {"WaitingForInitialize", "Registering", "Polling", "Ready"}

\* Lists of instruction sources.  The same file may be in one more than once.
Lists(longest) == UNION {[1..n -> Paths] : n \in 0..longest}

\* PendingThreadMetadata.  A read is named by the index in instruction_paths
\* that ends its id.  expired: started_at lies PROJECT_METADATA_TIMEOUT back.
Pending ==
  {entry \in [host_response: BOOLEAN,
              pending_instruction_reads: SUBSET (1..MaxSources),
              instruction_paths: Lists(MaxSources),
              instruction_contents: SUBSET Paths,
              expired: BOOLEAN,
              local_sent: BOOLEAN] :
     entry.pending_instruction_reads \subseteq DOMAIN entry.instruction_paths}

NewPending ==
  [host_response |-> FALSE,
   pending_instruction_reads |-> {},
   instruction_paths |-> <<>>,
   instruction_contents |-> {},
   expired |-> FALSE,
   local_sent |-> FALSE]

\* What a thread/start carries: a section per listed source that was read.
Injected(entry) ==
  [i \in {j \in DOMAIN entry.instruction_paths : entry.instruction_paths[j] \in entry.instruction_contents}
     |-> entry.instruction_paths[i]]
Copies == UNION {[sections -> Paths] : sections \in SUBSET (1..MaxSources)}

\* A response: whether it succeeded, whether host metadata was merged into
\* it, and the threads it names.
Responses == [ok: BOOLEAN, merged: BOOLEAN, threads: SUBSET Threads]
Response(ok, merged, threads) == [ok |-> ok, merged |-> merged, threads |-> threads]

ASSUME NoneAssumption == None \notin Pending

TypeOK ==
  /\ session \in {"open", "over"}
  /\ initialize_requested \in BOOLEAN
  /\ phase \in Phases
  /\ attempts \in 0..MaxStatusAttempts
  /\ local_initialize_response \in BOOLEAN
  /\ host_initialize_response \in BOOLEAN
  /\ initialize_response_sent \in BOOLEAN
  /\ pending_client_messages \in Seq(Requests)
  /\ pending_client_bytes \in Nat
  /\ pending_thread_metadata \in [Starts -> Pending \cup {None}]
  /\ pending_thread_list_requests \subseteq Requests
  /\ thread_ids \subseteq Threads
  /\ server_open \subseteq ServerIds
  /\ host_open \subseteq HostIds
  /\ client_sent \in Seq(Requests)
  /\ forwarded \in Seq(Requests)
  /\ local_starts \in [Starts -> Seq(Copies)]
  /\ inbox \in [Requests -> Seq(Responses)]
  /\ stray \subseteq HostIds
  /\ quiet \in BOOLEAN

Init ==
  /\ session = "open"
  /\ initialize_requested = FALSE
  /\ phase = "WaitingForInitialize"
  /\ attempts = 0
  /\ local_initialize_response = FALSE
  /\ host_initialize_response = FALSE
  /\ initialize_response_sent = FALSE
  /\ pending_client_messages = <<>>
  /\ pending_client_bytes = 0
  /\ pending_thread_metadata = [r \in Starts |-> None]
  /\ pending_thread_list_requests = {}
  /\ thread_ids = {}
  /\ server_open = {}
  /\ host_open = {}
  /\ client_sent = <<>>
  /\ forwarded = <<>>
  /\ local_starts = [r \in Starts |-> <<>>]
  /\ inbox = [r \in Requests |-> <<>>]
  /\ stray = {}
  /\ quiet = FALSE

-----------------------------------------------------------------------------
(* Forwarding and the end of an iteration *)

RequestRoute(r) ==
  CASE Method[r] = "thread/start" -> "ThreadStart"
    [] Method[r] = "host" -> "Host"
    [] OTHER -> "Local"

Routed(requests, route) == {r \in requests : RequestRoute(r) = route}

\* What a branch of the select! leaves to the code after it: the requests it
\* forwarded itself, those held, the progress of the two initialize
\* exchanges, the pending metadata and the messages the two servers have.
Now ==
  [direct |-> <<>>,
   held |-> pending_client_messages,
   bytes |-> pending_client_bytes,
   ready |-> phase = "Ready",
   local |-> local_initialize_response,
   host |-> host_initialize_response,
   pending |-> pending_thread_metadata,
   server |-> server_open,
   remote |-> host_open]

\* Defect: a request for the host goes to the local App Server as well.
Forward_ToBoth(rs, b) ==
  LET requests == Range(rs) IN
  /\ forwarded' = forwarded \o rs
  /\ server_open' = b.server \cup {Request(r) : r \in Routed(requests, "Local") \cup Routed(requests, "Host")}
  /\ host_open' = b.remote \cup {Request(r) : r \in Routed(requests, "Host")}
                          \cup {Metadata(r) : r \in Routed(requests, "ThreadStart")}
  /\ pending_thread_metadata' =
       [r \in Starts |-> IF r \in requests THEN NewPending ELSE b.pending[r]]

\* forward_client_message for each of rs, after branch b.  A thread/start is
\* not passed on: its shadow goes to the host and its entry starts waiting.
Forward(rs, b) ==
  LET requests == Range(rs) IN
  /\ forwarded' = forwarded \o rs
  /\ server_open' = b.server \cup {Request(r) : r \in Routed(requests, "Local")}
  /\ host_open' = b.remote \cup {Request(r) : r \in Routed(requests, "Host")}
                          \cup {Metadata(r) : r \in Routed(requests, "ThreadStart")}
  /\ pending_thread_metadata' =
       [r \in Starts |-> IF r \in requests THEN NewPending ELSE b.pending[r]]

HeldBytes(requests) == MapThenSumSet(LAMBDA r : Bytes[r], requests)

\* What is left of the count once rs left the queue (saturating_sub).
BytesWithout(bytes, rs) ==
  IF HeldBytes(Range(rs)) <= bytes THEN bytes - HeldBytes(Range(rs)) ELSE 0

\* Defect: the environment being ready is taken for the last event to wait for.
EndOfIteration_LeavesQueue(b) ==
  LET merge == ~initialize_response_sent /\ b.local /\ b.host IN
  /\ initialize_response_sent' = (initialize_response_sent \/ merge)
  /\ local_initialize_response' = (b.local /\ ~merge)
  /\ host_initialize_response' = b.host
  /\ pending_client_messages' = b.held
  /\ pending_client_bytes' = b.bytes
  /\ Forward(b.direct, b)

\* The code after the select!: the merged initialize response goes out as
\* soon as both halves are there, then everything held if the session is usable.
EndOfIteration(b) ==
  LET merge == ~initialize_response_sent /\ b.local /\ b.host
      flush == b.ready /\ (initialize_response_sent \/ merge)
  IN
  /\ initialize_response_sent' = (initialize_response_sent \/ merge)
  /\ local_initialize_response' = (b.local /\ ~merge)
  /\ host_initialize_response' = b.host
  /\ pending_client_messages' = IF flush THEN <<>> ELSE b.held
  /\ pending_client_bytes' = IF flush THEN BytesWithout(b.bytes, b.held) ELSE b.bytes
  /\ Forward(IF flush THEN b.direct \o b.held ELSE b.direct, b)

\* Any bail! or ? ends the session.
Fail ==
  /\ session' = "over"
  /\ UNCHANGED <<registrationVars, initializeVars, forwardVars, peerVars, listVars, client_sent, clientVars>>

\* Defect: no early return when the start was already sent.
SendLocalThreadStart_Again(rs, pending, remote) ==
  /\ local_starts' =
       [r \in Starts |-> IF r \in rs THEN Append(local_starts[r], Injected(pending[r]))
                                    ELSE local_starts[r]]
  /\ EndOfIteration(
       [Now EXCEPT !.pending = [r \in Starts |-> IF r \in rs
                                                 THEN [pending[r] EXCEPT !.local_sent = TRUE]
                                                 ELSE pending[r]],
                   !.server = @ \cup {Request(r) : r \in rs},
                   !.remote = remote])

\* send_local_thread_start for the entries rs of pending, unless already sent.
SendLocalThreadStart(rs, pending, remote) ==
  LET due == {r \in rs : ~pending[r].local_sent} IN
  /\ local_starts' =
       [r \in Starts |->
          IF r \in due
          THEN Append(local_starts[r], Injected(pending[r]))
          ELSE local_starts[r]]
  /\ EndOfIteration(
       [Now EXCEPT !.pending = [r \in Starts |-> IF r \in due
                                                 THEN [pending[r] EXCEPT !.local_sent = TRUE]
                                                 ELSE pending[r]],
                   !.server = @ \cup {Request(r) : r \in due},
                   !.remote = remote])

-----------------------------------------------------------------------------
(* Messages from the client *)

ClientInitialize ==
  /\ ~initialize_requested
  /\ initialize_requested' = TRUE
  /\ EndOfIteration([Now EXCEPT !.server = @ \cup {InitializeId}, !.remote = @ \cup {HostInitializeId}])
  /\ UNCHANGED <<session, phase, attempts, local_starts, listVars, client_sent, clientVars>>

\* Defect: the gate does not wait for the initialize response.
Holding_UntilReady == initialize_requested /\ phase # "Ready"

\* The gate: between initialize and a usable session, requests are held.
Holding ==
  /\ initialize_requested
  /\ phase # "Ready" \/ ~initialize_response_sent

\* A request that is held is counted first; the count has a limit.
Held(r) == [Now EXCEPT !.held = Append(@, r), !.bytes = @ + Bytes[r]]

\* Defect: a thread/list that is held is not remembered.
ClientRequest_ForgetsHeldList(r) ==
  /\ r \notin Range(client_sent)
  /\ client_sent' = Append(client_sent, r)
  /\ pending_thread_list_requests' =
       IF Method[r] = "thread/list" /\ ~Holding
       THEN pending_thread_list_requests \cup {r}
       ELSE pending_thread_list_requests
  /\ EndOfIteration(IF Holding
                    THEN Held(r)
                    ELSE [Now EXCEPT !.direct = <<r>>])
  /\ UNCHANGED <<session, registrationVars, local_starts, thread_ids, clientVars>>

ClientRequest(r) ==
  /\ r \notin Range(client_sent)
  /\ IF Holding /\ pending_client_bytes + Bytes[r] > MaxPendingClientBytes
     THEN Fail
     ELSE /\ client_sent' = Append(client_sent, r)
          /\ pending_thread_list_requests' =
               IF Method[r] = "thread/list"
               THEN pending_thread_list_requests \cup {r}
               ELSE pending_thread_list_requests
          /\ EndOfIteration(IF Holding
                            THEN Held(r)
                            ELSE [Now EXCEPT !.direct = <<r>>])
          /\ UNCHANGED <<session, registrationVars, local_starts, thread_ids, clientVars>>

-----------------------------------------------------------------------------
(* Messages from the local App Server *)

ServerInitialize ==
  /\ InitializeId \in server_open
  /\ phase = "WaitingForInitialize"
  /\ \/ Fail
     \/ /\ phase' = "Registering"
        /\ EndOfIteration([Now EXCEPT !.local = TRUE,
                                      !.server = (@ \ {InitializeId}) \cup {AddId}])
        /\ UNCHANGED <<session, initialize_requested, attempts, local_starts, listVars, client_sent, clientVars>>

\* This branch and the next end in continue: the end of the iteration is skipped.
ServerEnvironmentAdd ==
  /\ AddId \in server_open
  /\ \/ Fail
     \/ /\ phase' = "Polling"
        /\ attempts' = 1
        /\ server_open' = (server_open \ {AddId}) \cup {StatusId}
        /\ UNCHANGED <<session, initialize_requested, initializeVars, forwardVars, pending_thread_metadata,
                       host_open, local_starts, listVars, client_sent, clientVars>>

\* Defect: what leaves the queue here stays counted.
StatusReady_StillCounted ==
  /\ StatusId \in server_open
  /\ phase' = "Ready"
  /\ attempts' = 0
  /\ pending_client_messages' = IF initialize_response_sent THEN <<>> ELSE pending_client_messages
  /\ Forward(IF initialize_response_sent THEN pending_client_messages ELSE <<>>,
             [Now EXCEPT !.server = @ \ {StatusId}])
  /\ UNCHANGED <<session, initialize_requested, initializeVars, pending_client_bytes, local_starts,
                 listVars, client_sent, clientVars>>

StatusReady ==
  /\ StatusId \in server_open
  /\ phase' = "Ready"
  /\ attempts' = 0
  /\ pending_client_messages' = IF initialize_response_sent THEN <<>> ELSE pending_client_messages
  /\ pending_client_bytes' = IF initialize_response_sent
                             THEN BytesWithout(pending_client_bytes, pending_client_messages)
                             ELSE pending_client_bytes
  /\ Forward(IF initialize_response_sent THEN pending_client_messages ELSE <<>>,
             [Now EXCEPT !.server = @ \ {StatusId}])
  /\ UNCHANGED <<session, initialize_requested, initializeVars, local_starts, listVars,
                 client_sent, clientVars>>

StatusNotReady ==
  /\ StatusId \in server_open
  /\ IF phase # "Polling" \/ attempts + 1 > MaxStatusAttempts
     THEN Fail
     ELSE /\ attempts' = attempts + 1
          /\ UNCHANGED <<session, initialize_requested, phase, initializeVars, forwardVars, peerVars,
                         listVars, client_sent, clientVars>>

StatusError ==
  /\ StatusId \in server_open
  /\ Fail

\* A message with the id of client request r: its response or, the ids of
\* the two directions being unrelated, a request of the App Server's own,
\* which it makes once it is initialized.
FromServer(r, kind) ==
  \/ kind \in {"result", "error"} /\ Request(r) \in server_open
  \/ kind = "request" /\ r \in ServerRequestIds /\ phase # "WaitingForInitialize"

ServerOpenAfter(r, kind) ==
  IF kind = "request" THEN server_open ELSE server_open \ {Request(r)}

Deliver(r, response) ==
  inbox' = [inbox EXCEPT ![r] = Append(@, response)]

AwaitsStart(r) ==
  r \in Starts /\ pending_thread_metadata[r] # None /\ pending_thread_metadata[r].local_sent

\* The first message with its id settles a thread/start.  Merging fails on a
\* message that has no result.
ServerThreadStart(r, kind) ==
  /\ FromServer(r, kind)
  /\ AwaitsStart(r)
  /\ LET merges == pending_thread_metadata[r].host_response /\ kind # "error" IN
     IF merges /\ kind = "request"
     THEN Fail
     ELSE /\ IF kind = "request"
             THEN UNCHANGED inbox
             ELSE Deliver(r, Response(kind = "result", merges, IF kind = "result" THEN {r} ELSE {}))
          /\ thread_ids' = IF kind = "result" THEN thread_ids \cup {r} ELSE thread_ids
          /\ EndOfIteration([Now EXCEPT !.pending[r] = None, !.server = ServerOpenAfter(r, kind)])
          /\ UNCHANGED <<session, registrationVars, local_starts, pending_thread_list_requests,
                         client_sent, stray>>

\* The first message with its id settles a thread/list; only a result has a
\* list to filter.
ServerThreadList(r, kind, listed) ==
  /\ FromServer(r, kind)
  /\ ~AwaitsStart(r)
  /\ r \in pending_thread_list_requests
  /\ pending_thread_list_requests' = pending_thread_list_requests \ {r}
  /\ IF kind = "request"
     THEN UNCHANGED inbox
     ELSE Deliver(r, Response(kind = "result", FALSE, IF kind = "result" THEN listed \cap thread_ids ELSE {}))
  /\ EndOfIteration([Now EXCEPT !.server = ServerOpenAfter(r, kind)])
  /\ UNCHANGED <<session, registrationVars, local_starts, thread_ids, client_sent, stray>>

\* Everything else reaches the client as it is (a request leaves no trace here).
ServerPassedOn(r, kind, listed) ==
  /\ FromServer(r, kind) /\ kind # "request"
  /\ ~AwaitsStart(r)
  /\ r \notin pending_thread_list_requests
  /\ Deliver(r, Response(kind = "result", FALSE,
                         CASE kind = "error" -> {}
                           [] Method[r] = "thread/start" -> {r}
                           [] Method[r] = "thread/list" -> listed
                           [] OTHER -> {}))
  /\ EndOfIteration([Now EXCEPT !.server = ServerOpenAfter(r, kind)])
  /\ UNCHANGED <<session, registrationVars, local_starts, listVars, client_sent, stray>>

\* The threads the local App Server may list: the local history and what
\* was started here.
Listable == OtherThreads \cup {r \in Starts : local_starts[r] # <<>>}

ServerMessage(r) ==
  \/ \E kind \in {"result", "error", "request"} : ServerThreadStart(r, kind)
  \/ \E kind \in {"result", "error", "request"}, listed \in SUBSET Listable :
       \/ ServerThreadList(r, kind, listed)
       \/ ServerPassedOn(r, kind, listed)

-----------------------------------------------------------------------------
(* Lines from the Host App Server *)

Answered(id) == host_open \ {id}

HostInitialize ==
  /\ HostInitializeId \in host_open
  /\ \/ Fail
     \/ /\ EndOfIteration([Now EXCEPT !.host = TRUE, !.remote = Answered(HostInitializeId)])
        /\ UNCHANGED <<session, registrationVars, local_starts, listVars, client_sent, clientVars>>

hostFrame == <<session, registrationVars, listVars, client_sent, clientVars>>

\* The shadow thread failed: start without host metadata.
HostMetadataError(r) ==
  /\ Metadata(r) \in host_open
  /\ pending_thread_metadata[r] # None
  /\ SendLocalThreadStart({r}, pending_thread_metadata, Answered(Metadata(r)))
  /\ UNCHANGED hostFrame

\* The shadow thread came back with its instruction sources.  The first
\* MAX_INSTRUCTION_SOURCES of them are read, repeated ones again, unless the
\* start is already out.
HostMetadata(r, sources) ==
  LET entry == pending_thread_metadata[r]
      answered == [entry EXCEPT !.host_response = TRUE]
      taken == [i \in {j \in DOMAIN sources : j <= MaxSources} |-> sources[i]]
  IN
  /\ Metadata(r) \in host_open
  /\ entry # None
  /\ \/ /\ entry.local_sent
        /\ EndOfIteration([Now EXCEPT !.pending[r] = answered, !.remote = Answered(Metadata(r))])
        /\ UNCHANGED local_starts
     \/ /\ ~entry.local_sent
        /\ SendLocalThreadStart(
             IF taken = <<>> THEN {r} ELSE {},
             [pending_thread_metadata EXCEPT
                ![r] = [answered EXCEPT !.instruction_paths = taken,
                                        !.pending_instruction_reads = DOMAIN taken]],
             Answered(Metadata(r)) \cup {Read(r, i) : i \in DOMAIN taken})
  /\ UNCHANGED hostFrame

AwaitsRead(r, i) ==
  pending_thread_metadata[r] # None /\ i \in pending_thread_metadata[r].pending_instruction_reads

\* fs/readFile returned nothing to inject: the source is skipped.
HostReadSkipped(r, i) ==
  LET entry == [pending_thread_metadata[r] EXCEPT !.pending_instruction_reads = @ \ {i}] IN
  /\ Read(r, i) \in host_open
  /\ AwaitsRead(r, i)
  /\ SendLocalThreadStart(IF entry.pending_instruction_reads = {} THEN {r} ELSE {},
                          [pending_thread_metadata EXCEPT ![r] = entry], Answered(Read(r, i)))
  /\ UNCHANGED hostFrame

TotalBytes(paths) == MapThenSumSet(LAMBDA p : FileBytes[p], paths)

\* Defect: the aggregate limit is not applied.
HostReadFile_NoTotal(r, i) ==
  LET p == pending_thread_metadata[r].instruction_paths[i]
      entry == [pending_thread_metadata[r] EXCEPT !.pending_instruction_reads = @ \ {i},
                                                  !.instruction_contents = @ \cup {p}]
  IN
  /\ Read(r, i) \in host_open
  /\ AwaitsRead(r, i)
  /\ FileBytes[p] <= MaxSourceBytes
  /\ SendLocalThreadStart(IF entry.pending_instruction_reads = {} THEN {r} ELSE {},
                          [pending_thread_metadata EXCEPT ![r] = entry], Answered(Read(r, i)))
  /\ UNCHANGED hostFrame

\* fs/readFile returned the file, which must fit both limits; bad base64 or
\* UTF-8 fails like one that does not.  The contents are kept by path, so a
\* file that is read again is added to a sum that already has it once and
\* leaves that sum as it was.
HostReadFile(r, i) ==
  LET p == pending_thread_metadata[r].instruction_paths[i]
      read == pending_thread_metadata[r].instruction_contents
      entry == [pending_thread_metadata[r] EXCEPT !.pending_instruction_reads = @ \ {i},
                                                  !.instruction_contents = @ \cup {p}]
  IN
  /\ Read(r, i) \in host_open
  /\ AwaitsRead(r, i)
  /\ \/ Fail
     \/ /\ FileBytes[p] <= MaxSourceBytes
        /\ TotalBytes(read) + FileBytes[p] <= MaxTotalBytes
        /\ SendLocalThreadStart(IF entry.pending_instruction_reads = {} THEN {r} ELSE {},
                                [pending_thread_metadata EXCEPT ![r] = entry], Answered(Read(r, i)))
        /\ UNCHANGED hostFrame

\* What the filter keeps from the client: the id of the host initialize and
\* every id that begins like those of the shadow threads.
host_message_allowed(id) == id # HostInitializeId /\ id[1] # "thread-metadata"

\* A reply nothing waits for: to the client, unless it answers the bridge.
HostReply(id) ==
  LET passed == host_message_allowed(id) IN
  /\ id \in host_open \ {HostInitializeId}
  /\ \A r \in Starts : id = Metadata(r) => pending_thread_metadata[r] = None
  /\ \A r \in Starts, i \in 1..MaxSources : id = Read(r, i) => ~AwaitsRead(r, i)
  /\ \E ok \in BOOLEAN :
       inbox' = [r \in Requests |-> IF id = Request(r) /\ passed
                                    THEN Append(inbox[r], Response(ok, FALSE, {}))
                                    ELSE inbox[r]]
  /\ stray' = IF passed /\ id \notin {Request(r) : r \in Requests} THEN stray \cup {id} ELSE stray
  /\ EndOfIteration([Now EXCEPT !.remote = Answered(id)])
  /\ UNCHANGED <<session, registrationVars, local_starts, listVars, client_sent>>

HostLine ==
  \/ HostInitialize
  \/ \E r \in Starts :
       \/ HostMetadataError(r)
       \/ \E sources \in Lists(MaxListed) : HostMetadata(r, sources)
       \/ \E i \in 1..MaxSources : HostReadSkipped(r, i) \/ HostReadFile(r, i)
  \/ \E id \in host_open : HostReply(id)

-----------------------------------------------------------------------------
(* Time, and the end of the session *)

Waiting == {r \in Starts : pending_thread_metadata[r] # None /\ ~pending_thread_metadata[r].local_sent}

\* PROJECT_METADATA_TIMEOUT has passed since started_at.
Expire(r) ==
  /\ r \in Waiting
  /\ pending_thread_metadata' = [pending_thread_metadata EXCEPT ![r].expired = TRUE]
  /\ UNCHANGED <<session, registrationVars, initializeVars, forwardVars, server_open, host_open, local_starts,
                 listVars, client_sent, clientVars, quiet>>

\* The 50 ms timer is made anew by every iteration, so nothing may happen
\* while it runs.
Pause ==
  /\ Waiting # {}
  /\ ~quiet
  /\ quiet' = TRUE
  /\ UNCHANGED relayVars

\* A notification or a frame without text, from either side, is an iteration
\* that only passes it on.
Chatter ==
  /\ quiet' = FALSE
  /\ UNCHANGED relayVars

\* Defect: once the host has answered, the timer leaves the reads alone.
Timer_OnlyUnanswered ==
  LET expired == {r \in Waiting : pending_thread_metadata[r].expired /\ ~pending_thread_metadata[r].host_response} IN
  /\ quiet
  /\ expired # {}
  /\ SendLocalThreadStart(expired, pending_thread_metadata, host_open)
  /\ UNCHANGED hostFrame

\* The 50 ms timer branch: what has expired starts with what has been read.
Timer ==
  LET expired == {r \in Waiting : pending_thread_metadata[r].expired} IN
  /\ quiet
  /\ expired # {}
  /\ SendLocalThreadStart(expired, pending_thread_metadata, host_open)
  /\ UNCHANGED hostFrame

\* The client or the local App Server closes its WebSocket, or the remote
\* Host App Server disconnects.
Disconnect ==
  /\ session' = "over"
  /\ UNCHANGED <<registrationVars, initializeVars, forwardVars, peerVars, listVars, client_sent, clientVars>>

\* An iteration that does something.
Iteration ==
  \/ ClientInitialize
  \/ \E r \in Requests : ClientRequest(r) \/ ServerMessage(r)
  \/ ServerInitialize
  \/ ServerEnvironmentAdd
  \/ StatusReady
  \/ StatusNotReady
  \/ StatusError
  \/ HostLine
  \/ Timer
  \/ Disconnect

Next ==
  /\ session = "open"
  /\ \/ Iteration /\ quiet' = FALSE
     \/ \E r \in Starts : Expire(r)
     \/ Pause
     \/ Chatter

Spec == Init /\ [][Next]_vars

(* The local App Server answers initialize, environment/add and            *)
(* environment/status and the host answers initialize; three seconds pass, *)
(* and select!, which picks among ready branches at random, picks the      *)
(* timer in the end if it is ready again and again.  Nothing is assumed of *)
(* other replies, nor that the traffic ever pauses for the timer.          *)
Open(action) == session = "open" /\ action /\ quiet' = FALSE

FairSpec ==
  /\ Spec
  /\ WF_vars(Open(ServerInitialize))
  /\ WF_vars(Open(ServerEnvironmentAdd))
  /\ WF_vars(Open(StatusReady \/ StatusNotReady \/ StatusError))
  /\ WF_vars(Open(HostInitialize))
  /\ WF_vars(session = "open" /\ \E r \in Starts : Expire(r))
  /\ SF_vars(Open(Timer))

-----------------------------------------------------------------------------
(* Properties *)

\* Requests are forwarded in the order the client sent them, each once: what
\* was sent is what was forwarded followed by what is held, through the
\* queueing, both flushes and the direct path of relay_websocket.
HeldInOrder == client_sent = forwarded \o pending_client_messages

\* A thread/start reaches the local App Server at most once, whichever of the
\* metadata error, the last file, the empty source list and the timer comes
\* first, and however many of the others follow (send_local_thread_start).
StartedOnce == \A r \in Starts : Len(local_starts[r]) <= 1

\* The queue of a session that is not yet usable stays within its limit, and
\* the count kept beside it is right: both places that empty the queue count
\* every request out that ClientRequest counted in.
QueueBounded ==
  /\ pending_client_bytes = HeldBytes(Range(pending_client_messages))
  /\ pending_client_bytes <= MaxPendingClientBytes

\* A thread/start that went out before its three seconds were up with host
\* metadata carries every listed source that could be read, and no read is
\* still under way.
InstructionsComplete ==
  \A r \in Starts :
    LET entry == pending_thread_metadata[r] IN
    /\ entry # None
    /\ entry.local_sent
    /\ entry.instruction_paths # <<>>
    /\ ~entry.expired
    => /\ entry.pending_instruction_reads = {}
       /\ local_starts[r] = <<Injected(entry)>>

\* What is injected into a thread/start: as many sections as sources are read,
\* no file over its limit, and the distinct files together within the total.
\* The code sums each file once and injects it as often as the host lists it,
\* so the sections of a repeated file may exceed the total: see WithinTotal.
InstructionBudget ==
  \A r \in Starts : \A files \in Range(local_starts[r]) :
    /\ Cardinality(DOMAIN files) <= MaxSources
    /\ \A p \in Range(files) : FileBytes[p] <= MaxSourceBytes
    /\ TotalBytes(Range(files)) <= MaxTotalBytes

\* What docs/architecture.md says of the discovery of instruction files: all
\* that is injected into a thread/start is within the total.
WithinTotal ==
  \A r \in Starts : \A files \in Range(local_starts[r]) :
    MapThenSumSet(LAMBDA i : FileBytes[files[i]], DOMAIN files) <= MaxTotalBytes

\* What is injected is all that could be read and within the limits.
InstructionsInjected == InstructionsComplete /\ InstructionBudget

\* The sidebar shows no thread but the profile's own: every list the client
\* received names recorded threads only (filter_thread_list_response).
OnlyOwnThreadsListed ==
  \A r \in Requests : Method[r] = "thread/list" =>
    \A response \in Range(inbox[r]) : response.threads \subseteq thread_ids

\* Exactly the threads whose successful thread/start the client has seen are
\* recorded as the profile's own (record_owned_thread).
OwnershipRecorded ==
  \A r \in Starts : r \in thread_ids <=> \E response \in Range(inbox[r]) : response.ok

\* The lists the client receives and the record of its own threads agree with
\* what it was told about each thread/start.
OwnThreads == OnlyOwnThreadsListed /\ OwnershipRecorded

\* The relay implements the forwarder it promises to be: gate, order, at most
\* one answer per request, and no answer to what the client did not ask, late
\* replies to the bridge's own requests included (host_message_allowed).
Promise ==
  INSTANCE GatedForwarder WITH
    sent <- client_sent,
    forwarded <- forwarded,
    answers <- [r \in Requests |-> Len(inbox[r])],
    unasked <- stray,
    gate <- IF ~initialize_requested THEN "unrequested"
            ELSE IF Holding THEN "closed" ELSE "open",
    over <- session # "open"

ImplementsGatedForwarder == Promise!Spec

\* Whatever is held is forwarded in the end, or the session has ended: nothing
\* stays in the queue of a session that never becomes usable.
RequestsForwarded ==
  client_sent # forwarded ~> client_sent = forwarded \/ session # "open"

\* Every forwarded thread/start reaches the local App Server in the end, even
\* if the host never answers its shadow or a file read, provided that, while
\* one waits, the traffic of the session pauses for 50 ms again and again:
\* without pauses the timer of relay_websocket never fires, and the three
\* seconds of the docs do not hold.
StartsReachServer ==
  []<>(Waiting = {} \/ quiet) =>
    \A r \in Starts : r \in Range(forwarded) ~> local_starts[r] # <<>> \/ session # "open"
=============================================================================
