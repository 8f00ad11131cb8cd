---------------------------- MODULE RelayProofs ----------------------------
(***************************************************************************)
(* What is proved of the relay, for every set of requests, threads and     *)
(* files and every limit: its type invariant; an inductive invariant of    *)
(* its queue, its thread/starts and its answers, with the invariants it    *)
(* implies and the refinement of GatedForwarder; that no listed source     *)
(* that was read is lost and what is injected keeps to the limits, a       *)
(* repeated file counted once; and that a list names the profile's own     *)
(* threads only.                                                           *)
(***************************************************************************)
EXTENDS Relay, FiniteSetTheorems, SequenceTheorems, WellFoundedInduction, TLAPS

-----------------------------------------------------------------------------
(* Sums over finite sets.  What the recursion of the library computes is   *)
(* shown by looking at a smallest set for which it would not.                *)

\* A set of numbers has a least one.
LEMMA LeastNumber ==
  ASSUME NEW T, T \subseteq Nat, T # {}
  PROVE  \E n \in T : \A m \in T : n <= m
  <1> DEFINE Less == {ss \in Nat \X Nat : ss[1] < ss[2]}
  <1>1. IsWellFoundedOn(Less, Nat)
    BY NatLessThanWellFounded DEF OpToRel
  <1>2. \A m, n \in T : m < n => <<m, n>> \in Less
    OBVIOUS
  <1> HIDE DEF Less
  <1>3. \E n \in T : \A m \in T : ~(<<m, n>> \in Less)
    BY <1>1, WFMin
  <1>4. PICK n \in T : \A m \in T : ~(<<m, n>> \in Less)
    BY <1>3
  <1>5. ASSUME NEW m \in T PROVE n <= m
    <2>1. ~(m < n)
      BY <1>2, <1>4
    <2>2. m \in Nat /\ n \in Nat
      OBVIOUS
    <2>3. QED
      BY <2>1, <2>2
  <1>6. QED
    BY <1>5

\* Of some finite sets, one has none of the others as a proper subset.
LEMMA SmallestSet ==
  ASSUME NEW S, IsFiniteSet(S), NEW B, B \subseteq SUBSET S, B # {}
  PROVE  \E T \in B : \A U \in B : U \subseteq T => U = T
  <1> DEFINE sizes == {Cardinality(T) : T \in B}
  <1>1. \A T \in B : IsFiniteSet(T) /\ Cardinality(T) \in Nat
    BY FS_Subset, FS_CardinalityType
  <1>2. sizes \subseteq Nat /\ sizes # {}
    BY <1>1
  <1>3. PICK n \in sizes : \A m \in sizes : n <= m
    BY <1>2, LeastNumber
  <1>4. PICK T \in B : Cardinality(T) = n
    BY <1>3
  <1>5. ASSUME NEW U \in B, U \subseteq T, U # T
        PROVE  FALSE
    <2>1. Cardinality(U) < Cardinality(T)
      BY <1>1, <1>5, FS_Subset
    <2>2. QED
      BY <1>1, <1>3, <1>4, <2>1
  <1>6. QED
    BY <1>4, <1>5

\* The sum of w over a set is a recursive function of the library: what makes one.
SumOf(w, S) == MapThenSumSet(LAMBDA x : w[x], S)
Pick(s) == CHOOSE x \in s : TRUE
IsTotal(w, f, S) == f = [s \in SUBSET S |-> IF s = {} THEN 0 ELSE w[Pick(s)] + f[s \ {Pick(s)}]]

LEMMA TotalIs == ASSUME NEW w, NEW S PROVE SumOf(w, S) = (CHOOSE f : IsTotal(w, f, S))[S]
  BY DEF SumOf, MapThenSumSet, MapThenFoldSet, IsTotal, Pick

\* The element the recursion takes out is one of the set.
LEMMA PickIs == ASSUME NEW s, s # {} PROVE Pick(s) \in s
  BY DEF Pick

\* Two of them agree where both are defined.
LEMMA TotalsAgree ==
  ASSUME NEW w, NEW S, IsFiniteSet(S), NEW T, NEW f, IsTotal(w, f, S), NEW g, IsTotal(w, g, T),
         NEW U \in SUBSET S, U \subseteq T
  PROVE  f[U] = g[U]
  <1> DEFINE B == {V \in SUBSET S : V \subseteq T /\ f[V] # g[V]}
  <1>1. SUFFICES ASSUME B # {} PROVE FALSE
    OBVIOUS
  <1>2. PICK V \in B : \A W \in B : W \subseteq V => W = V
    <2>1. B \subseteq SUBSET S
      OBVIOUS
    <2> HIDE DEF B
    <2>2. QED
      BY <1>1, <2>1, SmallestSet
  <1>3. V # {}
    BY <1>2 DEF IsTotal
  <1> DEFINE W == V \ {Pick(V)}
  <1>4. W \notin B /\ W \subseteq S /\ W \subseteq T
    BY <1>2, <1>3, PickIs
  <1>5. f[W] = g[W]
    BY <1>4
  <1>6. f[V] = w[Pick(V)] + f[W] /\ g[V] = w[Pick(V)] + g[W]
    BY <1>2, <1>3 DEF IsTotal
  <1>7. QED
    BY <1>2, <1>5, <1>6

HasTotal(w, S) == \E f : IsTotal(w, f, S)

\* One that exists gives the total of each subset.
LEMMA TotalOfSubset ==
  ASSUME NEW w, NEW S, IsFiniteSet(S), NEW f, IsTotal(w, f, S), NEW U \in SUBSET S, HasTotal(w, U)
  PROVE  f[U] = SumOf(w, U)
  <1>1. IsTotal(w, CHOOSE g : IsTotal(w, g, U), U)
    BY DEF HasTotal
  <1> DEFINE g == CHOOSE h : IsTotal(w, h, U)
  <1>2. SumOf(w, U) = g[U] /\ IsTotal(w, g, U)
    BY <1>1, TotalIs
  <1> HIDE DEF g
  <1>3. QED
    BY <1>2, TotalsAgree

LEMMA TotalExists ==
  ASSUME NEW w, NEW S, IsFiniteSet(S)
  PROVE  HasTotal(w, S)
  <1> DEFINE B == {T \in SUBSET S : ~HasTotal(w, T)}
  <1>1. SUFFICES ASSUME B # {} PROVE FALSE
    OBVIOUS
  <1>2. PICK T \in B : \A U \in B : U \subseteq T => U = T
    <2>1. B \subseteq SUBSET S
      OBVIOUS
    <2> HIDE DEF B
    <2>2. QED
      BY <1>1, <2>1, SmallestSet
  <1>3. \A U \in SUBSET T : IsFiniteSet(U) /\ (U # T => HasTotal(w, U))
    BY <1>2, FS_Subset
  <1> DEFINE f == [s \in SUBSET T |-> IF s = {} THEN 0 ELSE w[Pick(s)] + SumOf(w, s \ {Pick(s)})]
  <1>4. ASSUME NEW s \in SUBSET T, s # {}
        PROVE  f[s \ {Pick(s)}] = SumOf(w, s \ {Pick(s)})
    <2> DEFINE u == s \ {Pick(s)}
    <2> SUFFICES f[u] = SumOf(w, u)
      OBVIOUS
    <2>1. u \in SUBSET T /\ u # T /\ IsFiniteSet(u) /\ HasTotal(w, u)
      BY <1>3, <1>4, PickIs
    <2>2. PICK g : g = (CHOOSE h : IsTotal(w, h, u)) /\ IsTotal(w, g, u) /\ SumOf(w, u) = g[u]
      BY <2>1, TotalIs DEF HasTotal
    <2> HIDE DEF u
    <2>3. CASE u = {}
      <3>1. g[u] = 0
        BY <2>2, <2>3 DEF IsTotal
      <3>2. f[u] = 0
        BY <2>1, <2>3
      <3>3. QED
        BY <2>2, <3>1, <3>2
    <2>4. CASE u # {}
      <3> DEFINE v == u \ {Pick(u)}
      <3>1. v \in SUBSET u /\ v \in SUBSET T /\ v # T
        BY <2>1, <2>4, PickIs
      <3>2. g[v] = SumOf(w, v)
        <4>1. HasTotal(w, v)
          BY <1>3, <3>1
        <4> HIDE DEF v
        <4>2. QED
          BY <2>1, <2>2, <3>1, <4>1, TotalOfSubset
      <3>3. g[u] = w[Pick(u)] + g[v]
        BY <2>2, <2>4 DEF IsTotal
      <3>4. f[u] = w[Pick(u)] + SumOf(w, v)
        BY <2>1, <2>4
      <3>5. QED
        BY <2>2, <3>2, <3>3, <3>4
    <2>5. QED
      BY <2>3, <2>4
  <1>5. f = [s \in SUBSET T |-> IF s = {} THEN 0 ELSE w[Pick(s)] + f[s \ {Pick(s)}]]
    BY <1>4
  <1>6. IsTotal(w, f, T)
    <2> HIDE DEF f
    <2> QED BY <1>5 DEF IsTotal
  <1>7. QED
    BY <1>2, <1>6 DEF HasTotal

\* The equation that the recursion stands for.
LEMMA TotalStep ==
  ASSUME NEW w, NEW S, IsFiniteSet(S)
  PROVE  SumOf(w, S) = IF S = {} THEN 0 ELSE w[Pick(S)] + SumOf(w, S \ {Pick(S)})
  <1>1. PICK f : IsTotal(w, f, S) /\ SumOf(w, S) = f[S]
    BY TotalExists, TotalIs DEF HasTotal
  <1>2. f[S] = IF S = {} THEN 0 ELSE w[Pick(S)] + f[S \ {Pick(S)}]
    BY <1>1 DEF IsTotal
  <1>3. f[S \ {Pick(S)}] = SumOf(w, S \ {Pick(S)})
    <2> DEFINE rest == S \ {Pick(S)}
    <2>1. rest \in SUBSET S /\ IsFiniteSet(rest)
      BY FS_Subset
    <2> HIDE DEF rest
    <2>2. HasTotal(w, rest)
      BY <2>1, TotalExists
    <2>3. f[rest] = SumOf(w, rest)
      BY <1>1, <2>1, <2>2, TotalOfSubset
    <2>4. QED
      BY <2>3 DEF rest
  <1>4. QED
    BY <1>1, <1>2, <1>3

LEMMA TotalType ==
  ASSUME NEW D, NEW w \in [D -> Nat], NEW S \in SUBSET D, IsFiniteSet(S)
  PROVE  SumOf(w, S) \in Nat
  <1> DEFINE B == {T \in SUBSET S : SumOf(w, T) \notin Nat}
  <1>1. SUFFICES ASSUME B # {} PROVE FALSE
    OBVIOUS
  <1>2. PICK T \in B : \A U \in B : U \subseteq T => U = T
    <2>1. B \subseteq SUBSET S
      OBVIOUS
    <2> HIDE DEF B
    <2>2. QED
      BY <1>1, <2>1, SmallestSet
  <1>3. IsFiniteSet(T)
    BY <1>2, FS_Subset
  <1>4. T # {}
    <2>1. SumOf(w, T) = IF T = {} THEN 0 ELSE w[Pick(T)] + SumOf(w, T \ {Pick(T)})
      BY <1>3, TotalStep
    <2>2. SumOf(w, T) \notin Nat
      BY <1>2
    <2>3. QED
      BY <2>1, <2>2
  <1>5. Pick(T) \in T /\ SumOf(w, T \ {Pick(T)}) \in Nat
    BY <1>2, <1>4, PickIs
  <1>6. SumOf(w, T) = w[Pick(T)] + SumOf(w, T \ {Pick(T)})
    BY <1>3, <1>4, TotalStep
  <1>7. QED
    BY <1>2, <1>5, <1>6

\* Whichever element is taken out.
LEMMA TotalWithout ==
  ASSUME NEW D, NEW w \in [D -> Nat], NEW S \in SUBSET D, IsFiniteSet(S), NEW x \in S
  PROVE  SumOf(w, S) = w[x] + SumOf(w, S \ {x})
  <1> DEFINE B == {T \in SUBSET S : \E p \in T : SumOf(w, T) # w[p] + SumOf(w, T \ {p})}
  <1>1. SUFFICES ASSUME B # {} PROVE FALSE
    OBVIOUS
  <1>2. PICK T \in B : \A U \in B : U \subseteq T => U = T
    <2>1. B \subseteq SUBSET S
      OBVIOUS
    <2> HIDE DEF B
    <2>2. QED
      BY <1>1, <2>1, SmallestSet
  <1>3. PICK p \in T : SumOf(w, T) # w[p] + SumOf(w, T \ {p})
    OBVIOUS
  <1> DEFINE q == Pick(T)
             rest == T \ {p, q}
  <1>4. IsFiniteSet(T) /\ T # {} /\ q \in T /\ T \subseteq S
    BY <1>2, <1>3, FS_Subset, PickIs
  <1>5. SumOf(w, T) = w[q] + SumOf(w, T \ {q})
    BY <1>4, TotalStep
  <1>6. q # p
    BY <1>3, <1>5
  <1> HIDE DEF q
  <1>7. T \ {q} \notin B /\ T \ {p} \notin B
    BY <1>2, <1>3, <1>4
  <1>8. SumOf(w, T \ {q}) = w[p] + SumOf(w, rest)
    <2>1. p \in T \ {q} /\ (T \ {q}) \ {p} = rest
      BY <1>6
    <2>2. QED
      BY <1>4, <1>7, <2>1
  <1>9. SumOf(w, T \ {p}) = w[q] + SumOf(w, rest)
    <2>1. q \in T \ {p} /\ (T \ {p}) \ {q} = rest
      BY <1>4, <1>6
    <2>2. QED
      BY <1>4, <1>7, <2>1
  <1>10. {SumOf(w, rest), w[p], w[q]} \subseteq Nat
    BY <1>4, FS_Subset, TotalType
  <1>11. QED
    BY <1>3, <1>5, <1>8, <1>9, <1>10

\* The two sums of the relay: bytes of files, and bytes of held requests.
LEMMA RelaySums ==
  /\ \A S : TotalBytes(S) = SumOf(FileBytes, S)
  /\ \A S : HeldBytes(S) = SumOf(Bytes, S)
  BY DEF TotalBytes, HeldBytes, SumOf

\* The bytes of a queue.
LEMMA HeldBytesType ==
  ASSUME NEW rs \in Seq(Requests)
  PROVE  IsFiniteSet(Range(rs)) /\ Range(rs) \subseteq Requests /\ HeldBytes(Range(rs)) \in Nat
  <1>1. Range(rs) \subseteq Requests
    BY RangeOfSeq
  <1>2. IsFiniteSet(Range(rs))
    <2>1. IsFiniteSet(1..Len(rs))
      BY FS_Interval
    <2>2. rs \in Surjection(1..Len(rs), Range(rs))
      BY DEF Range, Surjection
    <2>3. QED
      BY <2>1, <2>2, FS_Surjection
  <1>3. QED
    BY <1>1, <1>2, RelaySums, TotalType, RequestsAssumption

LEMMA BytesWithoutType ==
  ASSUME NEW bytes \in Nat, NEW rs \in Seq(Requests)
  PROVE  BytesWithout(bytes, rs) \in Nat
  BY HeldBytesType DEF BytesWithout
-----------------------------------------------------------------------------
(* Routes and ids *)

\* Only a thread/start is routed as one.
LEMMA RouteOfStarts ==
  ASSUME NEW r \in Requests, RequestRoute(r) = "ThreadStart"
  PROVE  r \in Starts
  BY DEF RequestRoute, Starts

\* What the bridge writes to the two servers has an id of theirs.
LEMMA IdTypes ==
  /\ {InitializeId, AddId, StatusId} \subseteq ServerIds
  /\ HostInitializeId \in HostIds
  /\ \A r \in Requests : Request(r) \in ServerIds /\ Request(r) \in HostIds
  /\ \A r \in Starts : Metadata(r) \in HostIds
  /\ \A r \in Starts, i \in 1..MaxSources : Read(r, i) \in HostIds
  BY DEF ServerIds, HostIds, InternalIds

-----------------------------------------------------------------------------
(* The type invariant *)

\* What a branch may leave to the code after the select!.
Branches ==
  [direct: Seq(Requests), held: Seq(Requests), bytes: Nat,
   ready: BOOLEAN, local: BOOLEAN, host: BOOLEAN,
   pending: [Starts -> Pending \cup {None}],
   server: SUBSET ServerIds, remote: SUBSET HostIds]

LEMMA NowType ==
  ASSUME TypeOK
  PROVE  Now \in Branches
  BY DEF TypeOK, Now, Branches

\* A list of sources may be empty.
LEMMA NoSources == \A n \in Nat : <<>> \in Lists(n)
  <1> SUFFICES ASSUME NEW n \in Nat PROVE <<>> \in Lists(n)
    OBVIOUS
  <1>1. <<>> \in [1..0 -> Paths] /\ 0 \in 0..n
    OBVIOUS
  <1>2. QED
    BY <1>1 DEF Lists

LEMMA NewPendingType == NewPending \in Pending
  <1>1. <<>> \in Lists(MaxSources) /\ DOMAIN <<>> = {}
    BY NoSources, LimitsAssumption
  <1>2. QED
    BY <1>1 DEF NewPending, Pending

\* The types of what Forward changes.
ForwardTypes ==
  /\ forwarded' \in Seq(Requests)
  /\ server_open' \subseteq ServerIds
  /\ host_open' \subseteq HostIds
  /\ pending_thread_metadata' \in [Starts -> Pending \cup {None}]

LEMMA ForwardType ==
  ASSUME forwarded \in Seq(Requests), NEW rs \in Seq(Requests), NEW b \in Branches, Forward(rs, b)
  PROVE  ForwardTypes
  <1>1. Range(rs) \subseteq Requests
    BY RangeOfSeq
  <1>2. NewPending \in Pending
    BY NewPendingType
  <1>3. {Request(r) : r \in Routed(Range(rs), "Local")} \subseteq ServerIds
    BY <1>1, IdTypes DEF Routed
  <1>4. {Request(r) : r \in Routed(Range(rs), "Host")} \subseteq HostIds
    BY <1>1, IdTypes DEF Routed
  <1>5. {Metadata(r) : r \in Routed(Range(rs), "ThreadStart")} \subseteq HostIds
    BY <1>1, IdTypes, RouteOfStarts DEF Routed
  <1>6. b.server \subseteq ServerIds /\ b.remote \subseteq HostIds
        /\ b.pending \in [Starts -> Pending \cup {None}]
    BY DEF Branches
  <1>7. forwarded' \in Seq(Requests)
    BY DEF Forward
  <1>8. server_open' \subseteq ServerIds
    BY <1>3, <1>6 DEF Forward
  <1>9. host_open' \subseteq HostIds
    BY <1>4, <1>5, <1>6 DEF Forward
  <1>10. pending_thread_metadata' \in [Starts -> Pending \cup {None}]
    BY <1>2, <1>6 DEF Forward
  <1>11. QED
    BY <1>7, <1>8, <1>9, <1>10 DEF ForwardTypes

LEMMA EndOfIterationType ==
  ASSUME TypeOK, NEW b \in Branches, EndOfIteration(b)
  PROVE  /\ ForwardTypes
         /\ initialize_response_sent' \in BOOLEAN
         /\ local_initialize_response' \in BOOLEAN
         /\ host_initialize_response' \in BOOLEAN
         /\ pending_client_messages' \in Seq(Requests)
         /\ pending_client_bytes' \in Nat
  <1>1. PICK flush \in BOOLEAN :
          /\ Forward(IF flush THEN b.direct \o b.held ELSE b.direct, b)
          /\ pending_client_messages' = IF flush THEN <<>> ELSE b.held
          /\ pending_client_bytes' = IF flush THEN BytesWithout(b.bytes, b.held) ELSE b.bytes
    BY DEF EndOfIteration
  <1>2. b.direct \in Seq(Requests) /\ b.held \in Seq(Requests) /\ b.bytes \in Nat
    BY DEF Branches
  <1>3. ForwardTypes
    <2>1. \A rs \in Seq(Requests) : Forward(rs, b) => ForwardTypes
      BY ForwardType DEF TypeOK
    <2>2. (IF flush THEN b.direct \o b.held ELSE b.direct) \in Seq(Requests)
      BY <1>2
    <2>3. QED
      BY <1>1, <2>1, <2>2
  <1>4. pending_client_messages' \in Seq(Requests) /\ pending_client_bytes' \in Nat
    BY <1>1, <1>2, BytesWithoutType
  <1>5. /\ initialize_response_sent' \in BOOLEAN
        /\ local_initialize_response' \in BOOLEAN
        /\ host_initialize_response' \in BOOLEAN
    BY DEF EndOfIteration, TypeOK, Branches
  <1>6. QED
    BY <1>3, <1>4, <1>5

\* What an entry injects is a copy.
LEMMA InjectedType ==
  ASSUME NEW entry \in Pending
  PROVE  /\ DOMAIN Injected(entry) \subseteq 1..MaxSources
         /\ DOMAIN Injected(entry) \subseteq DOMAIN entry.instruction_paths
         /\ Injected(entry) \in [DOMAIN Injected(entry) -> Paths]
         /\ Injected(entry) \in Copies
  <1>1. PICK n \in 0..MaxSources : entry.instruction_paths \in [1..n -> Paths]
    BY DEF Pending, Lists
  <1> DEFINE paths == entry.instruction_paths
             sections == {j \in DOMAIN paths : paths[j] \in entry.instruction_contents}
  <1>2. DOMAIN paths = 1..n /\ 1..n \subseteq 1..MaxSources /\ \A i \in 1..n : paths[i] \in Paths
    BY <1>1, LimitsAssumption
  <1>3. Injected(entry) = [i \in sections |-> paths[i]]
    BY DEF Injected
  <1>4. sections \subseteq 1..n /\ sections \in SUBSET (1..MaxSources)
    BY <1>2
  <1> HIDE DEF paths, sections
  <1>5. Injected(entry) \in [sections -> Paths] /\ DOMAIN Injected(entry) = sections
    BY <1>2, <1>3, <1>4
  <1>6. QED
    BY <1>2, <1>4, <1>5 DEF Copies, paths

\* The source of a read that is under way.
LEMMA AwaitedSource ==
  ASSUME NEW entry \in Pending, NEW i \in entry.pending_instruction_reads
  PROVE  i \in DOMAIN entry.instruction_paths /\ entry.instruction_paths[i] \in Paths
  <1>1. PICK n \in 0..MaxSources : entry.instruction_paths \in [1..n -> Paths]
    BY DEF Pending, Lists
  <1>2. i \in DOMAIN entry.instruction_paths
    BY DEF Pending
  <1>3. QED
    BY <1>1, <1>2

LEMMA SentPending ==
  ASSUME NEW entry \in Pending
  PROVE  /\ [entry EXCEPT !.local_sent = TRUE] \in Pending
         /\ [entry EXCEPT !.local_sent = TRUE].local_sent
  BY DEF Pending

\* send_local_thread_start appends to the history of one thread/start at most.
LEMMA SendLocalType ==
  ASSUME TypeOK, NEW rs \in SUBSET Starts, NEW pending \in [Starts -> Pending \cup {None}],
         NEW remote \in SUBSET HostIds, \A r \in rs : pending[r] # None,
         SendLocalThreadStart(rs, pending, remote)
  PROVE  /\ ForwardTypes
         /\ initialize_response_sent' \in BOOLEAN
         /\ local_initialize_response' \in BOOLEAN
         /\ host_initialize_response' \in BOOLEAN
         /\ pending_client_messages' \in Seq(Requests)
         /\ pending_client_bytes' \in Nat
         /\ local_starts' \in [Starts -> Seq(Copies)]
  <1> DEFINE due == {r \in rs : ~pending[r].local_sent}
             sent == [r \in Starts |-> IF r \in due THEN [pending[r] EXCEPT !.local_sent = TRUE]
                                                    ELSE pending[r]]
             b == [Now EXCEPT !.pending = sent,
                              !.server = @ \cup {Request(r) : r \in due},
                              !.remote = remote]
  <1>1. \A r \in due : pending[r] \in Pending
    OBVIOUS
  <1>2. sent \in [Starts -> Pending \cup {None}]
    <2>1. \A r \in due : [pending[r] EXCEPT !.local_sent = TRUE] \in Pending
      BY <1>1, SentPending
    <2>2. QED
      BY <2>1
  <1>3. {Request(r) : r \in due} \subseteq ServerIds
    BY IdTypes DEF Starts
  <1>4. b \in Branches
    <2> HIDE DEF sent, due
    <2>1. QED
      BY <1>2, <1>3, NowType DEF Branches
  <1>5. EndOfIteration(b)
    BY DEF SendLocalThreadStart
  <1>6. local_starts' \in [Starts -> Seq(Copies)]
    <2>1. \A r \in due : Injected(pending[r]) \in Copies
      BY <1>1, InjectedType
    <2>2. \A r \in Starts : local_starts[r] \in Seq(Copies)
      BY DEF TypeOK
    <2>3. \A r \in due : Append(local_starts[r], Injected(pending[r])) \in Seq(Copies)
      BY <2>1, <2>2
    <2>4. QED
      BY <2>2, <2>3 DEF SendLocalThreadStart
  <1> HIDE DEF b
  <1>7. QED
    BY <1>4, <1>5, <1>6, EndOfIterationType

\* Init establishes the types.
LEMMA TypeInit == Init => TypeOK
  <1> SUFFICES ASSUME Init PROVE TypeOK
    OBVIOUS
  <1>1. /\ pending_client_messages \in Seq(Requests)
        /\ client_sent \in Seq(Requests)
        /\ forwarded \in Seq(Requests)
    BY DEF Init
  <1>2. /\ local_starts \in [Starts -> Seq(Copies)]
        /\ inbox \in [Requests -> Seq(Responses)]
        /\ pending_thread_metadata \in [Starts -> Pending \cup {None}]
    BY DEF Init
  <1>3. attempts \in 0..MaxStatusAttempts
    BY LimitsAssumption DEF Init
  <1>4. QED
    BY <1>1, <1>2, <1>3 DEF Init, TypeOK, Phases

\* Failing changes only the session.
LEMMA TypeFail ==
  ASSUME TypeOK, Fail, quiet' \in BOOLEAN
  PROVE  TypeOK'
  BY DEF Fail, TypeOK, registrationVars, initializeVars, forwardVars, peerVars, listVars, clientVars

\* A client message keeps the types.
LEMMA TypeClient ==
  ASSUME TypeOK, quiet' \in BOOLEAN,
         ClientInitialize \/ \E r \in Requests : ClientRequest(r)
  PROVE  TypeOK'
  <1>1. CASE ClientInitialize
    <2> DEFINE b == [Now EXCEPT !.server = @ \cup {InitializeId}, !.remote = @ \cup {HostInitializeId}]
    <2>1. b \in Branches
      BY NowType, IdTypes DEF Branches
    <2>2. EndOfIteration(b)
      BY <1>1 DEF ClientInitialize
    <2> HIDE DEF b
    <2>3. QED
      BY <1>1, <2>1, <2>2, EndOfIterationType
         DEF ClientInitialize, TypeOK, ForwardTypes, listVars, clientVars
  <1>2. ASSUME NEW r \in Requests, ClientRequest(r) PROVE TypeOK'
    <2>1. CASE Fail
      BY <2>1, TypeFail
    <2>2. CASE ~Fail
      <3> DEFINE b == IF Holding THEN Held(r)
                                 ELSE [Now EXCEPT !.direct = <<r>>]
      <3>1. b \in Branches
        <4>1. Append(Now.held, r) \in Seq(Requests) /\ <<r>> \in Seq(Requests)
          BY NowType DEF Branches
        <4>2. Held(r) \in Branches
          <5>1. Now.bytes + Bytes[r] \in Nat
            BY NowType, RequestsAssumption DEF Branches
          <5>2. QED
            BY <4>1, <5>1, NowType DEF Branches, Held
        <4>3. [Now EXCEPT !.direct = <<r>>] \in Branches
          BY <4>1, NowType DEF Branches
        <4>4. QED
          BY <4>2, <4>3
      <3>2. EndOfIteration(b)
        BY <1>2, <2>2 DEF ClientRequest
      <3> HIDE DEF b
      <3>3. /\ client_sent' = Append(client_sent, r)
            /\ pending_thread_list_requests' \subseteq pending_thread_list_requests \cup {r}
            /\ UNCHANGED <<session, registrationVars, local_starts, thread_ids, clientVars>>
        BY <1>2, <2>2 DEF ClientRequest
      <3>4. client_sent' \in Seq(Requests) /\ pending_thread_list_requests' \subseteq Requests
        BY <3>3 DEF TypeOK
      <3>5. QED
        BY <3>1, <3>2, <3>3, <3>4, EndOfIterationType
           DEF TypeOK, ForwardTypes, registrationVars, clientVars
    <2>3. QED
      BY <2>1, <2>2
  <1>3. QED
    BY <1>1, <1>2

\* A message of the registration keeps the types.
LEMMA TypeRegistration ==
  ASSUME TypeOK, quiet' \in BOOLEAN,
         \/ ServerInitialize \/ ServerEnvironmentAdd
         \/ StatusReady \/ StatusNotReady \/ StatusError
  PROVE  TypeOK'
  <1>1. CASE Fail
    BY <1>1, TypeFail
  <1>2. CASE ServerInitialize /\ ~Fail
    <2> DEFINE b == [Now EXCEPT !.local = TRUE, !.server = (@ \ {InitializeId}) \cup {AddId}]
    <2>1. b \in Branches
      BY NowType, IdTypes DEF Branches
    <2>2. EndOfIteration(b)
      BY <1>2 DEF ServerInitialize
    <2> HIDE DEF b
    <2>3. phase' \in Phases
      BY <1>2 DEF ServerInitialize, Phases
    <2>4. QED
      BY <1>2, <2>1, <2>2, <2>3, EndOfIterationType
         DEF ServerInitialize, TypeOK, ForwardTypes, listVars, clientVars
  <1>3. CASE ServerEnvironmentAdd /\ ~Fail
    <2>1. phase' \in Phases /\ attempts' \in 0..MaxStatusAttempts
      BY <1>3, LimitsAssumption DEF ServerEnvironmentAdd, Phases
    <2>2. server_open' \subseteq ServerIds
      BY <1>3, IdTypes DEF ServerEnvironmentAdd, TypeOK
    <2>3. QED
      BY <1>3, <2>1, <2>2
         DEF ServerEnvironmentAdd, TypeOK, initializeVars, forwardVars, listVars, clientVars
  <1>4. CASE StatusReady
    <2> DEFINE b == [Now EXCEPT !.server = @ \ {StatusId}]
               rs == IF initialize_response_sent THEN pending_client_messages ELSE <<>>
    <2>1. b \in Branches
      BY NowType DEF Branches
    <2>2. rs \in Seq(Requests)
      BY DEF TypeOK
    <2>3. Forward(rs, b)
      BY <1>4 DEF StatusReady
    <2> HIDE DEF b, rs
    <2>4. ForwardTypes
      BY <2>1, <2>2, <2>3, ForwardType DEF TypeOK
    <2>5. phase' \in Phases /\ attempts' \in 0..MaxStatusAttempts
          /\ pending_client_messages' \in Seq(Requests) /\ pending_client_bytes' \in Nat
      BY <1>4, LimitsAssumption, BytesWithoutType DEF StatusReady, Phases, TypeOK
    <2>6. QED
      BY <1>4, <2>4, <2>5 DEF StatusReady, TypeOK, ForwardTypes, initializeVars, listVars, clientVars
  <1>5. CASE StatusNotReady /\ ~Fail
    <2>1. attempts' \in 0..MaxStatusAttempts
      BY <1>5, LimitsAssumption DEF StatusNotReady, TypeOK
    <2>2. QED
      BY <1>5, <2>1
         DEF StatusNotReady, TypeOK, initializeVars, forwardVars, peerVars, listVars, clientVars
  <1>6. QED
    BY <1>1, <1>2, <1>3, <1>4, <1>5 DEF StatusError

\* A message with the id of a client request keeps the types.
LEMMA TypeServerMessage ==
  ASSUME TypeOK, quiet' \in BOOLEAN, NEW r \in Requests, ServerMessage(r)
  PROVE  TypeOK'
  <1>1. \A ok, merged \in BOOLEAN, threads \in SUBSET Threads :
          Response(ok, merged, threads) \in Responses
    BY DEF Response, Responses
  <1>2. \A response \in Responses : Deliver(r, response) => inbox' \in [Requests -> Seq(Responses)]
    BY DEF Deliver, TypeOK
  <1>3. \A kind : ServerOpenAfter(r, kind) \subseteq ServerIds
    BY DEF ServerOpenAfter, TypeOK
  <1>4. Listable \subseteq Threads
    BY DEF Listable, Threads
  <1>5. \A kind : [Now EXCEPT !.server = ServerOpenAfter(r, kind)] \in Branches
    BY <1>3, NowType DEF Branches
  <1>6. ASSUME NEW kind \in {"result", "error", "request"}, ServerThreadStart(r, kind), ~Fail
        PROVE  TypeOK'
    <2> DEFINE b == [Now EXCEPT !.pending[r] = None, !.server = ServerOpenAfter(r, kind)]
    <2>1. r \in Starts
      BY <1>6 DEF ServerThreadStart, AwaitsStart
    <2>2. b \in Branches
      BY <1>3, <2>1, NowType DEF Branches
    <2>3. EndOfIteration(b)
      BY <1>6 DEF ServerThreadStart
    <2> HIDE DEF b
    <2>4. inbox' \in [Requests -> Seq(Responses)]
      <3> DEFINE merges == pending_thread_metadata[r].host_response /\ kind # "error"
                 threads == IF kind = "result" THEN {r} ELSE {}
      <3>1. threads \in SUBSET Threads
        BY <2>1 DEF Threads
      <3>2. merges \in BOOLEAN /\ (kind = "result") \in BOOLEAN
        OBVIOUS
      <3>3. Response(kind = "result", merges, threads) \in Responses
        BY <1>1, <3>1, <3>2
      <3>4. UNCHANGED inbox \/ Deliver(r, Response(kind = "result", merges, threads))
        BY <1>6 DEF ServerThreadStart
      <3> HIDE DEF merges, threads
      <3>5. QED
        BY <1>2, <3>3, <3>4 DEF TypeOK
    <2>5. thread_ids' \subseteq Threads
      BY <1>6, <2>1 DEF ServerThreadStart, TypeOK, Threads
    <2>6. UNCHANGED <<session, registrationVars, local_starts, pending_thread_list_requests, client_sent, stray>>
      BY <1>6 DEF ServerThreadStart
    <2>7. QED
      BY <2>2, <2>3, <2>4, <2>5, <2>6, EndOfIterationType DEF TypeOK, ForwardTypes, registrationVars
  <1>7. ASSUME NEW kind \in {"result", "error", "request"}, NEW listed \in SUBSET Listable,
               ServerThreadList(r, kind, listed)
        PROVE  TypeOK'
    <2>1. EndOfIteration([Now EXCEPT !.server = ServerOpenAfter(r, kind)])
      BY <1>7 DEF ServerThreadList
    <2>2. inbox' \in [Requests -> Seq(Responses)]
      <3> DEFINE threads == IF kind = "result" THEN listed \cap thread_ids ELSE {}
      <3>1. threads \in SUBSET Threads
        BY <1>4
      <3>2. (kind = "result") \in BOOLEAN
        OBVIOUS
      <3>3. Response(kind = "result", FALSE, threads) \in Responses
        BY <1>1, <3>1, <3>2
      <3>4. UNCHANGED inbox \/ Deliver(r, Response(kind = "result", FALSE, threads))
        BY <1>7 DEF ServerThreadList
      <3> HIDE DEF threads
      <3>5. QED
        BY <1>2, <3>3, <3>4 DEF TypeOK
    <2>3. pending_thread_list_requests' \subseteq Requests
      BY <1>7 DEF ServerThreadList, TypeOK
    <2>4. UNCHANGED <<session, registrationVars, local_starts, thread_ids, client_sent, stray>>
      BY <1>7 DEF ServerThreadList
    <2>5. QED
      BY <1>5, <2>1, <2>2, <2>3, <2>4, EndOfIterationType DEF TypeOK, ForwardTypes, registrationVars
  <1>8. ASSUME NEW kind \in {"result", "error", "request"}, NEW listed \in SUBSET Listable,
               ServerPassedOn(r, kind, listed)
        PROVE  TypeOK'
    <2>1. EndOfIteration([Now EXCEPT !.server = ServerOpenAfter(r, kind)])
      BY <1>8 DEF ServerPassedOn
    <2>2. inbox' \in [Requests -> Seq(Responses)]
      <3> DEFINE threads == CASE kind = "error" -> {}
                              [] Method[r] = "thread/start" -> {r}
                              [] Method[r] = "thread/list" -> listed
                              [] OTHER -> {}
      <3>1. threads \in SUBSET Threads
        BY <1>4 DEF Threads, Starts
      <3>2. (kind = "result") \in BOOLEAN
        OBVIOUS
      <3>3. Response(kind = "result", FALSE, threads) \in Responses
        BY <1>1, <3>1, <3>2
      <3>4. Deliver(r, Response(kind = "result", FALSE, threads))
        BY <1>8 DEF ServerPassedOn
      <3> HIDE DEF threads
      <3>5. QED
        BY <1>2, <3>3, <3>4
    <2>3. UNCHANGED <<session, registrationVars, local_starts, listVars, client_sent, stray>>
      BY <1>8 DEF ServerPassedOn
    <2>4. QED
      BY <1>5, <2>1, <2>2, <2>3, EndOfIterationType DEF TypeOK, ForwardTypes, registrationVars, listVars
  <1>9. QED
    BY <1>6, <1>7, <1>8, TypeFail DEF ServerMessage

\* The sources that are read: the first of those the host listed.
Taken(sources) == [i \in {j \in DOMAIN sources : j <= MaxSources} |-> sources[i]]

LEMMA TakenType ==
  ASSUME NEW sources \in Lists(MaxListed)
  PROVE  /\ Taken(sources) \in Lists(MaxSources)
         /\ DOMAIN Taken(sources) \subseteq 1..MaxSources
         /\ Taken(sources) = <<>> <=> DOMAIN Taken(sources) = {}
  <1>1. PICK n \in 0..MaxListed : sources \in [1..n -> Paths]
    BY DEF Lists
  <1> DEFINE m == IF n <= MaxSources THEN n ELSE MaxSources
  <1>2. m \in 0..MaxSources /\ {j \in DOMAIN sources : j <= MaxSources} = 1..m
    BY <1>1, LimitsAssumption
  <1> DEFINE taken == Taken(sources)
  <1>3. taken \in [1..m -> Paths]
    BY <1>1, <1>2 DEF Taken
  <1> HIDE DEF m, taken
  <1>4. taken \in Lists(MaxSources)
    BY <1>2, <1>3 DEF Lists
  <1>5. DOMAIN taken = 1..m /\ 1..m \subseteq 1..MaxSources
    BY <1>2, <1>3, LimitsAssumption
  <1>6. taken = <<>> <=> DOMAIN taken = {}
    <2>1. taken = [i \in DOMAIN taken |-> taken[i]]
      BY <1>3
    <2>2. <<>> = [i \in {} |-> taken[i]]
      OBVIOUS
    <2>3. DOMAIN <<>> = {}
      OBVIOUS
    <2>4. QED
      BY <2>1, <2>2, <2>3
  <1>7. QED
    BY <1>4, <1>5, <1>6 DEF taken

\* A line from the host keeps the types.
LEMMA TypeHostLine ==
  ASSUME TypeOK, quiet' \in BOOLEAN, HostLine
  PROVE  TypeOK'
  <1>1. CASE HostInitialize /\ ~Fail
    <2> DEFINE b == [Now EXCEPT !.host = TRUE, !.remote = Answered(HostInitializeId)]
    <2>1. b \in Branches
      BY NowType DEF Branches, Answered, TypeOK
    <2>2. EndOfIteration(b)
      BY <1>1 DEF HostInitialize
    <2> HIDE DEF b
    <2>3. QED
      BY <1>1, <2>1, <2>2, EndOfIterationType
         DEF HostInitialize, TypeOK, ForwardTypes, registrationVars, listVars, clientVars
  <1>2. ASSUME NEW rs \in SUBSET Starts, NEW pending \in [Starts -> Pending \cup {None}],
               NEW remote \in SUBSET HostIds, \A r \in rs : pending[r] # None,
               SendLocalThreadStart(rs, pending, remote), UNCHANGED hostFrame
        PROVE  TypeOK'
    BY <1>2, SendLocalType DEF TypeOK, ForwardTypes, hostFrame, registrationVars, listVars, clientVars
  <1>3. ASSUME NEW r \in Starts, HostMetadataError(r) PROVE TypeOK'
    <2>1. {r} \in SUBSET Starts /\ \A x \in {r} : pending_thread_metadata[x] # None
      BY <1>3 DEF HostMetadataError
    <2>2. pending_thread_metadata \in [Starts -> Pending \cup {None}] /\ Answered(Metadata(r)) \in SUBSET HostIds
      BY DEF TypeOK, Answered
    <2>3. SendLocalThreadStart({r}, pending_thread_metadata, Answered(Metadata(r))) /\ UNCHANGED hostFrame
      BY <1>3 DEF HostMetadataError
    <2>4. QED
      BY <1>2, <2>1, <2>2, <2>3
  <1>4. ASSUME NEW r \in Starts, NEW sources \in Lists(MaxListed), HostMetadata(r, sources)
        PROVE  TypeOK'
    <2> DEFINE entry == pending_thread_metadata[r]
               answered == [entry EXCEPT !.host_response = TRUE]
    <2>1. entry \in Pending
      BY <1>4 DEF HostMetadata, TypeOK
    <2>2. answered \in Pending
      BY <2>1 DEF Pending
    <2>3. Answered(Metadata(r)) \subseteq HostIds
      BY DEF Answered, TypeOK
    <2>4. CASE EndOfIteration([Now EXCEPT !.pending[r] = answered, !.remote = Answered(Metadata(r))])
               /\ UNCHANGED local_starts
      <3>1. [Now EXCEPT !.pending[r] = answered, !.remote = Answered(Metadata(r))] \in Branches
        BY <2>2, <2>3, NowType DEF Branches
      <3>2. UNCHANGED hostFrame
        BY <1>4 DEF HostMetadata
      <3>3. QED
        BY <2>4, <3>1, <3>2, EndOfIterationType
           DEF TypeOK, ForwardTypes, hostFrame, registrationVars, listVars, clientVars
    <2>5. ASSUME SendLocalThreadStart(
                   IF Taken(sources) = <<>> THEN {r} ELSE {},
                   [pending_thread_metadata EXCEPT
                      ![r] = [answered EXCEPT !.instruction_paths = Taken(sources),
                                              !.pending_instruction_reads = DOMAIN Taken(sources)]],
                   Answered(Metadata(r)) \cup {Read(r, i) : i \in DOMAIN Taken(sources)})
          PROVE  TypeOK'
      <3> DEFINE read == [answered EXCEPT !.instruction_paths = Taken(sources),
                                          !.pending_instruction_reads = DOMAIN Taken(sources)]
                 rs == IF Taken(sources) = <<>> THEN {r} ELSE {}
                 pending == [pending_thread_metadata EXCEPT ![r] = read]
      <3>1. read \in Pending
        BY <2>2, TakenType DEF Pending
      <3>2. pending \in [Starts -> Pending \cup {None}]
        BY <3>1 DEF TypeOK
      <3>3. rs \in SUBSET Starts /\ \A x \in rs : pending[x] # None
        BY <3>1, NoneAssumption DEF TypeOK
      <3>4. Answered(Metadata(r)) \cup {Read(r, i) : i \in DOMAIN Taken(sources)} \in SUBSET HostIds
        BY <2>3, TakenType, IdTypes
      <3>5. UNCHANGED hostFrame
        BY <1>4 DEF HostMetadata
      <3> HIDE DEF read, rs, pending
      <3>6. SendLocalThreadStart(rs, pending, Answered(Metadata(r)) \cup {Read(r, i) : i \in DOMAIN Taken(sources)})
        BY <2>5 DEF read, rs, pending
      <3>7. QED
        BY <1>2, <3>2, <3>3, <3>4, <3>5, <3>6
    <2>6. QED
      BY <1>4, <2>4, <2>5 DEF HostMetadata, Taken
  <1>5. ASSUME NEW r \in Starts, NEW i \in 1..MaxSources, AwaitsRead(r, i),
               NEW entry \in Pending,
               SendLocalThreadStart(IF entry.pending_instruction_reads = {} THEN {r} ELSE {},
                                    [pending_thread_metadata EXCEPT ![r] = entry],
                                    Answered(Read(r, i))),
               UNCHANGED hostFrame
        PROVE  TypeOK'
    <2> DEFINE rs == IF entry.pending_instruction_reads = {} THEN {r} ELSE {}
               pending == [pending_thread_metadata EXCEPT ![r] = entry]
    <2>1. rs \in SUBSET Starts /\ \A x \in rs : pending[x] # None
      BY NoneAssumption DEF TypeOK
    <2>2. pending \in [Starts -> Pending \cup {None}]
      BY DEF TypeOK
    <2>3. Answered(Read(r, i)) \in SUBSET HostIds
      BY DEF Answered, TypeOK
    <2> HIDE DEF rs
    <2>4. SendLocalThreadStart(rs, pending, Answered(Read(r, i)))
      BY <1>5 DEF rs
    <2> HIDE DEF pending
    <2>5. QED
      BY <1>2, <1>5, <2>1, <2>2, <2>3, <2>4
  <1>6. ASSUME NEW r \in Starts, NEW i \in 1..MaxSources, HostReadSkipped(r, i) PROVE TypeOK'
    <2> DEFINE entry == [pending_thread_metadata[r] EXCEPT !.pending_instruction_reads = @ \ {i}]
    <2>1. pending_thread_metadata[r] \in Pending
      BY <1>6 DEF HostReadSkipped, AwaitsRead, TypeOK
    <2>2. entry \in Pending
      BY <2>1 DEF Pending
    <2>3. QED
      BY <1>5, <1>6, <2>2 DEF HostReadSkipped
  <1>7. ASSUME NEW r \in Starts, NEW i \in 1..MaxSources, HostReadFile(r, i), ~Fail PROVE TypeOK'
    <2> DEFINE p == pending_thread_metadata[r].instruction_paths[i]
               entry == [pending_thread_metadata[r] EXCEPT !.pending_instruction_reads = @ \ {i},
                                                          !.instruction_contents = @ \cup {p}]
    <2>1. pending_thread_metadata[r] \in Pending /\ AwaitsRead(r, i)
      BY <1>7 DEF HostReadFile, AwaitsRead, TypeOK
    <2>2. entry \in Pending
      <3>1. p \in Paths
        BY <2>1, AwaitedSource DEF AwaitsRead
      <3> HIDE DEF p
      <3>2. QED
        BY <2>1, <3>1 DEF Pending
    <2>3. QED
      BY <1>5, <1>7, <2>2 DEF HostReadFile
  <1>8. ASSUME NEW id \in host_open, HostReply(id) PROVE TypeOK'
    <2> DEFINE b == [Now EXCEPT !.remote = Answered(id)]
    <2>1. b \in Branches
      BY NowType DEF Branches, Answered, TypeOK
    <2>2. EndOfIteration(b)
      BY <1>8 DEF HostReply
    <2> HIDE DEF b
    <2>3. inbox' \in [Requests -> Seq(Responses)]
      <3>1. PICK ok \in BOOLEAN :
              inbox' = [r \in Requests |-> IF id = Request(r) /\ host_message_allowed(id)
                                           THEN Append(inbox[r], Response(ok, FALSE, {}))
                                           ELSE inbox[r]]
        BY <1>8 DEF HostReply
      <3> DEFINE response == Response(ok, FALSE, {})
      <3>2. response \in Responses
        BY DEF Response, Responses
      <3> HIDE DEF response
      <3>3. \A r \in Requests : inbox[r] \in Seq(Responses) /\ Append(inbox[r], response) \in Seq(Responses)
        BY <3>2 DEF TypeOK
      <3>4. inbox' = [r \in Requests |-> IF id = Request(r) /\ host_message_allowed(id)
                                         THEN Append(inbox[r], response)
                                         ELSE inbox[r]]
        BY <3>1 DEF response
      <3>5. QED
        BY <3>3, <3>4
    <2>4. stray' \subseteq HostIds
      BY <1>8 DEF HostReply, TypeOK, HostIds
    <2>5. UNCHANGED <<session, registrationVars, local_starts, listVars, client_sent>>
      BY <1>8 DEF HostReply
    <2>6. QED
      BY <2>1, <2>2, <2>3, <2>4, <2>5, EndOfIterationType DEF TypeOK, ForwardTypes, registrationVars, listVars
  <1>9. QED
    BY <1>1, <1>3, <1>4, <1>6, <1>7, <1>8, TypeFail DEF HostLine

\* The passage of time and the end of the session keep the types.
LEMMA TypeTime ==
  ASSUME TypeOK, quiet' \in BOOLEAN, (\E r \in Starts : Expire(r)) \/ Timer \/ Disconnect
  PROVE  TypeOK'
  <1>1. ASSUME NEW r \in Starts, Expire(r) PROVE TypeOK'
    <2>1. pending_thread_metadata[r] \in Pending
      BY <1>1 DEF Expire, Waiting, TypeOK
    <2>2. [pending_thread_metadata[r] EXCEPT !.expired = TRUE] \in Pending
      BY <2>1 DEF Pending
    <2>3. pending_thread_metadata' \in [Starts -> Pending \cup {None}]
      BY <1>1, <2>2 DEF Expire, TypeOK
    <2>4. QED
      BY <1>1, <2>3
         DEF Expire, TypeOK, registrationVars, initializeVars, forwardVars, listVars, clientVars
  <1>2. CASE Timer
    <2> DEFINE expired == {r \in Waiting : pending_thread_metadata[r].expired}
    <2>1. expired \in SUBSET Starts /\ \A r \in expired : pending_thread_metadata[r] # None
      BY DEF Waiting
    <2>2. SendLocalThreadStart(expired, pending_thread_metadata, host_open) /\ UNCHANGED hostFrame
      BY <1>2 DEF Timer
    <2> HIDE DEF expired
    <2>3. QED
      BY <2>1, <2>2, SendLocalType
         DEF TypeOK, ForwardTypes, hostFrame, registrationVars, listVars, clientVars
  <1>3. CASE Disconnect
    BY <1>3
       DEF Disconnect, TypeOK, registrationVars, initializeVars, forwardVars, peerVars, listVars, clientVars
  <1>4. QED
    BY <1>1, <1>2, <1>3

\* Every step keeps the types.
LEMMA TypeNext == TypeOK /\ [Next]_vars => TypeOK'
  <1> SUFFICES ASSUME TypeOK, [Next]_vars PROVE TypeOK'
    OBVIOUS
  <1>1. CASE Next
    <2>1. quiet' \in BOOLEAN
      BY <1>1 DEF Next, Expire, Pause, Chatter, TypeOK
    <2>2. CASE UNCHANGED relayVars
      BY <2>1, <2>2 DEF TypeOK, relayVars,
                        registrationVars, initializeVars, forwardVars, peerVars, listVars, clientVars
    <2>3. CASE Iteration \/ \E r \in Starts : Expire(r)
      BY <2>1, <2>3, TypeClient, TypeRegistration, TypeServerMessage, TypeHostLine, TypeTime DEF Iteration
    <2>4. QED
      BY <1>1, <2>2, <2>3 DEF Next, Pause, Chatter
  <1>2. CASE UNCHANGED vars
    BY <1>2 DEF TypeOK, vars, relayVars, registrationVars, initializeVars, forwardVars, peerVars, listVars, clientVars
  <1>3. QED
    BY <1>1, <1>2

\* The relay's state always has its types: in particular a Polling session
\* never counts past the limit on status requests.
THEOREM RelayTypeOK == Spec => []TypeOK
  BY TypeInit, TypeNext, PTL DEF Spec
-----------------------------------------------------------------------------
(* The inductive invariant *)

\* Where the registration and the two initialize exchanges stand.
RegistrationInv ==
  /\ InitializeId \in server_open => initialize_requested /\ phase = "WaitingForInitialize"
  /\ AddId \in server_open => phase = "Registering"
  /\ StatusId \in server_open => phase = "Polling"
  /\ HostInitializeId \in host_open => initialize_requested
  /\ \/ phase # "WaitingForInitialize"
     \/ local_initialize_response
     \/ host_initialize_response
     \/ initialize_response_sent
     => initialize_requested
  /\ local_initialize_response /\ host_initialize_response => initialize_response_sent

\* The queue continues what was forwarded, is counted right and within its
\* limit, is empty in a usable session, and no request is in the two twice.
QueueInv ==
  /\ HeldInOrder
  /\ QueueBounded
  /\ ~Holding => pending_client_messages = <<>>
  /\ \A i, j \in DOMAIN client_sent : client_sent[i] = client_sent[j] => i = j

\* A thread/start has an entry, and a copy sent, only once it was forwarded; an
\* entry that waits has no copy.
StartInv ==
  \A r \in Starts :
    /\ Len(local_starts[r]) <= 1
    /\ r \notin Range(forwarded) => pending_thread_metadata[r] = None /\ local_starts[r] = <<>>
    /\ pending_thread_metadata[r] # None /\ ~pending_thread_metadata[r].local_sent => local_starts[r] = <<>>

\* What an App Server still owes a reply to was forwarded, to that server,
\* and has no response yet; neither has what waits or was not forwarded.
AnswerInv ==
  \A r \in Requests :
    /\ Request(r) \in server_open => inbox[r] = <<>> /\ r \in Range(forwarded) /\ RequestRoute(r) # "Host"
    /\ Request(r) \in host_open => inbox[r] = <<>> /\ r \in Range(forwarded) /\ RequestRoute(r) = "Host"
    /\ r \notin Range(forwarded) => inbox[r] = <<>>
    /\ r \in Starts =>
         (pending_thread_metadata[r] # None /\ ~pending_thread_metadata[r].local_sent
          => inbox[r] = <<>> /\ Request(r) \notin server_open)

RelayInv == TypeOK /\ RegistrationInv /\ QueueInv /\ StartInv /\ AnswerInv /\ stray = {}

-----------------------------------------------------------------------------
(* Ids and sequences *)

\* The ids the bridge and the client use never coincide.
LEMMA IdsDistinct ==
  /\ \A r : Request(r) \notin {InitializeId, AddId, StatusId}
  /\ \A r, s : Request(r) = Request(s) => r = s
  /\ \A r, s : Request(r) # Metadata(s)
  /\ \A r, s, i : Request(r) # Read(s, i)
  /\ \A r : Request(r) # HostInitializeId /\ Metadata(r) # HostInitializeId
  /\ \A r, i : Read(r, i) # HostInitializeId
  /\ InitializeId # AddId /\ InitializeId # StatusId /\ AddId # StatusId
  BY DEF Request, Metadata, Read, InitializeId, AddId, StatusId, HostInitializeId

\* The filter tells the bridge's own ids from the client's by how they begin.
LEMMA PassedIds ==
  /\ \A id \in InternalIds : ~host_message_allowed(id)
  /\ \A r : host_message_allowed(Request(r)) /\ Request(r) \notin InternalIds
  <1>1. \A r : ~host_message_allowed(Metadata(r))
    BY DEF host_message_allowed, Metadata
  <1>2. \A r, i : ~host_message_allowed(Read(r, i))
    BY DEF host_message_allowed, Read
  <1>3. ~host_message_allowed(HostInitializeId)
    BY DEF host_message_allowed
  <1>4. \A r : host_message_allowed(Request(r))
    BY IdsDistinct DEF host_message_allowed, Request
  <1>5. QED
    BY <1>1, <1>2, <1>3, <1>4, IdsDistinct DEF InternalIds

\* An empty queue has no bytes.
LEMMA NothingHeld ==
  /\ HeldBytes(Range(<<>>)) = 0
  /\ \A bytes \in Nat : BytesWithout(bytes, <<>>) = bytes
  <1>1. Range(<<>>) = {}
    BY DEF Range
  <1>2. HeldBytes({}) = 0
    BY FS_EmptySet, TotalStep, RelaySums
  <1>3. HeldBytes(Range(<<>>)) = 0
    BY <1>1, <1>2
  <1>4. ASSUME NEW bytes \in Nat PROVE BytesWithout(bytes, <<>>) = bytes
    BY <1>3 DEF BytesWithout
  <1>5. QED
    BY <1>3, <1>4

\* A request that joins the queue adds its bytes.
LEMMA OneMoreHeld ==
  ASSUME NEW rs \in Seq(Requests), NEW r \in Requests, r \notin Range(rs)
  PROVE  HeldBytes(Range(Append(rs, r))) = HeldBytes(Range(rs)) + Bytes[r]
  <1>1. Range(Append(rs, r)) = Range(rs) \cup {r}
    <2>1. /\ Append(rs, r) \in Seq(Requests) /\ Len(Append(rs, r)) = Len(rs) + 1 /\ Len(rs) \in Nat
          /\ Append(rs, r)[Len(rs) + 1] = r
          /\ \A i \in 1..Len(rs) : Append(rs, r)[i] = rs[i]
      OBVIOUS
    <2>2. /\ Range(rs) = {rs[i] : i \in 1..Len(rs)}
          /\ Range(Append(rs, r)) = {Append(rs, r)[i] : i \in 1..Len(rs) + 1}
      BY <2>1, RangeEquality
    <2>3. 1..Len(rs) + 1 = (1..Len(rs)) \cup {Len(rs) + 1}
      BY <2>1
    <2> HIDE DEF Range
    <2>4. QED
      BY <2>1, <2>2, <2>3
  <1> DEFINE before == Range(rs)
             after == Range(Append(rs, r))
  <1>2. /\ IsFiniteSet(after) /\ after \in SUBSET Requests /\ HeldBytes(before) \in Nat
        /\ Append(rs, r) \in Seq(Requests)
    <2>1. Append(rs, r) \in Seq(Requests)
      OBVIOUS
    <2>2. QED
      BY <2>1, HeldBytesType
  <1>3. r \in after /\ after \ {r} = before
    BY <1>1
  <1> HIDE DEF before, after
  <1>4. SumOf(Bytes, after) = Bytes[r] + SumOf(Bytes, after \ {r})
    BY <1>2, <1>3, TotalWithout, RequestsAssumption
  <1>5. Bytes[r] \in Nat
    BY RequestsAssumption
  <1>6. HeldBytes(after) = HeldBytes(before) + Bytes[r]
    <2>1. HeldBytes(after) = SumOf(Bytes, after) /\ HeldBytes(before) = SumOf(Bytes, before)
      BY RelaySums
    <2>2. SumOf(Bytes, after \ {r}) = SumOf(Bytes, before)
      BY <1>3
    <2>3. HeldBytes(after) = Bytes[r] + HeldBytes(before)
      BY <1>4, <2>1, <2>2, Zenon
    <2>4. HeldBytes(before) \in Nat
      BY <1>2
    <2>5. QED
      BY <1>5, <2>3, <2>4
  <1>7. QED
    BY <1>6 DEF before, after

\* In a sequence without repetitions the second part repeats nothing of the first.
LEMMA NoRepetition ==
  ASSUME NEW S, NEW s \in Seq(S), NEW t \in Seq(S),
         \A i, j \in DOMAIN (s \o t) : (s \o t)[i] = (s \o t)[j] => i = j
  PROVE  \A r \in Range(t) : r \notin Range(s)
  <1> SUFFICES ASSUME NEW r \in Range(t), r \in Range(s) PROVE FALSE
    OBVIOUS
  <1>1. PICK i \in DOMAIN s : s[i] = r
    BY DEF Range
  <1>2. PICK j \in DOMAIN t : t[j] = r
    BY DEF Range
  <1>3. /\ i \in DOMAIN (s \o t) /\ (s \o t)[i] = r
        /\ Len(s) + j \in DOMAIN (s \o t) /\ (s \o t)[Len(s) + j] = r
    BY <1>1, <1>2
  <1>4. i = Len(s) + j
    BY <1>3
  <1>5. QED
    BY <1>4

\* Appending to the second part appends to the whole.
LEMMA AppendLast ==
  ASSUME NEW s \in Seq(Requests), NEW t \in Seq(Requests), NEW e \in Requests
  PROVE  Append(s \o t, e) = s \o Append(t, e)
  <1>1. Append(s \o t, e) \in Seq(Requests) /\ s \o Append(t, e) \in Seq(Requests)
    OBVIOUS
  <1>2. /\ Len(Append(s \o t, e)) = Len(s) + Len(t) + 1
        /\ Len(s \o Append(t, e)) = Len(s) + Len(t) + 1
    OBVIOUS
  <1>3. \A i \in 1..(Len(s) + Len(t) + 1) : Append(s \o t, e)[i] = (s \o Append(t, e))[i]
    OBVIOUS
  <1>4. QED
    BY <1>1, <1>2, <1>3, SeqEqual

-----------------------------------------------------------------------------
(* Steps that forward nothing *)

LEMMA ForwardNothing ==
  ASSUME forwarded \in Seq(Requests), NEW b \in Branches, Forward(<<>>, b)
  PROVE  /\ forwarded' = forwarded
         /\ server_open' = b.server
         /\ host_open' = b.remote
         /\ pending_thread_metadata' = b.pending
  <1>1. Range(<<>>) = {}
    BY DEF Range
  <1>2. \A route : Routed(Range(<<>>), route) = {}
    BY <1>1 DEF Routed
  <1>3. b.pending \in [Starts -> Pending \cup {None}]
    BY DEF Branches
  <1>4. server_open' = b.server
    BY <1>2 DEF Forward
  <1>5. host_open' = b.remote
    BY <1>2 DEF Forward
  <1>6. pending_thread_metadata' = b.pending
    BY <1>1, <1>3 DEF Forward
  <1>7. forwarded' = forwarded
    BY DEF Forward
  <1>8. QED
    BY <1>4, <1>5, <1>6, <1>7

\* A branch that adds nothing to the queue and moves neither the registration
\* nor the initialize exchanges.
Quiet(b) ==
  /\ b \in Branches
  /\ b.direct = <<>>
  /\ b.held = pending_client_messages
  /\ b.bytes = pending_client_bytes
  /\ b.ready = (phase = "Ready")
  /\ b.local = local_initialize_response
  /\ b.host = host_initialize_response

\* After it, nothing is merged and nothing is left to flush.
LEMMA QuietIteration ==
  ASSUME RelayInv, NEW b, Quiet(b), EndOfIteration(b)
  PROVE  /\ UNCHANGED initializeVars
         /\ UNCHANGED forwardVars
         /\ server_open' = b.server
         /\ host_open' = b.remote
         /\ pending_thread_metadata' = b.pending
  <1> DEFINE merge == ~initialize_response_sent /\ b.local /\ b.host
             flush == b.ready /\ (initialize_response_sent \/ merge)
  <1>1. ~merge
    BY DEF RelayInv, RegistrationInv, Quiet
  <1>2. flush => pending_client_messages = <<>>
    BY <1>1 DEF RelayInv, QueueInv, Holding, Quiet
  <1>3. UNCHANGED initializeVars
    BY <1>1 DEF EndOfIteration, Quiet, Branches, RelayInv, TypeOK, initializeVars
  <1>4. (IF flush THEN b.direct \o b.held ELSE b.direct) = <<>>
    BY <1>2 DEF Quiet
  <1>5. pending_client_messages' = pending_client_messages /\ pending_client_bytes' = pending_client_bytes
    BY <1>2, NothingHeld DEF EndOfIteration, Quiet, RelayInv, TypeOK
  <1>6. Forward(<<>>, b)
    BY <1>4 DEF EndOfIteration
  <1>7. QED
    BY <1>3, <1>5, <1>6, ForwardNothing DEF Quiet, RelayInv, TypeOK, forwardVars

\* What such a step keeps of the invariant whatever it does to the peers.
LEMMA QuietKeeps ==
  ASSUME RelayInv,
         UNCHANGED <<initialize_requested, phase, initializeVars, forwardVars, client_sent>>,
         \A id \in {InitializeId, AddId, StatusId} : id \in server_open' => id \in server_open,
         HostInitializeId \in host_open' => HostInitializeId \in host_open
  PROVE  RegistrationInv' /\ QueueInv'
  <1>1. RegistrationInv'
    BY DEF RelayInv, RegistrationInv, initializeVars
  <1>2. QueueInv'
    BY DEF RelayInv, QueueInv, HeldInOrder, QueueBounded, Holding, initializeVars, forwardVars
  <1>3. QED
    BY <1>1, <1>2

-----------------------------------------------------------------------------
(* Steps that forward *)

\* Forwarding requests that were not forwarded before keeps the invariants on
\* starts and answers; b is what the branch leaves, with no new copies,
\* entries or obligations to the client.
LEMMA ForwardKeeps ==
  ASSUME RelayInv, NEW rs \in Seq(Requests), NEW b \in Branches,
         \A r \in Range(rs) : r \notin Range(forwarded),
         Forward(rs, b), UNCHANGED <<inbox, local_starts>>,
         b.pending = pending_thread_metadata,
         \A r \in Requests : Request(r) \in b.server => Request(r) \in server_open,
         \A r \in Requests : Request(r) \in b.remote => Request(r) \in host_open
  PROVE  StartInv' /\ AnswerInv'
  <1>1. Range(forwarded') = Range(forwarded) \cup Range(rs)
    BY RangeConcatenation DEF Forward, RelayInv, TypeOK
  <1>2. Range(rs) \subseteq Requests
    BY RangeOfSeq
  <1>3. \A r \in Starts :
          pending_thread_metadata'[r] = IF r \in Range(rs) THEN NewPending ELSE pending_thread_metadata[r]
    BY DEF Forward
  <1>4. StartInv'
    <2>1. SUFFICES ASSUME NEW r \in Starts
                   PROVE  /\ Len(local_starts'[r]) <= 1
                          /\ r \notin Range(forwarded') => pending_thread_metadata'[r] = None /\ local_starts'[r] = <<>>
                          /\ pending_thread_metadata'[r] # None /\ ~pending_thread_metadata'[r].local_sent
                             => local_starts'[r] = <<>>
      BY DEF StartInv
    <2>2. CASE r \in Range(rs)
      BY <1>1, <2>2 DEF RelayInv, StartInv
    <2>3. CASE r \notin Range(rs)
      BY <1>1, <1>3, <2>3 DEF RelayInv, StartInv
    <2>4. QED
      BY <2>2, <2>3
  <1>5. ASSUME NEW r \in Requests, Request(r) \in server_open'
        PROVE  inbox'[r] = <<>> /\ r \in Range(forwarded') /\ RequestRoute(r) # "Host"
    <2>1. Request(r) \in b.server \/ r \in Routed(Range(rs), "Local")
      BY <1>5, IdsDistinct DEF Forward
    <2>2. CASE Request(r) \in server_open
      BY <1>1, <2>2 DEF RelayInv, AnswerInv
    <2>3. CASE r \in Routed(Range(rs), "Local")
      BY <1>1, <2>3 DEF RelayInv, AnswerInv, Routed
    <2>4. QED
      BY <2>1, <2>2, <2>3
  <1>6. ASSUME NEW r \in Requests, Request(r) \in host_open'
        PROVE  inbox'[r] = <<>> /\ r \in Range(forwarded') /\ RequestRoute(r) = "Host"
    <2>1. Request(r) \in b.remote \/ r \in Routed(Range(rs), "Host")
      BY <1>6, IdsDistinct DEF Forward
    <2>2. CASE Request(r) \in host_open
      BY <1>1, <2>2 DEF RelayInv, AnswerInv
    <2>3. CASE r \in Routed(Range(rs), "Host")
      BY <1>1, <2>3 DEF RelayInv, AnswerInv, Routed
    <2>4. QED
      BY <2>1, <2>2, <2>3
  <1>7. \A r \in Requests : r \notin Range(forwarded') => inbox'[r] = <<>>
    BY <1>1 DEF RelayInv, AnswerInv
  <1>8. ASSUME NEW r \in Requests, r \in Starts,
               pending_thread_metadata'[r] # None, ~pending_thread_metadata'[r].local_sent
        PROVE  inbox'[r] = <<>> /\ Request(r) \notin server_open'
    <2> r \notin Routed(Range(rs), "Local")
      BY <1>8 DEF Routed, RequestRoute, Starts
    <2> Request(r) \in server_open' => Request(r) \in server_open
      BY IdsDistinct DEF Forward
    <2>1. CASE r \in Range(rs)
      BY <2>1 DEF RelayInv, AnswerInv
    <2>2. CASE r \notin Range(rs)
      BY <1>3, <1>8, <2>2 DEF RelayInv, AnswerInv
    <2>3. QED
      BY <2>1, <2>2
  <1>9. AnswerInv'
    BY <1>5, <1>6, <1>7, <1>8 DEF AnswerInv
  <1>10. QED
    BY <1>4, <1>9

\* Letting the queue through, or not, keeps the order and repeats nothing.
LEMMA FlushKeeps ==
  ASSUME RelayInv, NEW flush \in BOOLEAN, NEW b \in Branches,
         UNCHANGED client_sent,
         pending_client_messages' = IF flush THEN <<>> ELSE pending_client_messages,
         pending_client_bytes' = IF flush THEN BytesWithout(pending_client_bytes, pending_client_messages)
                                          ELSE pending_client_bytes,
         Forward(IF flush THEN pending_client_messages ELSE <<>>, b)
  PROVE  /\ HeldInOrder' /\ QueueBounded'
         /\ (IF flush THEN pending_client_messages ELSE <<>>) \in Seq(Requests)
         /\ \A r \in Range(IF flush THEN pending_client_messages ELSE <<>>) : r \notin Range(forwarded)
  <1>1. pending_client_messages \in Seq(Requests) /\ forwarded \in Seq(Requests)
    BY DEF RelayInv, TypeOK
  <1>2. client_sent = forwarded \o pending_client_messages
    BY DEF RelayInv, QueueInv, HeldInOrder
  <1>3. HeldInOrder'
    BY <1>1, <1>2 DEF HeldInOrder, Forward
  <1>4. \A r \in Range(pending_client_messages) : r \notin Range(forwarded)
    BY <1>1, <1>2, NoRepetition DEF RelayInv, QueueInv
  <1>5. Range(<<>>) = {}
    BY DEF Range
  <1>6. QueueBounded'
    <2>1. QueueBounded /\ HeldBytes(Range(pending_client_messages)) \in Nat
      BY <1>1, HeldBytesType DEF RelayInv, QueueInv
    <2>2. BytesWithout(pending_client_bytes, pending_client_messages) = 0
      BY <2>1 DEF QueueBounded, BytesWithout
    <2>3. QED
      BY <2>1, <2>2, NothingHeld, LimitsAssumption DEF QueueBounded
  <1>7. QED
    BY <1>1, <1>3, <1>4, <1>5, <1>6

\* A copy of each waiting thread/start of rs is sent at most, and only the
\* entries' progress and the host's obligations to the bridge change else.
LEMMA SendLocalKeeps ==
  ASSUME RelayInv, NEW rs \in SUBSET Starts,
         NEW pending \in [Starts -> Pending \cup {None}], NEW remote \in SUBSET HostIds,
         \A r \in rs : pending[r] # None,
         \A r \in Starts : /\ pending[r] = None <=> pending_thread_metadata[r] = None
                           /\ pending[r] # None => pending[r].local_sent = pending_thread_metadata[r].local_sent,
         \A r \in Requests : Request(r) \in remote => Request(r) \in host_open,
         HostInitializeId \in remote => HostInitializeId \in host_open,
         SendLocalThreadStart(rs, pending, remote), UNCHANGED hostFrame
  PROVE  /\ RegistrationInv' /\ QueueInv' /\ StartInv' /\ AnswerInv'
         /\ UNCHANGED <<initializeVars, forwardVars>>
  <1> DEFINE due == {r \in rs : ~pending[r].local_sent}
             sent == [r \in Starts |-> IF r \in due THEN [pending[r] EXCEPT !.local_sent = TRUE]
                                                    ELSE pending[r]]
             b == [Now EXCEPT !.pending = sent,
                              !.server = @ \cup {Request(r) : r \in due},
                              !.remote = remote]
  <1>1. TypeOK
    BY DEF RelayInv
  <1>2. \A r \in due : pending[r] \in Pending
    OBVIOUS
  <1>3. sent \in [Starts -> Pending \cup {None}]
    <2>1. \A r \in due : [pending[r] EXCEPT !.local_sent = TRUE] \in Pending
      BY <1>2, SentPending
    <2>2. QED
      BY <2>1
  <1>4. {Request(r) : r \in due} \subseteq ServerIds
    BY IdTypes DEF Starts
  <1>5. Quiet(b) /\ b.pending = sent /\ b.server = server_open \cup {Request(r) : r \in due} /\ b.remote = remote
    <2> HIDE DEF sent, due
    <2>1. b \in Branches
      BY <1>1, <1>3, <1>4, NowType DEF Branches
    <2>2. QED
      BY <2>1 DEF Quiet, Now
  <1>6. EndOfIteration(b)
    BY DEF SendLocalThreadStart
  <1>7. /\ UNCHANGED initializeVars /\ UNCHANGED forwardVars
        /\ server_open' = server_open \cup {Request(r) : r \in due}
        /\ host_open' = remote
        /\ pending_thread_metadata' = sent
    <2> HIDE DEF b
    <2>1. QED
      BY <1>5, <1>6, QuietIteration
  <1>8. UNCHANGED <<session, initialize_requested, phase, inbox, client_sent>>
    BY DEF hostFrame, registrationVars, clientVars
  <1>9. RegistrationInv' /\ QueueInv'
    BY <1>7, <1>8, QuietKeeps, IdsDistinct
  <1>10. \A r \in Starts :
           /\ r \in due => /\ pending_thread_metadata[r] # None /\ ~pending_thread_metadata[r].local_sent
                           /\ sent[r] # None /\ sent[r].local_sent
                           /\ Len(local_starts'[r]) = Len(local_starts[r]) + 1
           /\ r \notin due => /\ sent[r] = pending[r]
                              /\ local_starts'[r] = local_starts[r]
    <2>1. ASSUME NEW r \in Starts, r \in due
          PROVE  /\ pending_thread_metadata[r] # None /\ ~pending_thread_metadata[r].local_sent
                 /\ sent[r] # None /\ sent[r].local_sent
                 /\ Len(local_starts'[r]) = Len(local_starts[r]) + 1
      <3>1. sent[r] \in Pending /\ sent[r].local_sent
        <4>1. sent[r] = [pending[r] EXCEPT !.local_sent = TRUE]
          BY <2>1
        <4>2. QED
          BY <1>2, <2>1, <4>1, SentPending
      <3>2. local_starts'[r] =
              Append(local_starts[r], Injected(pending[r]))
        BY <2>1 DEF SendLocalThreadStart
      <3>3. local_starts[r] \in Seq(Copies)
        BY <1>1 DEF TypeOK
      <3>4. Injected(pending[r]) \in Copies
        BY <1>2, <2>1, InjectedType
      <3>5. Len(local_starts'[r]) = Len(local_starts[r]) + 1
        BY <3>2, <3>3, <3>4
      <3>6. QED
        BY <2>1, <3>1, <3>5, NoneAssumption
    <2>2. ASSUME NEW r \in Starts, r \notin due
          PROVE  sent[r] = pending[r] /\ local_starts'[r] = local_starts[r]
      BY <2>2 DEF SendLocalThreadStart
    <2>3. QED
      BY <2>1, <2>2
  <1>11. StartInv'
    <2> HIDE DEF sent, due
    <2>1. SUFFICES ASSUME NEW r \in Starts
                   PROVE  /\ Len(local_starts'[r]) <= 1
                          /\ r \notin Range(forwarded') => pending_thread_metadata'[r] = None /\ local_starts'[r] = <<>>
                          /\ pending_thread_metadata'[r] # None /\ ~pending_thread_metadata'[r].local_sent
                             => local_starts'[r] = <<>>
      BY DEF StartInv
    <2>2. CASE r \in due
      BY <1>7, <1>10, <2>2 DEF RelayInv, StartInv, forwardVars
    <2>3. CASE r \notin due
      BY <1>7, <1>10, <2>3 DEF RelayInv, StartInv, forwardVars
    <2>4. QED
      BY <2>2, <2>3
  <1>12. AnswerInv'
    <2> HIDE DEF sent
    <2>1. SUFFICES ASSUME NEW r \in Requests
                   PROVE  /\ Request(r) \in server_open' =>
                               inbox'[r] = <<>> /\ r \in Range(forwarded') /\ RequestRoute(r) # "Host"
                          /\ Request(r) \in host_open' =>
                               inbox'[r] = <<>> /\ r \in Range(forwarded') /\ RequestRoute(r) = "Host"
                          /\ r \notin Range(forwarded') => inbox'[r] = <<>>
                          /\ r \in Starts =>
                               (pending_thread_metadata'[r] # None /\ ~pending_thread_metadata'[r].local_sent
                                => inbox'[r] = <<>> /\ Request(r) \notin server_open')
      BY DEF AnswerInv
    <2>2. CASE r \in due
      <3>1. RequestRoute(r) # "Host"
        BY <2>2 DEF RequestRoute, Starts
      <3>2. r \in Range(forwarded)
        BY <1>10, <2>2 DEF RelayInv, StartInv
      <3>3. inbox[r] = <<>> /\ Request(r) \notin host_open
        BY <1>10, <2>2, <3>1 DEF RelayInv, AnswerInv
      <3>4. pending_thread_metadata'[r].local_sent
        BY <1>7, <1>10, <2>2
      <3>5. QED
        BY <1>7, <1>8, <3>1, <3>2, <3>3, <3>4 DEF forwardVars
    <2>3. CASE r \notin due
      <3>1. Request(r) \in server_open' => Request(r) \in server_open
        BY <1>7, <2>3, IdsDistinct
      <3>2. r \in Starts /\ pending_thread_metadata'[r] # None /\ ~pending_thread_metadata'[r].local_sent
            => pending_thread_metadata[r] # None /\ ~pending_thread_metadata[r].local_sent
        BY <1>7, <1>10, <2>3
      <3>3. QED
        BY <1>7, <1>8, <3>1, <3>2 DEF RelayInv, AnswerInv, forwardVars
    <2>4. QED
      BY <2>2, <2>3
  <1>13. QED
    BY <1>7, <1>9, <1>11, <1>12

-----------------------------------------------------------------------------
(* One lemma per kind of step *)

LEMMA InvInit == Init => RelayInv
  <1> SUFFICES ASSUME Init PROVE RelayInv
    OBVIOUS
  <1>1. TypeOK
    BY TypeInit
  <1>2. /\ Range(forwarded) = {} /\ forwarded = <<>> /\ client_sent = <<>> /\ pending_client_messages = <<>>
        /\ pending_client_bytes = 0
    BY DEF Init, Range
  <1>3. RegistrationInv
    BY DEF Init, RegistrationInv
  <1>4. QueueInv
    BY <1>2, NothingHeld, LimitsAssumption DEF QueueInv, HeldInOrder, QueueBounded
  <1>5. StartInv
    BY DEF Init, StartInv
  <1>6. AnswerInv
    BY DEF Init, AnswerInv
  <1>7. stray = {}
    BY DEF Init
  <1>8. QED
    BY <1>1, <1>3, <1>4, <1>5, <1>6, <1>7 DEF RelayInv

\* A step the abstract forwarder does not see, or sees as the gate opening.
GateStep ==
  /\ UNCHANGED <<session, initialize_requested, client_sent, inbox>>
  /\ ~Holding => ~Holding'
  /\ Holding' \/ ~Holding => forwarded' = forwarded

\* The parts of the invariant other than types and the hidden replies.
Parts == RegistrationInv /\ QueueInv /\ StartInv /\ AnswerInv

LEMMA UnchangedKeeps ==
  ASSUME RelayInv,
         UNCHANGED <<registrationVars, initializeVars, forwardVars, peerVars, client_sent, inbox>>
  PROVE  Parts'
  BY DEF RelayInv, Parts, RegistrationInv, QueueInv, HeldInOrder, QueueBounded, Holding, StartInv, AnswerInv,
         registrationVars, initializeVars, forwardVars, peerVars

LEMMA InvFail ==
  ASSUME RelayInv, Fail
  PROVE  Parts'
  BY UnchangedKeeps DEF Fail, clientVars

LEMMA InvClientInitialize ==
  ASSUME RelayInv, ClientInitialize
  PROVE  Parts' /\ UNCHANGED forwardVars /\ Holding'
  <1> DEFINE b == [Now EXCEPT !.server = @ \cup {InitializeId}, !.remote = @ \cup {HostInitializeId}]
  <1>1. TypeOK /\ phase = "WaitingForInitialize"
    BY DEF RelayInv, RegistrationInv, ClientInitialize
  <1>2. /\ Quiet(b) /\ b.pending = pending_thread_metadata
        /\ b.server = server_open \cup {InitializeId} /\ b.remote = host_open \cup {HostInitializeId}
    <2>1. b \in Branches
      BY <1>1, NowType, IdTypes DEF Branches
    <2>2. QED
      BY <2>1 DEF Quiet, Now
  <1>3. EndOfIteration(b)
    BY DEF ClientInitialize
  <1> HIDE DEF b
  <1>4. /\ UNCHANGED <<initializeVars, forwardVars, pending_thread_metadata, phase, local_starts, client_sent, inbox>>
        /\ server_open' = server_open \cup {InitializeId}
        /\ host_open' = host_open \cup {HostInitializeId}
        /\ initialize_requested'
    BY <1>2, <1>3, QuietIteration DEF ClientInitialize, clientVars
  <1>5. RegistrationInv'
    BY <1>1, <1>4, IdsDistinct DEF RelayInv, RegistrationInv, initializeVars
  <1>6. Holding'
    BY <1>1, <1>4 DEF Holding
  <1>7. QueueInv'
    BY <1>4, <1>6 DEF RelayInv, QueueInv, HeldInOrder, QueueBounded, forwardVars
  <1>8. StartInv'
    BY <1>4 DEF RelayInv, StartInv, forwardVars
  <1>9. AnswerInv'
    BY <1>4, IdsDistinct DEF RelayInv, AnswerInv, forwardVars
  <1>10. QED
    BY <1>4, <1>5, <1>6, <1>7, <1>8, <1>9 DEF Parts

LEMMA InvClientRequest ==
  ASSUME RelayInv, NEW r \in Requests, ClientRequest(r), ~Fail
  PROVE  /\ Parts' /\ UNCHANGED <<initialize_requested, phase, initializeVars>>
         /\ r \notin Range(client_sent) /\ client_sent' = Append(client_sent, r)
         /\ forwarded' = IF Holding THEN forwarded ELSE client_sent'
         /\ UNCHANGED <<session, inbox>>
  <1>1. TypeOK
    BY DEF RelayInv
  <1>2. /\ client_sent' = Append(client_sent, r)
        /\ r \notin Range(client_sent)
        /\ UNCHANGED <<session, initialize_requested, phase, local_starts, inbox>>
    BY DEF ClientRequest, registrationVars, clientVars
  <1>3. \A i, j \in DOMAIN client_sent' : client_sent'[i] = client_sent'[j] => i = j
    <2>1. client_sent \in Seq(Requests)
      BY <1>1 DEF TypeOK
    <2>2. \A i \in DOMAIN client_sent : client_sent[i] # r
      BY <1>2 DEF Range
    <2>3. \A i, j \in DOMAIN client_sent : client_sent[i] = client_sent[j] => i = j
      BY DEF RelayInv, QueueInv
    <2>4. QED
      BY <1>2, <2>1, <2>2, <2>3
  <1>4. CASE Holding
    <2> DEFINE b == Held(r)
    <2>1. b \in Branches
      <3>1. Append(Now.held, r) \in Seq(Requests) /\ Now.bytes + Bytes[r] \in Nat
        BY <1>1, NowType, RequestsAssumption DEF Branches
      <3>2. QED
        BY <1>1, <3>1, NowType DEF Branches, Held
    <2>2. /\ b.direct = <<>> /\ b.held = Append(pending_client_messages, r)
          /\ b.bytes = pending_client_bytes + Bytes[r]
          /\ b.ready = (phase = "Ready") /\ b.pending = pending_thread_metadata
          /\ b.local = local_initialize_response /\ b.host = host_initialize_response
          /\ b.server = server_open /\ b.remote = host_open
      BY DEF Now, Held
    <2>3. EndOfIteration(b) /\ pending_client_bytes + Bytes[r] <= MaxPendingClientBytes
      <3>1. ~(pending_client_bytes + Bytes[r] > MaxPendingClientBytes)
        BY <1>4 DEF ClientRequest
      <3>2. pending_client_bytes + Bytes[r] \in Nat /\ MaxPendingClientBytes \in Nat
        BY <1>1, RequestsAssumption, LimitsAssumption DEF TypeOK
      <3>3. QED
        BY <1>4, <3>1, <3>2 DEF ClientRequest
    <2> HIDE DEF b
    <2>4. /\ ~(~initialize_response_sent /\ b.local /\ b.host)
          /\ ~(b.ready /\ initialize_response_sent)
      BY <1>4, <2>2 DEF Holding, RelayInv, RegistrationInv
    <2>5. /\ UNCHANGED initializeVars
          /\ pending_client_messages' = Append(pending_client_messages, r)
          /\ pending_client_bytes' = pending_client_bytes + Bytes[r]
          /\ Forward(<<>>, b)
      BY <1>1, <2>2, <2>3, <2>4 DEF EndOfIteration, TypeOK, initializeVars
    <2>6. UNCHANGED <<forwarded, server_open, host_open, pending_thread_metadata>>
      BY <1>1, <2>1, <2>2, <2>5, ForwardNothing DEF TypeOK
    <2>7. Holding' /\ HeldInOrder' /\ QueueBounded'
      <3>1. Holding'
        BY <1>2, <1>4, <2>5 DEF Holding, initializeVars
      <3>2. Append(forwarded \o pending_client_messages, r) = forwarded \o Append(pending_client_messages, r)
        <4>1. forwarded \in Seq(Requests) /\ pending_client_messages \in Seq(Requests)
          BY <1>1 DEF TypeOK
        <4>2. QED
          BY <4>1, AppendLast, Zenon
      <3>3. client_sent = forwarded \o pending_client_messages
        BY DEF RelayInv, QueueInv, HeldInOrder
      <3>4. QED
        <4>1. pending_client_messages \in Seq(Requests) /\ forwarded \in Seq(Requests)
          BY <1>1 DEF TypeOK
        <4>2. r \notin Range(pending_client_messages)
          <5>1. Range(client_sent) = Range(forwarded) \cup Range(pending_client_messages)
            BY <3>3, <4>1, RangeConcatenation
          <5>2. QED
            BY <1>2, <5>1
        <4>3. QueueBounded'
          <5>1. HeldBytes(Range(pending_client_messages')) = HeldBytes(Range(pending_client_messages)) + Bytes[r]
            BY <2>5, <4>1, <4>2, OneMoreHeld
          <5>2. pending_client_bytes = HeldBytes(Range(pending_client_messages))
            BY DEF RelayInv, QueueInv, QueueBounded
          <5>3. QED
            BY <2>3, <2>5, <5>1, <5>2 DEF QueueBounded
        <4>4. QED
          BY <1>2, <2>5, <2>6, <3>1, <3>2, <3>3, <4>3 DEF HeldInOrder
    <2>8. RegistrationInv' /\ QueueInv' /\ StartInv' /\ AnswerInv'
      BY <1>2, <1>3, <2>5, <2>6, <2>7
         DEF RelayInv, RegistrationInv, QueueInv, StartInv, AnswerInv, initializeVars
    <2>9. QED
      BY <1>2, <1>4, <2>5, <2>6, <2>8 DEF Parts
  <1>5. CASE ~Holding
    <2> DEFINE b == [Now EXCEPT !.direct = <<r>>]
    <2>1. b \in Branches
      <3>1. <<r>> \in Seq(Requests)
        OBVIOUS
      <3>2. QED
        BY <1>1, <3>1, NowType DEF Branches
    <2>2. /\ b.direct = <<r>> /\ b.held = <<>> /\ b.bytes = pending_client_bytes
          /\ b.ready = (phase = "Ready") /\ b.pending = pending_thread_metadata
          /\ b.local = local_initialize_response /\ b.host = host_initialize_response
          /\ b.server = server_open /\ b.remote = host_open
      BY <1>5 DEF Now, RelayInv, QueueInv
    <2>3. EndOfIteration(b)
      BY <1>5 DEF ClientRequest
    <2> HIDE DEF b
    <2>4. ~(~initialize_response_sent /\ b.local /\ b.host)
      BY <2>2 DEF RelayInv, RegistrationInv
    <2>5. <<r>> \o <<>> = <<r>>
      OBVIOUS
    <2>6. /\ UNCHANGED initializeVars
          /\ pending_client_messages' = <<>>
          /\ pending_client_bytes' = pending_client_bytes
          /\ Forward(<<r>>, b)
      BY <1>1, <2>2, <2>3, <2>4, <2>5, NothingHeld DEF EndOfIteration, TypeOK, initializeVars
    <2>7. client_sent = forwarded
      BY <1>1, <1>5 DEF RelayInv, QueueInv, HeldInOrder, TypeOK
    <2>8. forwarded' = client_sent' /\ HeldInOrder'
      <3>1. forwarded \in Seq(Requests)
        BY <1>1 DEF TypeOK
      <3>2. forwarded' = Append(forwarded, r)
        BY <2>6, <3>1 DEF Forward
      <3>3. forwarded' \o <<>> = forwarded'
        BY <3>1, <3>2
      <3>4. QED
        BY <1>2, <2>6, <2>7, <3>2, <3>3 DEF HeldInOrder
    <2>9. \A x \in Range(<<r>>) : x \notin Range(forwarded)
      <3>1. \A x \in Range(<<r>>) : x = r
        BY DEF Range
      <3>2. QED
        BY <1>2, <2>7, <3>1
    <2>10. StartInv' /\ AnswerInv'
      <3>1. <<r>> \in Seq(Requests)
        OBVIOUS
      <3>2. QED
        BY <1>2, <2>1, <2>2, <2>6, <2>9, <3>1, ForwardKeeps
    <2>11. \A id \in {InitializeId, AddId, StatusId} : id \in server_open' => id \in server_open
      BY <2>2, <2>6, IdsDistinct DEF Forward
    <2>12. HostInitializeId \in host_open' => HostInitializeId \in host_open
      BY <2>2, <2>6, IdsDistinct DEF Forward
    <2>13. RegistrationInv'
      BY <1>2, <2>6, <2>11, <2>12 DEF RelayInv, RegistrationInv, initializeVars
    <2>14. QueueInv'
      <3>1. QueueBounded'
        BY <1>5, <2>6 DEF RelayInv, QueueInv, QueueBounded
      <3>2. QED
        BY <1>3, <2>6, <2>8, <3>1 DEF QueueInv
    <2>15. QED
      BY <1>2, <1>5, <2>6, <2>8, <2>10, <2>13, <2>14 DEF Parts
  <1>6. QED
    BY <1>4, <1>5
-----------------------------------------------------------------------------
(* The registration and the initialize exchanges *)

\* A step that may complete the handshake: the queue goes out if and only if
\* the session is usable after it.
LEMMA GateKeeps ==
  ASSUME RelayInv, initialize_requested, NEW flush \in BOOLEAN, NEW b \in Branches,
         UNCHANGED <<session, initialize_requested, client_sent, inbox, local_starts>>,
         pending_client_messages' = IF flush THEN <<>> ELSE pending_client_messages,
         pending_client_bytes' = IF flush THEN BytesWithout(pending_client_bytes, pending_client_messages)
                                          ELSE pending_client_bytes,
         Forward(IF flush THEN pending_client_messages ELSE <<>>, b),
         flush <=> phase' = "Ready" /\ initialize_response_sent',
         phase = "Ready" => phase' = "Ready",
         initialize_response_sent => initialize_response_sent',
         b.pending = pending_thread_metadata,
         \A r \in Requests : Request(r) \in b.server => Request(r) \in server_open,
         \A r \in Requests : Request(r) \in b.remote => Request(r) \in host_open
  PROVE  QueueInv' /\ StartInv' /\ AnswerInv' /\ GateStep
  <1> DEFINE rs == IF flush THEN pending_client_messages ELSE <<>>
  <1>1. /\ HeldInOrder' /\ QueueBounded' /\ rs \in Seq(Requests)
        /\ \A r \in Range(rs) : r \notin Range(forwarded)
    BY FlushKeeps
  <1>2. Forward(rs, b)
    OBVIOUS
  <1>3. ~Holding' <=> flush
    BY DEF Holding
  <1>4. QueueInv'
    BY <1>1, <1>3 DEF RelayInv, QueueInv
  <1>5. Holding' \/ ~Holding => rs = <<>>
    BY <1>3 DEF RelayInv, QueueInv
  <1>6. ~Holding => ~Holding'
    BY DEF Holding
  <1>7. forwarded \in Seq(Requests)
    BY DEF RelayInv, TypeOK
  <1> HIDE DEF rs
  <1>8. StartInv' /\ AnswerInv'
    BY <1>1, <1>2, ForwardKeeps
  <1>9. GateStep
    BY <1>2, <1>5, <1>6, <1>7 DEF GateStep, Forward
  <1>10. QED
    BY <1>4, <1>8, <1>9

LEMMA InvServerInitialize ==
  ASSUME RelayInv, ServerInitialize, ~Fail
  PROVE  Parts' /\ GateStep
  <1> DEFINE b == [Now EXCEPT !.local = TRUE, !.server = (@ \ {InitializeId}) \cup {AddId}]
  <1>1. TypeOK /\ initialize_requested /\ phase = "WaitingForInitialize" /\ phase' = "Registering"
    BY DEF RelayInv, RegistrationInv, ServerInitialize
  <1>2. UNCHANGED <<session, initialize_requested, client_sent, inbox, local_starts>>
    BY DEF ServerInitialize, clientVars
  <1>3. /\ b \in Branches
        /\ b.direct = <<>> /\ b.held = pending_client_messages /\ b.bytes = pending_client_bytes
        /\ ~b.ready
        /\ b.pending = pending_thread_metadata
        /\ b.local /\ b.host = host_initialize_response
        /\ b.server = (server_open \ {InitializeId}) \cup {AddId} /\ b.remote = host_open
    <2>1. b \in Branches
      BY <1>1, NowType, IdTypes DEF Branches
    <2>2. QED
      BY <1>1, <2>1 DEF Now
  <1>4. EndOfIteration(b)
    BY DEF ServerInitialize
  <1> HIDE DEF b
  <1>5. /\ initialize_response_sent' = (initialize_response_sent \/ (~initialize_response_sent /\ host_initialize_response))
        /\ local_initialize_response' = ~(~initialize_response_sent /\ host_initialize_response)
        /\ host_initialize_response' = host_initialize_response
        /\ pending_client_messages' = pending_client_messages
        /\ pending_client_bytes' = pending_client_bytes
        /\ Forward(<<>>, b)
    BY <1>3, <1>4 DEF EndOfIteration
  <1>6. server_open' = b.server /\ host_open' = b.remote
    BY <1>1, <1>3, <1>5, ForwardNothing DEF TypeOK
  <1>7. RegistrationInv'
    BY <1>1, <1>2, <1>3, <1>5, <1>6, IdsDistinct DEF RelayInv, RegistrationInv
  <1>8. QueueInv' /\ StartInv' /\ AnswerInv' /\ GateStep
    <2>1. \A r \in Requests : Request(r) \in b.server => Request(r) \in server_open
      BY <1>3, IdsDistinct
    <2>2. initialize_response_sent => initialize_response_sent'
      BY <1>5
    <2>3. FALSE <=> phase' = "Ready" /\ initialize_response_sent'
      BY <1>1
    <2>4. QED
      BY <1>1, <1>2, <1>3, <1>5, <2>1, <2>2, <2>3, GateKeeps
  <1>9. QED
    BY <1>7, <1>8 DEF Parts
LEMMA InvServerEnvironmentAdd ==
  ASSUME RelayInv, ServerEnvironmentAdd, ~Fail
  PROVE  Parts' /\ GateStep
  <1>1. /\ initialize_requested /\ phase = "Registering" /\ phase' = "Polling"
        /\ server_open' = (server_open \ {AddId}) \cup {StatusId}
        /\ UNCHANGED <<session, initialize_requested, initializeVars, forwardVars, pending_thread_metadata,
                       host_open, local_starts, client_sent, inbox>>
    BY DEF RelayInv, RegistrationInv, ServerEnvironmentAdd, clientVars
  <1>2. RegistrationInv'
    BY <1>1, IdsDistinct DEF RelayInv, RegistrationInv, initializeVars
  <1>3. Holding /\ Holding'
    BY <1>1 DEF Holding
  <1>4. QueueInv'
    BY <1>1, <1>3 DEF RelayInv, QueueInv, HeldInOrder, QueueBounded, forwardVars
  <1>5. StartInv'
    BY <1>1 DEF RelayInv, StartInv, forwardVars
  <1>6. \A r \in Requests : Request(r) \in server_open' => Request(r) \in server_open
    BY <1>1, IdsDistinct
  <1>7. AnswerInv'
    BY <1>1, <1>6 DEF RelayInv, AnswerInv, forwardVars
  <1>8. GateStep
    BY <1>1, <1>3 DEF GateStep, forwardVars
  <1>9. QED
    BY <1>2, <1>4, <1>5, <1>7, <1>8 DEF Parts

LEMMA InvStatusReady ==
  ASSUME RelayInv, StatusReady
  PROVE  Parts' /\ GateStep
  <1> DEFINE b == [Now EXCEPT !.server = @ \ {StatusId}]
  <1>1. /\ TypeOK /\ initialize_requested /\ phase = "Polling" /\ phase' = "Ready"
        /\ InitializeId \notin server_open /\ AddId \notin server_open
    BY DEF RelayInv, RegistrationInv, StatusReady
  <1>2. UNCHANGED <<session, initialize_requested, initializeVars, client_sent, inbox, local_starts>>
    BY DEF StatusReady, clientVars
  <1>3. /\ b \in Branches /\ b.pending = pending_thread_metadata
        /\ b.server = server_open \ {StatusId} /\ b.remote = host_open
    <2>1. b \in Branches
      BY <1>1, NowType DEF Branches
    <2>2. QED
      BY <1>1, <2>1 DEF Now
  <1>4. /\ pending_client_messages' = IF initialize_response_sent THEN <<>> ELSE pending_client_messages
        /\ pending_client_bytes' = IF initialize_response_sent
                                   THEN BytesWithout(pending_client_bytes, pending_client_messages)
                                   ELSE pending_client_bytes
        /\ Forward(IF initialize_response_sent THEN pending_client_messages ELSE <<>>, b)
    BY DEF StatusReady
  <1>5. initialize_response_sent \in BOOLEAN /\ initialize_response_sent' = initialize_response_sent
    BY <1>1, <1>2 DEF TypeOK, initializeVars
  <1> HIDE DEF b
  <1>6. QueueInv' /\ StartInv' /\ AnswerInv' /\ GateStep
    BY <1>1, <1>2, <1>3, <1>4, <1>5, GateKeeps
  <1>7. /\ \A id \in {InitializeId, AddId, StatusId} : id \in server_open' => id \in server_open /\ id # StatusId
        /\ HostInitializeId \in host_open' => HostInitializeId \in host_open
    BY <1>3, <1>4, IdsDistinct DEF Forward
  <1>8. RegistrationInv'
    BY <1>1, <1>2, <1>7 DEF RelayInv, RegistrationInv, initializeVars
  <1>9. QED
    BY <1>6, <1>8 DEF Parts

LEMMA InvStatusNotReady ==
  ASSUME RelayInv, StatusNotReady, ~Fail
  PROVE  Parts' /\ GateStep
  <1>1. UNCHANGED <<session, initialize_requested, phase, initializeVars, forwardVars, peerVars, client_sent, inbox>>
    BY DEF StatusNotReady, clientVars
  <1>2. Parts'
    BY <1>1 DEF RelayInv, Parts, RegistrationInv, QueueInv, HeldInOrder, QueueBounded, Holding, StartInv, AnswerInv,
                initializeVars, forwardVars, peerVars
  <1>3. GateStep
    BY <1>1 DEF GateStep, Holding, initializeVars, forwardVars
  <1>4. QED
    BY <1>2, <1>3

LEMMA InvHostInitialize ==
  ASSUME RelayInv, HostInitialize, ~Fail
  PROVE  Parts' /\ GateStep /\ UNCHANGED stray
  <1> DEFINE b == [Now EXCEPT !.host = TRUE, !.remote = Answered(HostInitializeId)]
             merge == ~initialize_response_sent /\ local_initialize_response
             flush == phase = "Ready" /\ (initialize_response_sent \/ merge)
  <1>1. TypeOK /\ initialize_requested
    BY DEF RelayInv, RegistrationInv, HostInitialize
  <1>2. UNCHANGED <<session, initialize_requested, phase, client_sent, inbox, local_starts, stray>>
    BY DEF HostInitialize, clientVars, registrationVars
  <1>3. /\ b \in Branches
        /\ b.direct = <<>> /\ b.held = pending_client_messages /\ b.bytes = pending_client_bytes
        /\ b.ready = (phase = "Ready")
        /\ b.pending = pending_thread_metadata
        /\ b.local = local_initialize_response /\ b.host
        /\ b.server = server_open /\ b.remote = host_open \ {HostInitializeId}
    <2>1. b \in Branches
      BY <1>1, NowType DEF Branches, Answered, TypeOK
    <2>2. QED
      BY <1>1, <2>1 DEF Now, Answered
  <1>4. EndOfIteration(b)
    BY DEF HostInitialize
  <1> HIDE DEF b
  <1>5. /\ initialize_response_sent' = (initialize_response_sent \/ merge)
        /\ local_initialize_response' = (local_initialize_response /\ ~merge)
        /\ host_initialize_response'
        /\ pending_client_messages' = IF flush THEN <<>> ELSE pending_client_messages
        /\ pending_client_bytes' = IF flush THEN BytesWithout(pending_client_bytes, pending_client_messages)
                                             ELSE pending_client_bytes
        /\ Forward(IF flush THEN <<>> \o pending_client_messages ELSE <<>>, b)
    BY <1>3, <1>4 DEF EndOfIteration
  <1>6. <<>> \o pending_client_messages = pending_client_messages
    BY <1>1 DEF TypeOK
  <1>7. /\ initialize_response_sent \in BOOLEAN /\ local_initialize_response \in BOOLEAN
        /\ flush \in BOOLEAN
        /\ flush <=> phase' = "Ready" /\ initialize_response_sent'
    BY <1>1, <1>2, <1>5 DEF TypeOK
  <1>8. QueueInv' /\ StartInv' /\ AnswerInv' /\ GateStep
    <2>1. Forward(IF flush THEN pending_client_messages ELSE <<>>, b)
      BY <1>5, <1>6
    <2>2. initialize_response_sent => initialize_response_sent'
      BY <1>5
    <2>3. /\ pending_client_messages' = IF flush THEN <<>> ELSE pending_client_messages
          /\ pending_client_bytes' = IF flush THEN BytesWithout(pending_client_bytes, pending_client_messages)
                                               ELSE pending_client_bytes
      BY <1>5
    <2> HIDE DEF flush
    <2>4. QED
      BY <1>1, <1>2, <1>3, <1>7, <2>1, <2>2, <2>3, GateKeeps
  <1>9. /\ \A id \in {InitializeId, AddId, StatusId} : id \in server_open' => id \in server_open
        /\ HostInitializeId \notin host_open'
    BY <1>3, <1>5, IdsDistinct DEF Forward
  <1>10. RegistrationInv'
    BY <1>1, <1>2, <1>5, <1>7, <1>9 DEF RelayInv, RegistrationInv
  <1>11. QED
    BY <1>2, <1>8, <1>10 DEF Parts
-----------------------------------------------------------------------------
(* Answers *)

\* A step the abstract forwarder sees as the answer to r.
AnswerStep(r) ==
  /\ UNCHANGED <<session, initialize_requested, phase, initializeVars, client_sent, forwarded>>
  /\ r \in Range(forwarded) /\ inbox[r] = <<>>
  /\ \E response \in Responses : Deliver(r, response)

\* Settling r, with or without a message to the client, keeps the invariants;
\* what it settles is no longer owed, and no other request is touched.
LEMMA SettleKeeps ==
  ASSUME RelayInv, NEW r \in Requests, NEW b, Quiet(b), EndOfIteration(b),
         UNCHANGED <<initialize_requested, phase, client_sent, local_starts>>,
         \/ UNCHANGED inbox
         \/ /\ r \in Range(forwarded)
            /\ Request(r) \notin b.server \cup b.remote
            /\ r \in Starts => b.pending[r] = None \/ b.pending[r].local_sent
            /\ \E response \in Responses : Deliver(r, response),
         \A s \in Starts : b.pending[s] # None =>
           /\ pending_thread_metadata[s] # None
           /\ b.pending[s].local_sent = pending_thread_metadata[s].local_sent,
         b.server \subseteq server_open, b.remote \subseteq host_open
  PROVE  Parts' /\ UNCHANGED <<initializeVars, forwardVars>>
  <1>1. /\ UNCHANGED <<initializeVars, forwardVars>>
        /\ server_open' = b.server /\ host_open' = b.remote
        /\ pending_thread_metadata' = b.pending
    BY QuietIteration
  <1>2. RegistrationInv' /\ QueueInv'
    BY <1>1, QuietKeeps
  <1>3. StartInv'
    BY <1>1 DEF RelayInv, StartInv, forwardVars
  <1>4. ASSUME NEW s \in Requests, inbox'[s] = inbox[s]
        PROVE  /\ Request(s) \in server_open' =>
                    inbox'[s] = <<>> /\ s \in Range(forwarded') /\ RequestRoute(s) # "Host"
               /\ Request(s) \in host_open' =>
                    inbox'[s] = <<>> /\ s \in Range(forwarded') /\ RequestRoute(s) = "Host"
               /\ s \notin Range(forwarded') => inbox'[s] = <<>>
               /\ s \in Starts =>
                    (pending_thread_metadata'[s] # None /\ ~pending_thread_metadata'[s].local_sent
                     => inbox'[s] = <<>> /\ Request(s) \notin server_open')
    BY <1>1, <1>4 DEF RelayInv, AnswerInv, forwardVars
  <1>5. CASE UNCHANGED inbox
    <2>1. AnswerInv'
      BY <1>4, <1>5 DEF AnswerInv
    <2>2. QED
      BY <1>1, <1>2, <1>3, <2>1 DEF Parts
  <1>6. CASE ~UNCHANGED inbox
    <2>1. \A s \in Requests : s # r => inbox'[s] = inbox[s]
      BY <1>6 DEF Deliver, RelayInv, TypeOK
    <2>2. /\ Request(r) \notin server_open' /\ Request(r) \notin host_open'
          /\ r \in Range(forwarded')
          /\ r \in Starts => pending_thread_metadata'[r] = None \/ pending_thread_metadata'[r].local_sent
      BY <1>1, <1>6 DEF forwardVars
    <2>3. AnswerInv'
      BY <1>4, <2>1, <2>2 DEF AnswerInv
    <2>4. QED
      BY <1>1, <1>2, <1>3, <2>3 DEF Parts
  <1>7. QED
    BY <1>5, <1>6

LEMMA InvServerMessage ==
  ASSUME RelayInv, NEW r \in Requests, ServerMessage(r), ~Fail
  PROVE  Parts' /\ (GateStep \/ AnswerStep(r)) /\ UNCHANGED stray
  <1>1. PICK kind \in {"result", "error", "request"}, listed \in SUBSET Listable :
          ServerThreadStart(r, kind) \/ ServerThreadList(r, kind, listed) \/ ServerPassedOn(r, kind, listed)
    BY DEF ServerMessage
  <1>2. TypeOK
    BY DEF RelayInv
  <1>3. /\ FromServer(r, kind)
        /\ UNCHANGED <<session, initialize_requested, phase, client_sent, local_starts, stray>>
    BY <1>1 DEF ServerThreadStart, ServerThreadList, ServerPassedOn, registrationVars, clientVars
  <1>4. \A ok, merged \in BOOLEAN, threads \in SUBSET Threads : Response(ok, merged, threads) \in Responses
    BY DEF Response, Responses
  <1>5. Listable \subseteq Threads /\ thread_ids \subseteq Threads /\ (r \in Starts => {r} \subseteq Threads)
    BY <1>2 DEF Listable, Threads, TypeOK
  <1>6. \/ UNCHANGED inbox
        \/ kind # "request" /\ \E response \in Responses : Deliver(r, response)
    <2>1. CASE ServerThreadStart(r, kind)
      <3>1. pending_thread_metadata[r].host_response \in BOOLEAN /\ r \in Starts
        BY <1>2, <2>1 DEF ServerThreadStart, AwaitsStart, TypeOK, Pending
      <3> DEFINE merges == pending_thread_metadata[r].host_response /\ kind # "error"
                 reply == Response(kind = "result", merges, IF kind = "result" THEN {r} ELSE {})
      <3>2. reply \in Responses
        BY <1>4, <1>5, <3>1
      <3>3. kind = "request" \/ Deliver(r, reply)
        BY <2>1 DEF ServerThreadStart
      <3>4. kind = "request" => UNCHANGED inbox
        BY <2>1 DEF ServerThreadStart
      <3>5. QED
        BY <3>2, <3>3, <3>4
    <2>2. CASE ServerThreadList(r, kind, listed)
      BY <1>4, <1>5, <2>2 DEF ServerThreadList
    <2>3. CASE ServerPassedOn(r, kind, listed)
      <3>1. (CASE kind = "error" -> {}
               [] Method[r] = "thread/start" -> {r}
               [] Method[r] = "thread/list" -> listed
               [] OTHER -> {}) \in SUBSET Threads
        BY <1>5 DEF Starts
      <3>2. QED
        BY <1>4, <2>3, <3>1 DEF ServerPassedOn
    <2>4. QED
      BY <1>1, <2>1, <2>2, <2>3
  <1>7. ServerOpenAfter(r, kind) \subseteq server_open
    BY DEF ServerOpenAfter
  <1>8. PICK b :
          /\ Quiet(b) /\ EndOfIteration(b)
          /\ b.server = ServerOpenAfter(r, kind) /\ b.remote = host_open
          /\ \A s \in Starts : b.pending[s] = pending_thread_metadata[s] \/ b.pending[s] = None
          /\ AwaitsStart(r) => b.pending[r] = None
    <2>1. CASE ServerThreadStart(r, kind)
      <3> DEFINE b == [Now EXCEPT !.pending[r] = None, !.server = ServerOpenAfter(r, kind)]
      <3>1. EndOfIteration(b) /\ r \in Starts
        BY <2>1 DEF ServerThreadStart, AwaitsStart
      <3>2. /\ b.direct = <<>> /\ b.held = pending_client_messages /\ b.bytes = pending_client_bytes
        /\ b.ready = (phase = "Ready")
            /\ b.local = local_initialize_response /\ b.host = host_initialize_response
            /\ b.server = ServerOpenAfter(r, kind) /\ b.remote = host_open
            /\ b.pending = [pending_thread_metadata EXCEPT ![r] = None]
        BY DEF Now
      <3>3. b \in Branches
        BY <1>2, <1>7, NowType DEF Branches, TypeOK
      <3> HIDE DEF b
      <3>4. QED
        BY <1>2, <3>1, <3>2, <3>3 DEF Quiet, TypeOK
    <2>2. CASE ServerThreadList(r, kind, listed) \/ ServerPassedOn(r, kind, listed)
      <3> DEFINE b == [Now EXCEPT !.server = ServerOpenAfter(r, kind)]
      <3>1. EndOfIteration(b) /\ ~AwaitsStart(r)
        BY <2>2 DEF ServerThreadList, ServerPassedOn
      <3>2. /\ b.direct = <<>> /\ b.held = pending_client_messages /\ b.bytes = pending_client_bytes
        /\ b.ready = (phase = "Ready")
            /\ b.local = local_initialize_response /\ b.host = host_initialize_response
            /\ b.server = ServerOpenAfter(r, kind) /\ b.remote = host_open
            /\ b.pending = pending_thread_metadata
        BY DEF Now
      <3>3. b \in Branches
        BY <1>2, <1>7, NowType DEF Branches, TypeOK
      <3> HIDE DEF b
      <3>4. QED
        BY <3>1, <3>2, <3>3 DEF Quiet
    <2>3. QED
      BY <1>1, <2>1, <2>2
  <1>9. kind # "request" => /\ Request(r) \in server_open
                            /\ Request(r) \notin b.server \cup b.remote
                            /\ inbox[r] = <<>> /\ r \in Range(forwarded)
                            /\ r \in Starts => b.pending[r] = None \/ b.pending[r].local_sent
    <2>1. SUFFICES ASSUME kind # "request"
                   PROVE  /\ Request(r) \in server_open
                          /\ Request(r) \notin b.server \cup b.remote
                          /\ inbox[r] = <<>> /\ r \in Range(forwarded)
                          /\ r \in Starts => b.pending[r] = None \/ b.pending[r].local_sent
      OBVIOUS
    <2>2. Request(r) \in server_open
      BY <1>3, <2>1 DEF FromServer
    <2>3. Request(r) \notin b.server \cup b.remote
      BY <1>8, <2>1, <2>2 DEF ServerOpenAfter, RelayInv, AnswerInv
    <2>4. r \in Starts => b.pending[r] = None \/ b.pending[r].local_sent
      BY <1>8, <2>2 DEF RelayInv, AnswerInv
    <2>5. QED
      BY <2>2, <2>3, <2>4 DEF RelayInv, AnswerInv
  <1>10. Parts' /\ UNCHANGED <<initializeVars, forwardVars>>
    BY <1>3, <1>6, <1>7, <1>8, <1>9, SettleKeeps
  <1>11. CASE UNCHANGED inbox
    BY <1>3, <1>10, <1>11 DEF GateStep, Holding, initializeVars, forwardVars
  <1>12. CASE ~UNCHANGED inbox
    BY <1>3, <1>6, <1>9, <1>10, <1>12 DEF AnswerStep, forwardVars
  <1>13. QED
    BY <1>3, <1>10, <1>11, <1>12
-----------------------------------------------------------------------------
(* Lines from the host, and time *)

LEMMA InvSendLocal ==
  ASSUME RelayInv, NEW rs \in SUBSET Starts,
         NEW pending \in [Starts -> Pending \cup {None}], NEW remote \in SUBSET HostIds,
         \A r \in rs : pending[r] # None,
         \A r \in Starts : /\ pending[r] = None <=> pending_thread_metadata[r] = None
                           /\ pending[r] # None => pending[r].local_sent = pending_thread_metadata[r].local_sent,
         \A r \in Requests : Request(r) \in remote => Request(r) \in host_open,
         HostInitializeId \in remote => HostInitializeId \in host_open,
         SendLocalThreadStart(rs, pending, remote), UNCHANGED hostFrame
  PROVE  Parts' /\ GateStep /\ UNCHANGED stray
  <1>1. /\ RegistrationInv' /\ QueueInv' /\ StartInv' /\ AnswerInv'
        /\ UNCHANGED <<initializeVars, forwardVars>>
    BY SendLocalKeeps
  <1>2. UNCHANGED <<session, initialize_requested, phase, client_sent, inbox, stray>>
    BY DEF hostFrame, registrationVars, clientVars
  <1>3. GateStep
    BY <1>1, <1>2 DEF GateStep, Holding, initializeVars, forwardVars
  <1>4. QED
    BY <1>1, <1>2, <1>3 DEF Parts

\* One entry changes, but for whether its start is out.
LEMMA EntryChange ==
  ASSUME TypeOK, NEW r \in Starts, pending_thread_metadata[r] # None,
         NEW entry \in Pending, entry.local_sent = pending_thread_metadata[r].local_sent
  PROVE  LET pending == [pending_thread_metadata EXCEPT ![r] = entry] IN
         /\ pending \in [Starts -> Pending \cup {None}]
         /\ pending[r] # None
         /\ \A s \in Starts :
              /\ pending[s] = None <=> pending_thread_metadata[s] = None
              /\ pending[s] # None => pending[s].local_sent = pending_thread_metadata[s].local_sent
  BY NoneAssumption DEF TypeOK

\* What remains owed by the host after it answered the bridge about r.
LEMMA HostOwes ==
  ASSUME TypeOK, NEW r \in Starts, NEW id, NEW reads \in SUBSET (1..MaxSources),
         NEW remote, remote = Answered(id) \cup {Read(r, i) : i \in reads}
  PROVE  /\ remote \in SUBSET HostIds
         /\ \A s \in Requests : Request(s) \in remote => Request(s) \in host_open
         /\ HostInitializeId \in remote => HostInitializeId \in host_open
  <1>1. \A i \in reads : Read(r, i) \in HostIds
    BY IdTypes
  <1>2. QED
    BY <1>1, IdsDistinct DEF Answered, TypeOK

LEMMA HostOwesLess ==
  ASSUME TypeOK, NEW id, NEW remote, remote = Answered(id)
  PROVE  /\ remote \in SUBSET HostIds
         /\ \A s \in Requests : Request(s) \in remote => Request(s) \in host_open
         /\ HostInitializeId \in remote => HostInitializeId \in host_open
  <1>1. remote \subseteq host_open /\ host_open \subseteq HostIds
    BY DEF Answered, TypeOK
  <1>2. QED
    BY <1>1

LEMMA InvHostMetadata ==
  ASSUME RelayInv, NEW r \in Starts, NEW sources \in Lists(MaxListed),
         HostMetadataError(r) \/ HostMetadata(r, sources)
  PROVE  Parts' /\ GateStep /\ UNCHANGED stray
  <1>1. /\ TypeOK /\ pending_thread_metadata[r] # None /\ pending_thread_metadata[r] \in Pending
        /\ UNCHANGED hostFrame
    BY DEF RelayInv, TypeOK, HostMetadataError, HostMetadata
  <1> DEFINE answered == [pending_thread_metadata[r] EXCEPT !.host_response = TRUE]
             listed == [answered EXCEPT !.instruction_paths = Taken(sources),
                                        !.pending_instruction_reads = DOMAIN Taken(sources)]
  <1>2. answered \in Pending /\ answered.local_sent = pending_thread_metadata[r].local_sent
    BY <1>1 DEF Pending
  <1>3. CASE HostMetadataError(r)
    <2> DEFINE remote == Answered(Metadata(r))
    <2>1. remote = Answered(Metadata(r))
      OBVIOUS
    <2>2. SendLocalThreadStart({r}, pending_thread_metadata, remote)
      BY <1>3 DEF HostMetadataError
    <2> HIDE DEF remote
    <2>3. pending_thread_metadata \in [Starts -> Pending \cup {None}]
      BY <1>1 DEF TypeOK
    <2>4. /\ remote \in SUBSET HostIds
          /\ \A s \in Requests : Request(s) \in remote => Request(s) \in host_open
          /\ HostInitializeId \in remote => HostInitializeId \in host_open
      BY <1>1, <2>1, HostOwesLess
    <2>5. QED
      BY <1>1, <2>2, <2>3, <2>4, InvSendLocal
  <1>4. CASE /\ EndOfIteration([Now EXCEPT !.pending[r] = answered, !.remote = Answered(Metadata(r))])
             /\ UNCHANGED local_starts
    <2> DEFINE b == [Now EXCEPT !.pending[r] = answered, !.remote = Answered(Metadata(r))]
               pending == [pending_thread_metadata EXCEPT ![r] = answered]
    <2>1. /\ b.direct = <<>> /\ b.held = pending_client_messages /\ b.bytes = pending_client_bytes
        /\ b.ready = (phase = "Ready")
          /\ b.local = local_initialize_response /\ b.host = host_initialize_response
          /\ b.server = server_open /\ b.remote = host_open \ {Metadata(r)}
          /\ b.pending = pending
      BY DEF Now, Answered
    <2>2. b \in Branches
      BY <1>1, <1>2, NowType DEF Branches, Answered, TypeOK
    <2>3. EndOfIteration(b)
      BY <1>4
    <2> HIDE DEF b, answered
    <2>4. \A s \in Starts : pending[s] # None =>
            pending_thread_metadata[s] # None /\ pending[s].local_sent = pending_thread_metadata[s].local_sent
      BY <1>1, <1>2, EntryChange
    <2> HIDE DEF pending
    <2>5. UNCHANGED <<session, initialize_requested, phase, client_sent, inbox, local_starts, stray>>
      BY <1>1, <1>4 DEF hostFrame, registrationVars, clientVars
    <2>6. Parts' /\ UNCHANGED <<initializeVars, forwardVars>>
      <3>1. Quiet(b) /\ b.server \subseteq server_open /\ b.remote \subseteq host_open
        BY <2>1, <2>2 DEF Quiet
      <3>2. \A s \in Starts : b.pending[s] # None =>
              pending_thread_metadata[s] # None /\ b.pending[s].local_sent = pending_thread_metadata[s].local_sent
        BY <2>1, <2>4
      <3>3. r \in Requests
        BY DEF Starts
      <3>4. QED
        BY <2>3, <2>5, <3>1, <3>2, <3>3, SettleKeeps
    <2>7. QED
      BY <2>5, <2>6 DEF GateStep, Holding, initializeVars, forwardVars
  <1>5. CASE SendLocalThreadStart(IF Taken(sources) = <<>> THEN {r} ELSE {},
               [pending_thread_metadata EXCEPT ![r] = listed],
               Answered(Metadata(r)) \cup {Read(r, i) : i \in DOMAIN Taken(sources)})
    <2> DEFINE remote == Answered(Metadata(r)) \cup {Read(r, i) : i \in DOMAIN Taken(sources)}
               rs == IF Taken(sources) = <<>> THEN {r} ELSE {}
               pending == [pending_thread_metadata EXCEPT ![r] = listed]
    <2>1. SendLocalThreadStart(rs, pending, remote)
      BY <1>5
    <2>2. listed \in Pending /\ listed.local_sent = pending_thread_metadata[r].local_sent
      BY <1>2, TakenType DEF Pending
    <2> HIDE DEF listed
    <2>3. /\ pending \in [Starts -> Pending \cup {None}]
          /\ \A s \in rs : pending[s] # None
          /\ \A s \in Starts :
               /\ pending[s] = None <=> pending_thread_metadata[s] = None
               /\ pending[s] # None => pending[s].local_sent = pending_thread_metadata[s].local_sent
      BY <1>1, <2>2, EntryChange
    <2>4. /\ remote \in SUBSET HostIds
          /\ \A s \in Requests : Request(s) \in remote => Request(s) \in host_open
          /\ HostInitializeId \in remote => HostInitializeId \in host_open
      BY <1>1, TakenType, HostOwes
    <2>5. SendLocalThreadStart(rs, pending, remote) /\ rs \in SUBSET Starts
      BY <2>1
    <2> HIDE DEF rs, pending, remote
    <2>6. QED
      BY <1>1, <2>3, <2>4, <2>5, InvSendLocal
  <1>6. QED
    BY <1>3, <1>4, <1>5 DEF HostMetadata, Taken

LEMMA InvHostRead ==
  ASSUME RelayInv, NEW r \in Starts, NEW i \in 1..MaxSources,
         HostReadSkipped(r, i) \/ HostReadFile(r, i), ~Fail
  PROVE  Parts' /\ GateStep /\ UNCHANGED stray
  <1>1. /\ TypeOK /\ pending_thread_metadata[r] # None /\ pending_thread_metadata[r] \in Pending
        /\ UNCHANGED hostFrame /\ i \in pending_thread_metadata[r].pending_instruction_reads
    BY DEF RelayInv, TypeOK, HostReadSkipped, HostReadFile, AwaitsRead
  <1> DEFINE p == pending_thread_metadata[r].instruction_paths[i]
             skipped == [pending_thread_metadata[r] EXCEPT !.pending_instruction_reads = @ \ {i}]
             filed == [pending_thread_metadata[r] EXCEPT !.pending_instruction_reads = @ \ {i},
                                                         !.instruction_contents = @ \cup {p}]
  <1>2. PICK entry \in {skipped, filed} :
          SendLocalThreadStart(IF entry.pending_instruction_reads = {} THEN {r} ELSE {},
                               [pending_thread_metadata EXCEPT ![r] = entry], Answered(Read(r, i)))
    BY DEF HostReadSkipped, HostReadFile
  <1>3. entry \in Pending /\ entry.local_sent = pending_thread_metadata[r].local_sent
    <2>1. skipped \in Pending /\ skipped.local_sent = pending_thread_metadata[r].local_sent
      BY <1>1 DEF Pending
    <2>2. filed \in Pending /\ filed.local_sent = pending_thread_metadata[r].local_sent
      <3>1. p \in Paths
        BY <1>1, AwaitedSource
      <3> HIDE DEF p
      <3>2. QED
        BY <1>1, <3>1 DEF Pending
    <2>3. QED
      BY <1>2, <2>1, <2>2
  <1> DEFINE rs == IF entry.pending_instruction_reads = {} THEN {r} ELSE {}
             pending == [pending_thread_metadata EXCEPT ![r] = entry]
             remote == Answered(Read(r, i))
  <1>4. /\ pending \in [Starts -> Pending \cup {None}]
        /\ \A s \in rs : pending[s] # None
        /\ \A s \in Starts :
             /\ pending[s] = None <=> pending_thread_metadata[s] = None
             /\ pending[s] # None => pending[s].local_sent = pending_thread_metadata[s].local_sent
    BY <1>1, <1>3, EntryChange
  <1>5. remote = Answered(Read(r, i))
    OBVIOUS
  <1>6. SendLocalThreadStart(rs, pending, remote) /\ rs \in SUBSET Starts
    BY <1>2
  <1> HIDE DEF rs, pending, remote
  <1>7. /\ remote \in SUBSET HostIds
        /\ \A s \in Requests : Request(s) \in remote => Request(s) \in host_open
        /\ HostInitializeId \in remote => HostInitializeId \in host_open
    BY <1>1, <1>5, HostOwesLess
  <1>8. QED
    BY <1>1, <1>4, <1>6, <1>7, InvSendLocal

LEMMA InvTimer ==
  ASSUME RelayInv, Timer
  PROVE  Parts' /\ GateStep /\ UNCHANGED stray
  <1> DEFINE expired == {r \in Waiting : pending_thread_metadata[r].expired}
  <1>1. /\ expired \in SUBSET Starts
        /\ \A r \in expired : pending_thread_metadata[r] # None
    BY DEF Waiting
  <1>2. SendLocalThreadStart(expired, pending_thread_metadata, host_open) /\ UNCHANGED hostFrame
    BY DEF Timer
  <1>3. pending_thread_metadata \in [Starts -> Pending \cup {None}] /\ host_open \in SUBSET HostIds
    BY DEF RelayInv, TypeOK
  <1> HIDE DEF expired
  <1>4. QED
    BY <1>1, <1>2, <1>3, InvSendLocal

LEMMA InvExpire ==
  ASSUME RelayInv, NEW r \in Starts, Expire(r)
  PROVE  Parts' /\ GateStep /\ UNCHANGED stray
  <1>1. UNCHANGED <<session, initialize_requested, phase, initializeVars, forwardVars, server_open, host_open,
                    local_starts, client_sent, inbox, stray>>
    BY DEF Expire, registrationVars, clientVars
  <1>2. \A s \in Starts :
          pending_thread_metadata'[s] # None =>
            /\ pending_thread_metadata[s] # None
            /\ pending_thread_metadata'[s].local_sent = pending_thread_metadata[s].local_sent
    BY DEF Expire, Waiting, RelayInv, TypeOK, Pending
  <1>3. RegistrationInv' /\ QueueInv'
    BY <1>1, QuietKeeps
  <1>4. StartInv'
    BY <1>1, <1>2 DEF RelayInv, StartInv, forwardVars
  <1>5. AnswerInv'
    BY <1>1, <1>2 DEF RelayInv, AnswerInv, forwardVars
  <1>6. GateStep
    BY <1>1 DEF GateStep, Holding, initializeVars, forwardVars
  <1>7. QED
    BY <1>1, <1>3, <1>4, <1>5, <1>6 DEF Parts
LEMMA InvHostReply ==
  ASSUME RelayInv, NEW id \in host_open, HostReply(id)
  PROVE  Parts' /\ (GateStep \/ \E r \in Requests : AnswerStep(r)) /\ UNCHANGED stray
  <1>1. TypeOK
    BY DEF RelayInv
  <1>2. UNCHANGED <<session, initialize_requested, phase, client_sent, local_starts, stray>>
    <2>1. id \in InternalIds \/ id \in {Request(r) : r \in Requests}
      BY <1>1 DEF TypeOK, HostIds
    <2>2. UNCHANGED stray
      BY <2>1, PassedIds DEF HostReply
    <2>3. QED
      BY <2>2 DEF HostReply, registrationVars
  <1> DEFINE b == [Now EXCEPT !.remote = Answered(id)]
  <1>3. EndOfIteration(b)
    BY DEF HostReply
  <1>4. /\ Quiet(b) /\ b.pending = pending_thread_metadata
        /\ b.server = server_open /\ b.remote = host_open \ {id}
    <2>1. b \in Branches
      BY <1>1, NowType DEF Branches, Answered, TypeOK
    <2>2. QED
      BY <2>1 DEF Quiet, Now, Answered
  <1> HIDE DEF b
  <1>5. PICK ok \in BOOLEAN :
          inbox' = [r \in Requests |-> IF id = Request(r) /\ host_message_allowed(id)
                                       THEN Append(inbox[r], Response(ok, FALSE, {}))
                                       ELSE inbox[r]]
    BY DEF HostReply
  <1>6. CASE id \in InternalIds
    <2>1. inbox' = [r \in Requests |-> inbox[r]]
      BY <1>5, <1>6, PassedIds
    <2>2. UNCHANGED inbox
      BY <1>1, <2>1 DEF TypeOK
    <2>3. CASE Requests = {}
      <3>1. RegistrationInv' /\ QueueInv' /\ UNCHANGED <<initializeVars, forwardVars>>
        BY <1>2, <1>3, <1>4, QuietIteration, QuietKeeps
      <3>2. StartInv' /\ AnswerInv'
        BY <2>3 DEF StartInv, AnswerInv, Starts
      <3>3. QED
        BY <1>2, <2>2, <3>1, <3>2 DEF Parts, GateStep, Holding, initializeVars, forwardVars
    <2>4. CASE Requests # {}
      <3>1. PICK r \in Requests : TRUE
        BY <2>4
      <3>2. Parts' /\ UNCHANGED <<initializeVars, forwardVars>>
        BY <1>2, <1>3, <1>4, <2>2, SettleKeeps
      <3>3. QED
        BY <1>2, <2>2, <3>2 DEF GateStep, Holding, initializeVars, forwardVars
    <2>5. QED
      BY <2>3, <2>4
  <1>7. CASE id \notin InternalIds
    <2>1. PICK r \in Requests : id = Request(r)
      BY <1>1, <1>7 DEF TypeOK, HostIds
    <2>2. \A s \in Requests : id = Request(s) <=> s = r
      BY <2>1, IdsDistinct
    <2>3. inbox' = [s \in Requests |-> IF s = r THEN Append(inbox[s], Response(ok, FALSE, {})) ELSE inbox[s]]
      BY <1>5, <2>1, <2>2, PassedIds
    <2>4. Response(ok, FALSE, {}) \in Responses
      BY DEF Response, Responses
    <2>5. inbox' = [inbox EXCEPT ![r] = Append(@, Response(ok, FALSE, {}))]
      BY <1>1, <2>3 DEF TypeOK
    <2>6. \E response \in Responses : Deliver(r, response)
      BY <2>4, <2>5 DEF Deliver
    <2>7. inbox[r] = <<>> /\ r \in Range(forwarded) /\ RequestRoute(r) = "Host" /\ Request(r) \notin server_open
      BY <2>1 DEF RelayInv, AnswerInv
    <2>8. r \notin Starts
      BY <2>7 DEF RequestRoute, Starts
    <2>9. Parts' /\ UNCHANGED <<initializeVars, forwardVars>>
      BY <1>2, <1>3, <1>4, <2>1, <2>6, <2>7, <2>8, SettleKeeps
    <2>10. AnswerStep(r)
      BY <1>2, <2>6, <2>7, <2>9 DEF AnswerStep, forwardVars
    <2>11. QED
      BY <1>2, <2>9, <2>10
  <1>8. QED
    BY <1>6, <1>7

-----------------------------------------------------------------------------
(* Every step *)

\* What each step keeps of the invariant, and what the abstract forwarder sees of it.
LEMMA EveryStep ==
  ASSUME RelayInv, Iteration \/ \E r \in Starts : Expire(r)
  PROVE  /\ Parts' /\ UNCHANGED stray
         /\ \/ /\ UNCHANGED <<initialize_requested, phase, initializeVars, forwardVars, client_sent, inbox>>
               /\ session' # "open"
            \/ GateStep
            \/ \E r \in Requests : AnswerStep(r)
            \/ /\ ~initialize_requested /\ initialize_requested' /\ Holding'
               /\ UNCHANGED <<session, client_sent, inbox, forwarded>>
            \/ \E r \in Requests :
                 /\ r \notin Range(client_sent) /\ client_sent' = Append(client_sent, r)
                 /\ forwarded' = IF Holding THEN forwarded ELSE client_sent'
                 /\ UNCHANGED <<session, initialize_requested, phase, initializeVars, inbox>>
  <1>1. CASE Fail
    <2>1. Parts'
      BY <1>1, InvFail
    <2>2. QED
      BY <1>1, <2>1 DEF Fail, registrationVars, clientVars
  <1>2. CASE Disconnect
    <2>1. Parts'
      BY <1>2, UnchangedKeeps DEF Disconnect, clientVars
    <2>2. QED
      BY <1>2, <2>1 DEF Disconnect, registrationVars, clientVars
  <1>3. CASE ClientInitialize
    <2>1. Parts' /\ UNCHANGED forwardVars /\ Holding'
      BY <1>3, InvClientInitialize
    <2>2. QED
      BY <1>3, <2>1 DEF ClientInitialize, clientVars, forwardVars
  <1>4. ASSUME NEW r \in Requests, ClientRequest(r), ~Fail
        PROVE  /\ Parts' /\ UNCHANGED stray
               /\ r \notin Range(client_sent) /\ client_sent' = Append(client_sent, r)
               /\ forwarded' = IF Holding THEN forwarded ELSE client_sent'
               /\ UNCHANGED <<session, initialize_requested, phase, initializeVars, inbox>>
    <2>1. UNCHANGED stray
      BY <1>4 DEF ClientRequest, clientVars
    <2>2. QED
      BY <1>4, <2>1, InvClientRequest
  <1>5. ASSUME NEW r \in Requests, ServerMessage(r), ~Fail
        PROVE  Parts' /\ (GateStep \/ AnswerStep(r)) /\ UNCHANGED stray
    BY <1>5, InvServerMessage
  <1>6. CASE ServerInitialize /\ ~Fail
    BY <1>6, InvServerInitialize DEF ServerInitialize, clientVars
  <1>7. CASE ServerEnvironmentAdd /\ ~Fail
    BY <1>7, InvServerEnvironmentAdd DEF ServerEnvironmentAdd, clientVars
  <1>8. CASE StatusReady
    BY <1>8, InvStatusReady DEF StatusReady, clientVars
  <1>9. CASE StatusNotReady /\ ~Fail
    BY <1>9, InvStatusNotReady DEF StatusNotReady, clientVars
  <1>10. CASE StatusError
    BY <1>1, <1>10 DEF StatusError
  <1>11. CASE HostLine /\ ~Fail
    <2>1. \/ HostInitialize
          \/ \E r \in Starts, sources \in Lists(MaxListed) : HostMetadataError(r) \/ HostMetadata(r, sources)
          \/ \E r \in Starts, i \in 1..MaxSources : HostReadSkipped(r, i) \/ HostReadFile(r, i)
          \/ \E id \in host_open : HostReply(id)
      <3>1. <<>> \in Lists(MaxListed)
        BY NoSources, LimitsAssumption
      <3>2. QED
        BY <1>11, <3>1 DEF HostLine
    <2>2. Parts' /\ (GateStep \/ \E r \in Requests : AnswerStep(r)) /\ UNCHANGED stray
      BY <1>11, <2>1, InvHostInitialize, InvHostMetadata, InvHostRead, InvHostReply
    <2>3. QED
      BY <2>2
  <1>12. CASE Timer \/ \E r \in Starts : Expire(r)
    BY <1>12, InvTimer, InvExpire
  <1>13. QED
    BY <1>1, <1>2, <1>3, <1>4, <1>5, <1>6, <1>7, <1>8, <1>9, <1>10, <1>11, <1>12 DEF Iteration

\* A step is an iteration that does something, the passing of three seconds,
\* or of no concern to the relay's own state.
LEMMA RelaySteps ==
  ASSUME [Next]_vars
  PROVE  \/ session = "open" /\ (Iteration \/ \E r \in Starts : Expire(r))
         \/ UNCHANGED relayVars
  BY DEF Next, Pause, Chatter, vars

LEMMA InvNext == RelayInv /\ [Next]_vars => RelayInv'
  <1> SUFFICES ASSUME RelayInv, [Next]_vars PROVE RelayInv'
    OBVIOUS
  <1>1. TypeOK'
    BY TypeNext DEF RelayInv
  <1>2. CASE Iteration \/ \E r \in Starts : Expire(r)
    <2>1. Parts' /\ UNCHANGED stray
      BY <1>2, EveryStep
    <2>2. QED
      BY <1>1, <2>1 DEF RelayInv, Parts
  <1>3. CASE UNCHANGED relayVars
    <2>1. Parts' /\ UNCHANGED stray
      BY <1>3, UnchangedKeeps DEF relayVars, clientVars
    <2>2. QED
      BY <1>1, <2>1 DEF RelayInv, Parts
  <1>4. QED
    BY <1>2, <1>3, RelaySteps

-----------------------------------------------------------------------------
(* The theorems *)

\* The inductive invariant, of relay_websocket as a whole.
THEOREM RelayInvariant == Spec => []RelayInv
  BY InvInit, InvNext, PTL DEF Spec

\* Whatever the interleaving of the handshakes, requests leave the queue of
\* relay_websocket in the order they came in, none lost and none repeated.
THEOREM RelayHeldInOrder == Spec => []HeldInOrder
  <1>1. RelayInv => HeldInOrder
    BY DEF RelayInv, QueueInv
  <1>2. QED
    BY <1>1, RelayInvariant, PTL

\* send_local_thread_start sends a thread/start to the local App Server once,
\* whichever of the host's answers and the timer come first or late.
THEOREM RelayStartedOnce == Spec => []StartedOnce
  <1>1. RelayInv => StartedOnce
    BY DEF RelayInv, StartInv, StartedOnce
  <1>2. QED
    BY <1>1, RelayInvariant, PTL

\* The requests relay_websocket holds stay within MAX_PENDING_CLIENT_BYTES,
\* and the count it keeps of them is right through both flushes.
THEOREM RelayQueueBounded == Spec => []QueueBounded
  <1>1. RelayInv => QueueBounded
    BY DEF RelayInv, QueueInv
  <1>2. QED
    BY <1>1, RelayInvariant, PTL

-----------------------------------------------------------------------------
(* Refinement *)

LEMMA PromiseInit == Init => Promise!Init
  BY DEF Init, Promise!Init

LEMMA PromiseNext == RelayInv /\ RelayInv' /\ [Next]_vars => [Promise!Next]_(Promise!vars)
  <1> SUFFICES ASSUME RelayInv, RelayInv', [Next]_vars PROVE [Promise!Next]_(Promise!vars)
    OBVIOUS
  <1>1. Holding => initialize_requested
    BY DEF Holding
  <1>2. CASE UNCHANGED relayVars
    BY <1>2 DEF relayVars, registrationVars, initializeVars, forwardVars, clientVars, Promise!vars, Holding
  <1>3. CASE session = "open" /\ (Iteration \/ \E r \in Starts : Expire(r))
    <2>1. session = "open" /\ UNCHANGED stray
      BY <1>3, EveryStep
    <2>2. CASE /\ UNCHANGED <<initialize_requested, phase, initializeVars, forwardVars, client_sent, inbox>>
               /\ session' # "open"
      BY <2>1, <2>2 DEF Promise!Next, Promise!End, Holding, initializeVars, forwardVars
    <2>3. CASE GateStep
      <3>1. CASE Holding' \/ ~Holding
        BY <1>1, <2>1, <2>3, <3>1 DEF GateStep, Holding, Promise!vars
      <3>2. CASE Holding /\ ~Holding'
        <4>1. forwarded' = client_sent
          <5>1. client_sent' = forwarded' \o pending_client_messages' /\ pending_client_messages' = <<>>
            BY <3>2 DEF RelayInv, QueueInv, HeldInOrder
          <5>2. forwarded' \in Seq(Requests)
            BY DEF RelayInv, TypeOK
          <5>3. QED
            BY <2>3, <5>1, <5>2 DEF GateStep
        <4>2. QED
          BY <1>1, <2>1, <2>3, <3>2, <4>1 DEF GateStep, Promise!Next, Promise!Open
      <3>3. QED
        BY <3>1, <3>2
    <2>4. ASSUME NEW r \in Requests, AnswerStep(r) PROVE Promise!Next
      <3>1. UNCHANGED <<session, initialize_requested, Holding, client_sent, forwarded>>
        BY <2>4 DEF AnswerStep, Holding, initializeVars
      <3>2. PICK response \in Responses : inbox' = [inbox EXCEPT ![r] = Append(@, response)]
        BY <2>4 DEF AnswerStep, Deliver
      <3>3. inbox[r] = <<>> /\ Len(inbox[r]) = 0 /\ Len(Append(inbox[r], response)) = 1
        BY <2>4 DEF AnswerStep
      <3>4. [s \in Requests |-> Len(inbox'[s])] = [[s \in Requests |-> Len(inbox[s])] EXCEPT ![r] = 1]
        BY <3>2, <3>3 DEF RelayInv, TypeOK
      <3>5. Promise!Answer(r)
        BY <2>1, <2>4, <3>1, <3>3, <3>4 DEF AnswerStep, Promise!Answer, Promise!Range, Range
      <3>6. QED
        BY <2>1, <3>5 DEF Promise!Next
    <2>5. CASE /\ ~initialize_requested /\ initialize_requested' /\ Holding'
               /\ UNCHANGED <<session, client_sent, inbox, forwarded>>
      BY <2>1, <2>5 DEF Promise!Next, Promise!Initialize
    <2>6. ASSUME NEW r \in Requests,
                 r \notin Range(client_sent), client_sent' = Append(client_sent, r),
                 forwarded' = IF Holding THEN forwarded ELSE client_sent',
                 UNCHANGED <<session, initialize_requested, phase, initializeVars, inbox>>
          PROVE  Promise!Next
      <3>1. UNCHANGED Holding
        BY <2>6 DEF Holding, initializeVars
      <3>2. Promise!Receive(r)
        BY <1>1, <2>1, <2>6, <3>1 DEF Promise!Receive, Promise!Range, Range
      <3>3. QED
        BY <2>1, <3>2 DEF Promise!Next
    <2>7. QED
      BY <1>3, <2>2, <2>3, <2>4, <2>5, <2>6, EveryStep
  <1>4. QED
    BY <1>2, <1>3, RelaySteps

\* relay_websocket implements the gated forwarder: order, gate, at most
\* one answer per request and none to what the client did not ask, for every
\* set of requests, files and limits.
THEOREM RelayImplements == Spec => ImplementsGatedForwarder
  <1>1. Spec => []RelayInv
    BY RelayInvariant
  <1>2. QED
    BY <1>1, PromiseInit, PromiseNext, PTL DEF Spec, ImplementsGatedForwarder, Promise!Spec
-----------------------------------------------------------------------------
(* Instruction files *)

\* What an entry knows of the files, given whether the host still owes its
\* shadow and the copies of the start that were sent.
Sound(entry, shadow, starts) ==
  entry # None =>
    /\ shadow => /\ entry.instruction_paths = <<>>
                 /\ entry.pending_instruction_reads = {}
                 /\ entry.instruction_contents = {}
    /\ entry.local_sent /\ entry.instruction_paths # <<>> /\ ~entry.expired
       => entry.pending_instruction_reads = {} /\ starts = <<Injected(entry)>>

\* Until the shadow is answered nothing is known of the files; then each is
\* being read, has been read or was skipped, and none is being read once the
\* start is out.
SourcesInv ==
  \A r \in Starts : Sound(pending_thread_metadata[r], Metadata(r) \in host_open, local_starts[r])

\* After an iteration an entry is as the branch left it, or new.
LEMMA EntriesAfter ==
  ASSUME NEW b, EndOfIteration(b) \/ \E rs : Forward(rs, b)
  PROVE  \A r \in Starts :
           /\ Request(r) \in server_open' => Request(r) \in b.server
           /\ \/ pending_thread_metadata'[r] = NewPending
              \/ /\ pending_thread_metadata'[r] = b.pending[r]
                 /\ Metadata(r) \in host_open' => Metadata(r) \in b.remote
  <1>1. PICK rs : Forward(rs, b)
    BY DEF EndOfIteration
  <1>2. SUFFICES ASSUME NEW r \in Starts
                 PROVE  /\ Request(r) \in server_open' => Request(r) \in b.server
                        /\ \/ pending_thread_metadata'[r] = NewPending
                           \/ /\ pending_thread_metadata'[r] = b.pending[r]
                              /\ Metadata(r) \in host_open' => Metadata(r) \in b.remote
    OBVIOUS
  <1>3. r \notin Routed(Range(rs), "Local")
    BY DEF Routed, RequestRoute, Starts
  <1>4. Request(r) \in server_open' => Request(r) \in b.server
    BY <1>1, <1>3, IdsDistinct DEF Forward
  <1>5. \A s : Metadata(r) = Metadata(s) => r = s
    BY DEF Metadata
  <1>6. r \notin Range(rs) => (Metadata(r) \in host_open' => Metadata(r) \in b.remote)
    BY <1>1, <1>5, IdsDistinct DEF Forward, Routed
  <1>7. pending_thread_metadata'[r] = IF r \in Range(rs) THEN NewPending ELSE b.pending[r]
    BY <1>1 DEF Forward
  <1>8. QED
    BY <1>4, <1>6, <1>7

\* It is enough to look at what the branch leaves.
LEMMA SoundAfter ==
  ASSUME NEW b, EndOfIteration(b) \/ \E rs : Forward(rs, b),
         \A r \in Starts : Sound(b.pending[r], Metadata(r) \in b.remote, local_starts'[r])
  PROVE  SourcesInv'
  <1>1. SUFFICES ASSUME NEW r \in Starts
                 PROVE  Sound(pending_thread_metadata'[r], Metadata(r) \in host_open', local_starts'[r])
    BY DEF SourcesInv
  <1>2. CASE pending_thread_metadata'[r] = NewPending
    BY <1>2 DEF Sound, NewPending
  <1>3. CASE /\ pending_thread_metadata'[r] = b.pending[r]
             /\ Metadata(r) \in host_open' => Metadata(r) \in b.remote
    <2>1. Sound(b.pending[r], Metadata(r) \in b.remote, local_starts'[r])
      OBVIOUS
    <2>2. QED
      BY <1>3, <2>1 DEF Sound
  <1>4. QED
    BY <1>2, <1>3, EntriesAfter

\* A branch that leaves the entries alone, or drops some.
LEMMA SoundUnchanged ==
  ASSUME SourcesInv, NEW b, EndOfIteration(b) \/ \E rs : Forward(rs, b), UNCHANGED local_starts,
         \A r \in Starts : /\ b.pending[r] \in {pending_thread_metadata[r], None}
                           /\ Metadata(r) \in b.remote => Metadata(r) \in host_open
  PROVE  SourcesInv'
  <1>1. \A r \in Starts : Sound(b.pending[r], Metadata(r) \in b.remote, local_starts'[r])
    BY DEF SourcesInv, Sound
  <1>2. QED
    BY <1>1, SoundAfter

\* Starts go out, each with what was read, none before its reads are over or
\* its time is.
LEMMA SoundSend ==
  ASSUME TypeOK, NEW rs \in SUBSET Starts,
         NEW pending \in [Starts -> Pending \cup {None}], NEW remote,
         SendLocalThreadStart(rs, pending, remote),
         \A r \in Starts : Sound(pending[r], Metadata(r) \in remote, local_starts[r]),
         \A r \in rs : /\ pending[r] # None
                       /\ ~pending[r].local_sent =>
                            /\ local_starts[r] = <<>>
                            /\ \/ pending[r].pending_instruction_reads = {}
                               \/ pending[r].instruction_paths = <<>>
                               \/ pending[r].expired
  PROVE  SourcesInv'
  <1> DEFINE due == {r \in rs : ~pending[r].local_sent}
             sent == [r \in Starts |-> IF r \in due THEN [pending[r] EXCEPT !.local_sent = TRUE]
                                                    ELSE pending[r]]
             b == [Now EXCEPT !.pending = sent,
                              !.server = @ \cup {Request(r) : r \in due},
                              !.remote = remote]
  <1>1. EndOfIteration(b) /\ b.pending = sent /\ b.remote = remote
    BY DEF SendLocalThreadStart, Now
  <1>2. \A r \in Starts : Sound(sent[r], Metadata(r) \in remote, local_starts'[r])
    <2>1. SUFFICES ASSUME NEW r \in Starts
                   PROVE  Sound(sent[r], Metadata(r) \in remote, local_starts'[r])
      OBVIOUS
    <2>2. CASE r \in due
      <3>1. pending[r] \in Pending /\ local_starts[r] = <<>>
        BY <2>2
      <3>2. Sound(pending[r], Metadata(r) \in remote, local_starts[r]) /\ pending[r] # None
        BY <2>2
      <3> DEFINE sections == Injected(pending[r])
      <3>3. local_starts'[r] = <<sections>>
        <4>1. local_starts'[r] = Append(local_starts[r], sections)
          BY <2>2 DEF SendLocalThreadStart
        <4> HIDE DEF sections
        <4>2. Append(<<>>, sections) = <<sections>>
          OBVIOUS
        <4>3. QED
          BY <3>1, <4>1, <4>2
      <3>4. /\ sent[r].instruction_paths = pending[r].instruction_paths
            /\ sent[r].pending_instruction_reads = pending[r].pending_instruction_reads
            /\ sent[r].instruction_contents = pending[r].instruction_contents
            /\ sent[r].expired = pending[r].expired
        BY <2>2, <3>1 DEF Pending
      <3>5. Injected(sent[r]) = Injected(pending[r])
        BY <3>4 DEF Injected
      <3>6. \/ pending[r].pending_instruction_reads = {}
            \/ pending[r].instruction_paths = <<>>
            \/ pending[r].expired
        BY <2>2
      <3> HIDE DEF sent, due
      <3>7. QED
        BY <3>2, <3>3, <3>4, <3>5, <3>6 DEF Sound
    <2>3. CASE r \notin due
      BY <2>3 DEF SendLocalThreadStart
    <2>4. QED
      BY <2>2, <2>3
  <1> HIDE DEF b, sent
  <1>3. QED
    BY <1>1, <1>2, SoundAfter
-----------------------------------------------------------------------------
(* Each kind of step *)

\* A line from the host about the shadow of r.
LEMMA SoundMetadata ==
  ASSUME RelayInv, SourcesInv, NEW r \in Starts, NEW sources \in Lists(MaxListed),
         HostMetadataError(r) \/ HostMetadata(r, sources)
  PROVE  SourcesInv'
  <1> DEFINE entry == pending_thread_metadata[r]
             answered == [entry EXCEPT !.host_response = TRUE]
             taken == Taken(sources)
             listed == [answered EXCEPT !.instruction_paths = taken, !.pending_instruction_reads = DOMAIN taken]
  <1>1. /\ TypeOK /\ entry # None /\ entry \in Pending /\ Metadata(r) \in host_open
        /\ ~entry.local_sent => local_starts[r] = <<>>
    BY DEF RelayInv, StartInv, TypeOK, HostMetadataError, HostMetadata
  <1>2. /\ entry.instruction_paths = <<>> /\ entry.pending_instruction_reads = {} /\ entry.instruction_contents = {}
    BY <1>1 DEF SourcesInv, Sound
  <1>3. \A s \in Starts : s # r => Metadata(s) # Metadata(r)
    BY DEF Metadata
  <1>4. CASE HostMetadataError(r)
    <2>1. SendLocalThreadStart({r}, pending_thread_metadata, Answered(Metadata(r)))
      BY <1>4 DEF HostMetadataError
    <2>2. \A s \in Starts : Sound(pending_thread_metadata[s], Metadata(s) \in Answered(Metadata(r)), local_starts[s])
      BY DEF SourcesInv, Sound, Answered
    <2>3. pending_thread_metadata \in [Starts -> Pending \cup {None}]
      BY <1>1 DEF TypeOK
    <2>4. QED
      BY <1>1, <1>2, <2>1, <2>2, <2>3, SoundSend
  <1>5. CASE /\ EndOfIteration([Now EXCEPT !.pending[r] = answered, !.remote = Answered(Metadata(r))])
             /\ UNCHANGED local_starts
    <2> DEFINE b == [Now EXCEPT !.pending[r] = answered, !.remote = Answered(Metadata(r))]
    <2>1. b.pending = [pending_thread_metadata EXCEPT ![r] = answered] /\ b.remote = host_open \ {Metadata(r)}
      BY DEF Now, Answered
    <2>2. /\ answered.instruction_paths = <<>> /\ answered.pending_instruction_reads = {}
          /\ answered.instruction_contents = {}
      BY <1>1, <1>2 DEF Pending
    <2>3. EndOfIteration(b)
      BY <1>5
    <2> HIDE DEF b, answered
    <2>4. \A s \in Starts : Sound(b.pending[s], Metadata(s) \in b.remote, local_starts'[s])
      <3>1. Sound(b.pending[r], Metadata(r) \in b.remote, local_starts'[r])
        BY <1>1, <2>1, <2>2 DEF Sound, TypeOK
      <3>2. \A s \in Starts \ {r} : Sound(b.pending[s], Metadata(s) \in b.remote, local_starts'[s])
        BY <1>1, <1>5, <2>1 DEF Sound, SourcesInv, TypeOK
      <3>3. QED
        BY <3>1, <3>2
    <2>5. QED
      BY <2>3, <2>4, SoundAfter
  <1>6. CASE /\ ~entry.local_sent
             /\ SendLocalThreadStart(IF taken = <<>> THEN {r} ELSE {},
                  [pending_thread_metadata EXCEPT ![r] = listed],
                  Answered(Metadata(r)) \cup {Read(r, i) : i \in DOMAIN taken})
    <2> DEFINE remote == Answered(Metadata(r)) \cup {Read(r, i) : i \in DOMAIN taken}
               rs == IF taken = <<>> THEN {r} ELSE {}
               pending == [pending_thread_metadata EXCEPT ![r] = listed]
    <2>1. taken \in Lists(MaxSources) /\ DOMAIN taken \subseteq 1..MaxSources
      BY TakenType
    <2> HIDE DEF taken
    <2>2. /\ listed \in Pending /\ listed.local_sent = FALSE
          /\ listed.instruction_paths = taken /\ listed.instruction_contents = {}
      BY <1>1, <1>2, <1>6, <2>1 DEF Pending
    <2>3. SendLocalThreadStart(rs, pending, remote) /\ rs \in SUBSET Starts
      BY <1>6
    <2>4. Metadata(r) \notin remote /\ \A s \in Starts : Metadata(s) \in remote => Metadata(s) \in host_open
      BY DEF Metadata, Read, Answered
    <2> HIDE DEF listed
    <2>5. /\ pending \in [Starts -> Pending \cup {None}] /\ pending[r] = listed
          /\ \A s \in Starts \ {r} : pending[s] = pending_thread_metadata[s]
      BY <1>1, <2>2 DEF TypeOK
    <2>6. taken # <<>> => rs = {}
      OBVIOUS
    <2>7. listed # None
      BY <2>2, NoneAssumption
    <2> HIDE DEF pending, remote
    <2>8. \A s \in Starts : Sound(pending[s], Metadata(s) \in remote, local_starts[s])
      <3>1. Sound(pending[r], Metadata(r) \in remote, local_starts[r])
        BY <2>2, <2>4, <2>5 DEF Sound
      <3>2. \A s \in Starts \ {r} : Sound(pending[s], Metadata(s) \in remote, local_starts[s])
        BY <2>4, <2>5 DEF Sound, SourcesInv
      <3>3. QED
        BY <3>1, <3>2
    <2>9. \A s \in rs : /\ pending[s] # None
                        /\ local_starts[s] = <<>>
                        /\ pending[s].instruction_paths = <<>>
      BY <1>1, <1>6, <2>2, <2>5, <2>6, <2>7
    <2> HIDE DEF rs
    <2>10. QED
      BY <1>1, <2>3, <2>5, <2>8, <2>9, SoundSend
  <1>7. QED
    BY <1>4, <1>5, <1>6 DEF HostMetadata, Taken

\* An entry with a read under way has sources.
LEMMA EntryWithReads ==
  ASSUME NEW entry \in Pending, NEW i \in entry.pending_instruction_reads
  PROVE  entry.instruction_paths # <<>>
  <1>1. i \in DOMAIN entry.instruction_paths /\ DOMAIN <<>> = {}
    BY AwaitedSource
  <1>2. QED
    BY <1>1

\* The answer to a read.
LEMMA SoundRead ==
  ASSUME RelayInv, SourcesInv, NEW r \in Starts, NEW i \in 1..MaxSources,
         HostReadSkipped(r, i) \/ HostReadFile(r, i), ~Fail
  PROVE  SourcesInv'
  <1> DEFINE old == pending_thread_metadata[r]
             p == old.instruction_paths[i]
             skipped == [old EXCEPT !.pending_instruction_reads = @ \ {i}]
             filed == [old EXCEPT !.pending_instruction_reads = @ \ {i}, !.instruction_contents = @ \cup {p}]
  <1>1. /\ TypeOK /\ old # None /\ old \in Pending /\ i \in old.pending_instruction_reads
        /\ ~old.local_sent => local_starts[r] = <<>>
    BY DEF RelayInv, StartInv, TypeOK, HostReadSkipped, HostReadFile, AwaitsRead
  <1>2. PICK entry \in {skipped, filed} :
          SendLocalThreadStart(IF entry.pending_instruction_reads = {} THEN {r} ELSE {},
                               [pending_thread_metadata EXCEPT ![r] = entry], Answered(Read(r, i)))
    BY DEF HostReadSkipped, HostReadFile
  <1>3. /\ entry \in Pending /\ entry.local_sent = old.local_sent /\ entry.expired = old.expired
        /\ entry.instruction_paths = old.instruction_paths
        /\ entry.pending_instruction_reads = old.pending_instruction_reads \ {i}
    <2>1. p \in Paths
      BY <1>1, AwaitedSource
    <2>2. CASE entry = skipped
      BY <1>1, <2>2 DEF Pending
    <2>3. CASE entry = filed
      <3> HIDE DEF p
      <3>1. QED
        BY <1>1, <2>1, <2>3 DEF Pending
    <2>4. QED
      BY <1>2, <2>2, <2>3
  <1> DEFINE rs == IF entry.pending_instruction_reads = {} THEN {r} ELSE {}
             pending == [pending_thread_metadata EXCEPT ![r] = entry]
             remote == Answered(Read(r, i))
  <1>4. SendLocalThreadStart(rs, pending, remote) /\ rs \in SUBSET Starts
    BY <1>2
  <1>5. \A s \in Starts : Metadata(s) \in remote => Metadata(s) \in host_open
    BY DEF Answered
  <1>6. /\ pending \in [Starts -> Pending \cup {None}] /\ pending[r] = entry
        /\ \A s \in Starts \ {r} : pending[s] = pending_thread_metadata[s]
    BY <1>1, <1>3 DEF TypeOK
  <1>7. entry # None /\ (entry.pending_instruction_reads # {} => rs = {})
    BY <1>3, NoneAssumption
  <1> HIDE DEF pending, remote
  <1>8. \A s \in Starts : Sound(pending[s], Metadata(s) \in remote, local_starts[s])
    <2>1. Sound(old, Metadata(r) \in host_open, local_starts[r])
      BY DEF SourcesInv
    <2>2. Sound(pending[r], Metadata(r) \in remote, local_starts[r])
      <3>1. old.instruction_paths # <<>> /\ (old.local_sent => old.expired)
        BY <1>1, <2>1, EntryWithReads DEF Sound
      <3>2. Metadata(r) \notin host_open
        BY <1>1, <2>1, <3>1 DEF Sound
      <3>3. QED
        BY <1>1, <1>3, <1>5, <1>6, <3>1, <3>2 DEF Sound
    <2>3. \A s \in Starts \ {r} : Sound(pending[s], Metadata(s) \in remote, local_starts[s])
      BY <1>5, <1>6 DEF Sound, SourcesInv
    <2>4. QED
      BY <2>2, <2>3
  <1>9. \A s \in rs : /\ pending[s] # None
                      /\ ~pending[s].local_sent => local_starts[s] = <<>>
                      /\ pending[s].pending_instruction_reads = {}
    BY <1>1, <1>3, <1>6, <1>7
  <1> HIDE DEF rs
  <1>10. QED
    BY <1>1, <1>4, <1>6, <1>8, <1>9, SoundSend

\* The timer branch.
LEMMA SoundTimer ==
  ASSUME RelayInv, SourcesInv, Timer
  PROVE  SourcesInv'
  <1> DEFINE expired == {r \in Waiting : pending_thread_metadata[r].expired}
  <1>1. /\ expired \in SUBSET Starts
        /\ \A r \in expired : /\ pending_thread_metadata[r] # None
                              /\ pending_thread_metadata[r].expired
                              /\ local_starts[r] = <<>>
    BY DEF Waiting, RelayInv, StartInv
  <1>2. SendLocalThreadStart(expired, pending_thread_metadata, host_open)
    BY DEF Timer
  <1>3. pending_thread_metadata \in [Starts -> Pending \cup {None}] /\ TypeOK
    BY DEF RelayInv, TypeOK
  <1> HIDE DEF expired
  <1>4. QED
    BY <1>1, <1>2, <1>3, SoundSend DEF SourcesInv

\* Time passes for one entry.
LEMMA SoundExpire ==
  ASSUME RelayInv, SourcesInv, NEW r \in Starts, Expire(r)
  PROVE  SourcesInv'
  <1>1. /\ pending_thread_metadata' = [pending_thread_metadata EXCEPT ![r].expired = TRUE]
        /\ UNCHANGED <<host_open, local_starts>>
        /\ pending_thread_metadata[r] \in Pending
        /\ pending_thread_metadata \in [Starts -> Pending \cup {None}]
        /\ pending_thread_metadata[r] # None
    BY DEF Expire, Waiting, RelayInv, TypeOK
  <1>2. /\ pending_thread_metadata'[r] = [pending_thread_metadata[r] EXCEPT !.expired = TRUE]
        /\ \A s \in Starts \ {r} : pending_thread_metadata'[s] = pending_thread_metadata[s]
    BY <1>1
  <1> DEFINE old == pending_thread_metadata[r]
             new == [old EXCEPT !.expired = TRUE]
  <1>3. /\ new.expired /\ new.instruction_paths = old.instruction_paths
        /\ new.pending_instruction_reads = old.pending_instruction_reads
        /\ new.instruction_contents = old.instruction_contents
    BY <1>1 DEF Pending
  <1>4. Sound(old, Metadata(r) \in host_open, local_starts[r]) /\ old # None
    BY <1>1 DEF SourcesInv
  <1> HIDE DEF old, new
  <1>5. Sound(new, Metadata(r) \in host_open, local_starts[r])
    <2>1. Injected(new) = Injected(old)
      BY <1>3 DEF Injected
    <2>2. QED
      BY <1>3, <1>4, <2>1 DEF Sound
  <1> USE DEF old, new
  <1>6. QED
    BY <1>1, <1>2, <1>5 DEF SourcesInv

\* A branch that sends no start, adds nothing to an entry and asks the host for
\* no shadow.
Undisturbed(b) ==
  /\ EndOfIteration(b) \/ \E rs : Forward(rs, b)
  /\ UNCHANGED local_starts
  /\ \A r \in Starts : /\ b.pending[r] \in {pending_thread_metadata[r], None}
                       /\ Metadata(r) \in b.remote => Metadata(r) \in host_open

\* What a step does with the entries of the started threads: nothing, such a
\* branch, or one of the steps that are about them.
StepKinds ==
  \/ UNCHANGED <<pending_thread_metadata, host_open, local_starts>>
  \/ \E b : Undisturbed(b)
  \/ /\ ~Fail
     /\ \E r \in Starts :
          \/ HostMetadataError(r) \/ \E sources \in Lists(MaxListed) : HostMetadata(r, sources)
          \/ \E i \in 1..MaxSources : HostReadSkipped(r, i) \/ HostReadFile(r, i)
  \/ Timer \/ \E r \in Starts : Expire(r)

LEMMA StepKind ==
  ASSUME RelayInv, [Next]_vars
  PROVE  StepKinds
  <1> DEFINE Same == UNCHANGED <<pending_thread_metadata, host_open, local_starts>>
  <1>1. ASSUME Same
        PROVE  StepKinds
    BY <1>1 DEF StepKinds
  <1>2. CASE Fail \/ Disconnect \/ StatusError \/ ServerEnvironmentAdd \/ StatusNotReady
    BY <1>1, <1>2 DEF Fail, Disconnect, StatusError, ServerEnvironmentAdd, StatusNotReady, peerVars
  <1>3. CASE ClientInitialize
    <2> DEFINE b == [Now EXCEPT !.server = @ \cup {InitializeId}, !.remote = @ \cup {HostInitializeId}]
    <2>1. EndOfIteration(b) /\ UNCHANGED local_starts
      BY <1>3 DEF ClientInitialize
    <2>2. b.pending = pending_thread_metadata /\ b.remote = host_open \cup {HostInitializeId}
      BY DEF Now
    <2> HIDE DEF b
    <2>3. QED
      BY <2>1, <2>2, IdsDistinct DEF StepKinds, Undisturbed
  <1>4. ASSUME NEW r \in Requests, ClientRequest(r), ~Fail
        PROVE  StepKinds
    <2> DEFINE b == IF Holding THEN Held(r) ELSE [Now EXCEPT !.direct = <<r>>]
    <2>1. EndOfIteration(b) /\ UNCHANGED local_starts
      BY <1>4 DEF ClientRequest
    <2>2. b.pending = pending_thread_metadata /\ b.remote = host_open
      BY DEF Now, Held
    <2> HIDE DEF b
    <2>3. QED
      BY <2>1, <2>2 DEF StepKinds, Undisturbed
  <1>5. ASSUME NEW r \in Requests, ServerMessage(r), ~Fail
        PROVE  StepKinds
    <2>1. PICK kind \in {"result", "error", "request"}, listed \in SUBSET Listable :
            ServerThreadStart(r, kind) \/ ServerThreadList(r, kind, listed) \/ ServerPassedOn(r, kind, listed)
      BY <1>5 DEF ServerMessage
    <2>2. CASE ServerThreadStart(r, kind)
      <3> DEFINE b == [Now EXCEPT !.pending[r] = None, !.server = ServerOpenAfter(r, kind)]
      <3>1. EndOfIteration(b) /\ UNCHANGED local_starts
        BY <1>5, <2>2 DEF ServerThreadStart
      <3>2. b.pending = [pending_thread_metadata EXCEPT ![r] = None] /\ b.remote = host_open
        BY DEF Now
      <3>3. \A s \in Starts : b.pending[s] \in {pending_thread_metadata[s], None}
        BY <3>2 DEF RelayInv, TypeOK
      <3> HIDE DEF b
      <3>4. QED
        BY <3>1, <3>2, <3>3 DEF StepKinds, Undisturbed
    <2>3. CASE ServerThreadList(r, kind, listed) \/ ServerPassedOn(r, kind, listed)
      <3> DEFINE b == [Now EXCEPT !.server = ServerOpenAfter(r, kind)]
      <3>1. EndOfIteration(b) /\ UNCHANGED local_starts
        BY <2>3 DEF ServerThreadList, ServerPassedOn
      <3>2. b.pending = pending_thread_metadata /\ b.remote = host_open
        BY DEF Now
      <3> HIDE DEF b
      <3>3. QED
        BY <3>1, <3>2 DEF StepKinds, Undisturbed
    <2>4. QED
      BY <2>1, <2>2, <2>3
  <1>6. CASE ServerInitialize /\ ~Fail
    <2> DEFINE b == [Now EXCEPT !.local = TRUE, !.server = (@ \ {InitializeId}) \cup {AddId}]
    <2>1. EndOfIteration(b) /\ UNCHANGED local_starts
      BY <1>6 DEF ServerInitialize
    <2>2. b.pending = pending_thread_metadata /\ b.remote = host_open
      BY DEF Now
    <2> HIDE DEF b
    <2>3. QED
      BY <2>1, <2>2 DEF StepKinds, Undisturbed
  <1>7. CASE StatusReady
    <2> DEFINE b == [Now EXCEPT !.server = @ \ {StatusId}]
    <2>1. (\E rs : Forward(rs, b)) /\ UNCHANGED local_starts
      BY <1>7 DEF StatusReady
    <2>2. b.pending = pending_thread_metadata /\ b.remote = host_open
      BY DEF Now
    <2> HIDE DEF b
    <2>3. QED
      BY <2>1, <2>2 DEF StepKinds, Undisturbed
  <1>8. CASE HostInitialize /\ ~Fail
    <2> DEFINE b == [Now EXCEPT !.host = TRUE, !.remote = Answered(HostInitializeId)]
    <2>1. EndOfIteration(b) /\ UNCHANGED local_starts
      BY <1>8 DEF HostInitialize
    <2>2. b.pending = pending_thread_metadata /\ b.remote \subseteq host_open
      BY DEF Now, Answered
    <2> HIDE DEF b
    <2>3. QED
      BY <2>1, <2>2 DEF StepKinds, Undisturbed
  <1>9. ASSUME NEW id \in host_open, HostReply(id)
        PROVE  StepKinds
    <2> DEFINE b == [Now EXCEPT !.remote = Answered(id)]
    <2>1. EndOfIteration(b) /\ UNCHANGED local_starts
      BY <1>9 DEF HostReply
    <2>2. b.pending = pending_thread_metadata /\ b.remote \subseteq host_open
      BY DEF Now, Answered
    <2> HIDE DEF b
    <2>3. QED
      BY <2>1, <2>2 DEF StepKinds, Undisturbed
  <1>10. CASE HostLine /\ ~Fail
    BY <1>8, <1>9, <1>10 DEF HostLine, StepKinds
  <1>11. CASE Timer \/ \E r \in Starts : Expire(r)
    BY <1>11 DEF StepKinds
  <1>12. QED
    <2>1. CASE UNCHANGED relayVars
      BY <1>1, <2>1 DEF relayVars, peerVars
    <2>2. CASE Iteration \/ \E r \in Starts : Expire(r)
      BY <1>2, <1>3, <1>4, <1>5, <1>6, <1>7, <1>10, <1>11, <2>2 DEF Iteration
    <2>3. QED
      BY <2>1, <2>2, RelaySteps

LEMMA SoundStep ==
  ASSUME RelayInv, SourcesInv, [Next]_vars
  PROVE  SourcesInv'
  <1>1. StepKinds
    BY StepKind
  <1>2. CASE UNCHANGED <<pending_thread_metadata, host_open, local_starts>>
    BY <1>2 DEF SourcesInv
  <1>3. CASE \E b : Undisturbed(b)
    BY <1>3, SoundUnchanged DEF Undisturbed
  <1>4. <<>> \in Lists(MaxListed)
    BY NoSources, LimitsAssumption
  <1>5. ASSUME NEW r \in Starts, HostMetadataError(r) \/ \E sources \in Lists(MaxListed) : HostMetadata(r, sources)
        PROVE  SourcesInv'
    BY <1>4, <1>5, SoundMetadata
  <1>6. QED
    BY <1>1, <1>2, <1>3, <1>5, SoundRead, SoundTimer, SoundExpire DEF StepKinds

\* A thread/start with host metadata that went out in time carries every
\* listed source that was read, as often as it is listed, and none is still
\* being read, however the answers of the host, the timer and other requests interleave
\* (handle_host_line, send_local_thread_start).
THEOREM RelayInstructionsComplete == Spec => []InstructionsComplete
  <1>1. Init => SourcesInv
    BY DEF Init, SourcesInv, Sound
  <1>2. RelayInv /\ SourcesInv /\ [Next]_vars => SourcesInv'
    BY SoundStep
  <1>3. SourcesInv => InstructionsComplete
    BY DEF SourcesInv, Sound, InstructionsComplete
  <1>4. QED
    BY <1>1, <1>2, <1>3, RelayInvariant, PTL DEF Spec
-----------------------------------------------------------------------------
(* The limits on instruction files *)

\* Files that may be kept together, and what may go out with a start.
Fitting(files) ==
  /\ \A p \in files : FileBytes[p] <= MaxSourceBytes
  /\ TotalBytes(files) <= MaxTotalBytes

Within(sections) == Cardinality(DOMAIN sections) <= MaxSources /\ Fitting(Range(sections))

\* What an entry keeps: only contents of listed sources, and only such as fit.
Frugal(entry) ==
  entry # None =>
    /\ entry.instruction_contents \subseteq Range(entry.instruction_paths)
    /\ Fitting(entry.instruction_contents)

BudgetInv ==
  /\ \A r \in Starts : Frugal(pending_thread_metadata[r])
  /\ \A r \in Starts : \A sections \in Range(local_starts[r]) : Within(sections)

LEMMA NothingFits == Fitting({})
  <1>1. TotalBytes({}) = 0
    BY FS_EmptySet, RelaySums, TotalStep
  <1>2. QED
    BY <1>1, LimitsAssumption DEF Fitting

LEMMA NewFrugal == Frugal(NewPending)
  BY NothingFits DEF Frugal, NewPending

\* What is injected for an entry: the files it keeps, in no more sections than
\* are read.
LEMMA InjectedFits ==
  ASSUME NEW entry \in Pending, entry # None, Frugal(entry)
  PROVE  Within(Injected(entry))
  <1> DEFINE sections == Injected(entry)
             paths == entry.instruction_paths
             contents == entry.instruction_contents
  <1>1. sections = [i \in {j \in DOMAIN paths : paths[j] \in contents} |-> paths[i]]
    BY DEF Injected
  <1>2. DOMAIN sections \subseteq 1..MaxSources
    BY InjectedType
  <1>3. contents \subseteq Range(paths) /\ Fitting(contents)
    BY DEF Frugal
  <1> HIDE DEF sections, paths, contents
  <1>4. Range(sections) = contents
    BY <1>1, <1>3 DEF Range
  <1>5. Cardinality(DOMAIN sections) <= MaxSources
    <2>1. IsFiniteSet(1..MaxSources) /\ Cardinality(1..MaxSources) = MaxSources
      BY FS_Interval, LimitsAssumption
    <2>2. QED
      BY <1>2, <2>1, FS_Subset
  <1>6. Within(sections)
    BY <1>3, <1>4, <1>5 DEF Within
  <1>7. QED
    BY <1>6 DEF sections

LEMMA BudgetAfter ==
  ASSUME NEW b, EndOfIteration(b) \/ \E rs : Forward(rs, b),
         \A r \in Starts : Frugal(b.pending[r]),
         \A r \in Starts : \A sections \in Range(local_starts'[r]) : Within(sections)
  PROVE  BudgetInv'
  <1>1. ASSUME NEW r \in Starts
        PROVE  Frugal(pending_thread_metadata'[r])
    BY <1>1, EntriesAfter, NewFrugal
  <1>2. QED
    BY <1>1 DEF BudgetInv, Frugal, Within, Range

\* A branch that leaves the entries alone, or drops some.
LEMMA BudgetUnchanged ==
  ASSUME BudgetInv, NEW b, EndOfIteration(b) \/ \E rs : Forward(rs, b), UNCHANGED local_starts,
         \A r \in Starts : b.pending[r] \in {pending_thread_metadata[r], None}
  PROVE  BudgetInv'
  <1>1. \A r \in Starts : Frugal(b.pending[r])
    BY DEF BudgetInv, Frugal
  <1>2. \A r \in Starts : \A sections \in Range(local_starts'[r]) : Within(sections)
    BY DEF BudgetInv
  <1>3. QED
    BY <1>1, <1>2, BudgetAfter

\* What goes out with a start is what its entry keeps.
LEMMA BudgetSend ==
  ASSUME TypeOK, BudgetInv, NEW rs \in SUBSET Starts,
         NEW pending \in [Starts -> Pending \cup {None}], NEW remote,
         SendLocalThreadStart(rs, pending, remote),
         \A r \in Starts : Frugal(pending[r]),
         \A r \in rs : pending[r] # None
  PROVE  BudgetInv'
  <1> DEFINE due == {r \in rs : ~pending[r].local_sent}
             sent == [r \in Starts |-> IF r \in due THEN [pending[r] EXCEPT !.local_sent = TRUE]
                                                    ELSE pending[r]]
             b == [Now EXCEPT !.pending = sent,
                              !.server = @ \cup {Request(r) : r \in due},
                              !.remote = remote]
  <1>1. EndOfIteration(b) /\ b.pending = sent
    BY DEF SendLocalThreadStart, Now
  <1>2. ASSUME NEW r \in Starts
        PROVE  Frugal(sent[r])
    <2>1. CASE r \in due
      <3>1. pending[r] \in Pending /\ pending[r] # None /\ Frugal(pending[r])
        BY <2>1
      <3>2. /\ sent[r].instruction_paths = pending[r].instruction_paths
            /\ sent[r].instruction_contents = pending[r].instruction_contents
        BY <2>1, <3>1 DEF Pending
      <3> HIDE DEF sent, due
      <3>3. QED
        BY <3>1, <3>2 DEF Frugal
    <2>2. QED
      BY <2>1
  <1>3. ASSUME NEW r \in Starts, NEW sections \in Range(local_starts'[r])
        PROVE  Within(sections)
    <2>1. local_starts[r] \in Seq(Copies)
      BY DEF TypeOK
    <2>2. CASE r \in due
      <3> DEFINE injected == Injected(pending[r])
      <3>1. local_starts'[r] = Append(local_starts[r], injected)
        BY <2>2 DEF SendLocalThreadStart
      <3>2. pending[r] \in Pending /\ pending[r] # None /\ Frugal(pending[r])
        BY <2>2
      <3>3. Within(injected) /\ injected \in Copies
        BY <3>2, InjectedFits, InjectedType
      <3> HIDE DEF injected, due
      <3>4. sections \in Range(local_starts[r]) \cup {injected}
        BY <2>1, <3>1, <3>3, <1>3 DEF Range
      <3>5. QED
        BY <3>3, <3>4 DEF BudgetInv
    <2>3. CASE r \notin due
      <3>1. local_starts'[r] = local_starts[r]
        BY <2>3 DEF SendLocalThreadStart
      <3>2. QED
        BY <1>3, <3>1 DEF BudgetInv
    <2>4. QED
      BY <2>2, <2>3
  <1> HIDE DEF b, sent
  <1>4. QED
    BY <1>1, <1>2, <1>3, BudgetAfter

\* A line from the host about the shadow of r: it brings no contents.
LEMMA BudgetMetadata ==
  ASSUME RelayInv, SourcesInv, BudgetInv, NEW r \in Starts, NEW sources \in Lists(MaxListed),
         HostMetadataError(r) \/ HostMetadata(r, sources)
  PROVE  BudgetInv'
  <1> DEFINE entry == pending_thread_metadata[r]
             answered == [entry EXCEPT !.host_response = TRUE]
             taken == Taken(sources)
             listed == [answered EXCEPT !.instruction_paths = taken, !.pending_instruction_reads = DOMAIN taken]
  <1>1. TypeOK /\ entry # None /\ entry \in Pending /\ Metadata(r) \in host_open
    BY DEF RelayInv, TypeOK, HostMetadataError, HostMetadata
  <1>2. entry.instruction_contents = {}
    BY <1>1 DEF SourcesInv, Sound
  <1>3. pending_thread_metadata \in [Starts -> Pending \cup {None}] /\ \A s \in Starts : Frugal(pending_thread_metadata[s])
    BY <1>1 DEF TypeOK, BudgetInv
  <1>4. CASE HostMetadataError(r)
    BY <1>1, <1>3, <1>4, BudgetSend DEF HostMetadataError
  <1>5. CASE /\ EndOfIteration([Now EXCEPT !.pending[r] = answered, !.remote = Answered(Metadata(r))])
             /\ UNCHANGED local_starts
    <2> DEFINE b == [Now EXCEPT !.pending[r] = answered, !.remote = Answered(Metadata(r))]
    <2>1. b.pending = [pending_thread_metadata EXCEPT ![r] = answered] /\ EndOfIteration(b)
      BY <1>5 DEF Now
    <2>2. answered.instruction_contents = {}
      BY <1>1, <1>2 DEF Pending
    <2> HIDE DEF b, answered
    <2>3. Frugal(answered)
      BY <2>2, NothingFits DEF Frugal
    <2>4. \A s \in Starts : Frugal(b.pending[s])
      BY <1>3, <2>1, <2>3
    <2>5. \A s \in Starts : \A copy \in Range(local_starts'[s]) : Within(copy)
      BY <1>5 DEF BudgetInv
    <2>6. QED
      BY <2>1, <2>4, <2>5, BudgetAfter
  <1>6. CASE SendLocalThreadStart(IF taken = <<>> THEN {r} ELSE {},
               [pending_thread_metadata EXCEPT ![r] = listed],
               Answered(Metadata(r)) \cup {Read(r, i) : i \in DOMAIN taken})
    <2> DEFINE rs == IF taken = <<>> THEN {r} ELSE {}
               pending == [pending_thread_metadata EXCEPT ![r] = listed]
               remote == Answered(Metadata(r)) \cup {Read(r, i) : i \in DOMAIN taken}
    <2>1. taken \in Lists(MaxSources) /\ DOMAIN taken \subseteq 1..MaxSources
      BY TakenType
    <2> HIDE DEF taken
    <2>2. listed \in Pending /\ listed.instruction_contents = {}
      BY <1>1, <1>2, <2>1 DEF Pending
    <2> HIDE DEF listed
    <2>3. Frugal(listed) /\ listed # None
      BY <2>2, NothingFits, NoneAssumption DEF Frugal
    <2>4. /\ pending \in [Starts -> Pending \cup {None}] /\ pending[r] = listed
          /\ \A s \in Starts \ {r} : pending[s] = pending_thread_metadata[s]
      BY <1>3, <2>2
    <2>5. rs \in SUBSET Starts /\ \A s \in rs : s = r
      OBVIOUS
    <2>6. SendLocalThreadStart(rs, pending, remote)
      BY <1>6
    <2> HIDE DEF pending, rs, remote
    <2>7. \A s \in Starts : Frugal(pending[s])
      BY <1>3, <2>3, <2>4
    <2>8. QED
      BY <1>1, <2>3, <2>4, <2>5, <2>6, <2>7, BudgetSend
  <1>7. QED
    BY <1>4, <1>5, <1>6 DEF HostMetadata, Taken

\* Another file is kept if the sum with it stays within its limit.
LEMMA OneMoreFits ==
  ASSUME NEW files \in SUBSET Paths, NEW p \in Paths, Fitting(files),
         FileBytes[p] <= MaxSourceBytes, TotalBytes(files) + FileBytes[p] <= MaxTotalBytes
  PROVE  Fitting(files \cup {p})
  <1> DEFINE more == files \cup {p}
  <1>1. TotalBytes(more) <= MaxTotalBytes
    <2>1. CASE p \in files
      <3>1. more = files
        BY <2>1
      <3>2. QED
        BY <3>1 DEF Fitting
    <2>2. CASE p \notin files
      <3>1. more \in SUBSET Paths /\ p \in more /\ more \ {p} = files
        BY <2>2
      <3> HIDE DEF more
      <3>2. IsFiniteSet(more) /\ IsFiniteSet(files)
        BY <3>1, LimitsAssumption, FS_Subset
      <3>3. TotalBytes(more) = FileBytes[p] + TotalBytes(files)
        BY <3>1, <3>2, LimitsAssumption, RelaySums, TotalWithout
      <3>4. TotalBytes(files) \in Nat /\ FileBytes[p] \in Nat
        BY <3>2, LimitsAssumption, RelaySums, TotalType
      <3>5. QED
        BY <3>3, <3>4
    <2>3. QED
      BY <2>1, <2>2
  <1>2. \A q \in more : FileBytes[q] <= MaxSourceBytes
    BY DEF Fitting
  <1>3. QED
    BY <1>1, <1>2 DEF Fitting

\* The answer to a read.
LEMMA BudgetRead ==
  ASSUME RelayInv, SourcesInv, BudgetInv, NEW r \in Starts, NEW i \in 1..MaxSources,
         HostReadSkipped(r, i) \/ HostReadFile(r, i), ~Fail
  PROVE  BudgetInv'
  <1> DEFINE old == pending_thread_metadata[r]
             p == old.instruction_paths[i]
             skipped == [old EXCEPT !.pending_instruction_reads = @ \ {i}]
             filed == [old EXCEPT !.pending_instruction_reads = @ \ {i}, !.instruction_contents = @ \cup {p}]
             Fits == /\ FileBytes[p] <= MaxSourceBytes
                     /\ TotalBytes(old.instruction_contents) + FileBytes[p] <= MaxTotalBytes
  <1>1. /\ TypeOK /\ old # None /\ old \in Pending /\ i \in old.pending_instruction_reads
        /\ pending_thread_metadata \in [Starts -> Pending \cup {None}]
        /\ \A s \in Starts : Frugal(pending_thread_metadata[s])
    BY DEF RelayInv, TypeOK, HostReadSkipped, HostReadFile, AwaitsRead, BudgetInv
  <1>2. PICK entry \in {skipped, filed} :
          /\ SendLocalThreadStart(IF entry.pending_instruction_reads = {} THEN {r} ELSE {},
                                  [pending_thread_metadata EXCEPT ![r] = entry], Answered(Read(r, i)))
          /\ entry = skipped \/ Fits
    BY DEF HostReadSkipped, HostReadFile
  <1>3. p \in Paths /\ p \in Range(old.instruction_paths)
    BY <1>1, AwaitedSource DEF Range
  <1>4. entry \in Pending /\ Frugal(entry)
    <2> HIDE DEF p
    <2>1. CASE entry = skipped
      <3>1. /\ skipped \in Pending /\ skipped.instruction_paths = old.instruction_paths
            /\ skipped.instruction_contents = old.instruction_contents
        BY <1>1 DEF Pending
      <3>2. QED
        BY <1>1, <2>1, <3>1 DEF Frugal
    <2>2. CASE entry = filed /\ Fits
      <3>1. /\ filed \in Pending /\ filed.instruction_paths = old.instruction_paths
            /\ filed.instruction_contents = old.instruction_contents \cup {p}
            /\ old.instruction_contents \in SUBSET Paths
        BY <1>1, <1>3 DEF Pending
      <3>2. Fitting(old.instruction_contents) /\ old.instruction_contents \subseteq Range(old.instruction_paths)
        BY <1>1 DEF Frugal
      <3>3. Fitting(old.instruction_contents \cup {p})
        BY <1>3, <2>2, <3>1, <3>2, OneMoreFits
      <3>4. QED
        BY <1>3, <2>2, <3>1, <3>2, <3>3 DEF Frugal
    <2>3. QED
      BY <1>2, <2>1, <2>2
  <1> DEFINE rs == IF entry.pending_instruction_reads = {} THEN {r} ELSE {}
             pending == [pending_thread_metadata EXCEPT ![r] = entry]
  <1>5. SendLocalThreadStart(rs, pending, Answered(Read(r, i))) /\ rs \in SUBSET Starts /\ \A s \in rs : s = r
    BY <1>2
  <1>6. /\ pending \in [Starts -> Pending \cup {None}] /\ pending[r] = entry
        /\ \A s \in Starts \ {r} : pending[s] = pending_thread_metadata[s]
    BY <1>1, <1>4
  <1>7. entry # None
    BY <1>4, NoneAssumption
  <1> HIDE DEF pending, rs
  <1>8. \A s \in Starts : Frugal(pending[s])
    BY <1>1, <1>4, <1>6
  <1>9. QED
    BY <1>1, <1>5, <1>6, <1>7, <1>8, BudgetSend

\* The timer branch, and the time that passes for one entry.
LEMMA BudgetTime ==
  ASSUME RelayInv, BudgetInv, Timer \/ \E r \in Starts : Expire(r)
  PROVE  BudgetInv'
  <1>1. pending_thread_metadata \in [Starts -> Pending \cup {None}] /\ TypeOK
    BY DEF RelayInv, TypeOK
  <1>2. CASE Timer
    <2> DEFINE expired == {r \in Waiting : pending_thread_metadata[r].expired}
    <2>1. expired \in SUBSET Starts /\ \A r \in expired : pending_thread_metadata[r] # None
      BY DEF Waiting
    <2>2. SendLocalThreadStart(expired, pending_thread_metadata, host_open)
      BY <1>2 DEF Timer
    <2> HIDE DEF expired
    <2>3. \A r \in Starts : Frugal(pending_thread_metadata[r])
      BY DEF BudgetInv
    <2>4. QED
      BY <1>1, <2>1, <2>2, <2>3, BudgetSend
  <1>3. ASSUME NEW r \in Starts, Expire(r)
        PROVE  BudgetInv'
    <2>1. /\ pending_thread_metadata' = [pending_thread_metadata EXCEPT ![r].expired = TRUE]
          /\ UNCHANGED local_starts
          /\ pending_thread_metadata[r] \in Pending /\ pending_thread_metadata[r] # None
      BY <1>1, <1>3 DEF Expire, Waiting
    <2> DEFINE old == pending_thread_metadata[r]
               new == [old EXCEPT !.expired = TRUE]
    <2>2. /\ pending_thread_metadata'[r] = new
          /\ \A s \in Starts \ {r} : pending_thread_metadata'[s] = pending_thread_metadata[s]
      BY <1>1, <2>1
    <2>3. /\ new.instruction_paths = old.instruction_paths
          /\ new.instruction_contents = old.instruction_contents
      BY <2>1 DEF Pending
    <2>4. Frugal(old) /\ old # None
      BY <2>1 DEF BudgetInv
    <2> HIDE DEF old, new
    <2>5. Frugal(new)
      BY <2>3, <2>4 DEF Frugal
    <2>6. \A s \in Starts : Frugal(pending_thread_metadata'[s])
      BY <2>2, <2>5 DEF BudgetInv
    <2>7. \A s \in Starts : \A sections \in Range(local_starts'[s]) : Within(sections)
      BY <2>1 DEF BudgetInv
    <2>8. QED
      BY <2>6, <2>7 DEF BudgetInv
  <1>4. QED
    BY <1>2, <1>3

LEMMA BudgetStep ==
  ASSUME RelayInv, SourcesInv, BudgetInv, [Next]_vars
  PROVE  BudgetInv'
  <1>1. StepKinds
    BY StepKind
  <1>2. CASE UNCHANGED <<pending_thread_metadata, host_open, local_starts>>
    BY <1>2 DEF BudgetInv
  <1>3. CASE \E b : Undisturbed(b)
    BY <1>3, BudgetUnchanged DEF Undisturbed
  <1>4. <<>> \in Lists(MaxListed)
    BY NoSources, LimitsAssumption
  <1>5. ASSUME NEW r \in Starts, HostMetadataError(r) \/ \E sources \in Lists(MaxListed) : HostMetadata(r, sources)
        PROVE  BudgetInv'
    BY <1>4, <1>5, BudgetMetadata
  <1>6. QED
    BY <1>1, <1>2, <1>3, <1>5, BudgetRead, BudgetTime DEF StepKinds

\* What is injected into a thread/start has no more sections than sources are
\* read, no file over its limit, and distinct files that together stay within
\* the total, in whatever order the host answers the reads.  A file counts once
\* however often it is listed, as in the sum of handle_host_line; that all the
\* sections stay within the total does not hold (WithinTotal).
THEOREM RelayInstructionBudget == Spec => []InstructionBudget
  <1>1. Init => SourcesInv /\ BudgetInv
    <2>1. \A r \in Starts : local_starts[r] = <<>> => Range(local_starts[r]) = {}
      BY DEF Range
    <2>2. QED
      BY <2>1 DEF Init, SourcesInv, Sound, BudgetInv, Frugal
  <1>2. RelayInv /\ SourcesInv /\ BudgetInv /\ [Next]_vars => SourcesInv' /\ BudgetInv'
    BY SoundStep, BudgetStep
  <1>3. BudgetInv => InstructionBudget
    BY DEF BudgetInv, Within, Fitting, InstructionBudget
  <1>4. QED
    BY <1>1, <1>2, <1>3, RelayInvariant, PTL DEF Spec

\* Neither too little nor too much is injected: all the sources that were read
\* in time, and no more files than the limits allow.
THEOREM RelayInstructionsInjected == Spec => []InstructionsInjected
  BY RelayInstructionsComplete, RelayInstructionBudget, PTL DEF InstructionsInjected
-----------------------------------------------------------------------------
(* The profile's own threads *)

\* An unanswered thread/list is one that waits to be filtered, and the App
\* Server answers a thread/start only while its entry is there.
WaitingInv ==
  /\ \A r \in pending_thread_list_requests : Method[r] = "thread/list"
  /\ \A r \in Range(client_sent) :
       Method[r] = "thread/list" /\ inbox[r] = <<>> => r \in pending_thread_list_requests
  /\ \A r \in Starts : Request(r) \in server_open => pending_thread_metadata[r] # None

OwnInv == WaitingInv /\ OwnThreads

\* The App Server's own requests have no id of a thread/start or thread/list.
IdsApart == \A r \in ServerRequestIds : Method[r] \notin {"thread/start", "thread/list"}

\* A step that forgets no entry whose start is out, and tells the client
\* nothing about threads.
LEMMA OwnKept ==
  ASSUME OwnInv, UNCHANGED listVars, client_sent' = client_sent,
         \A r \in Requests : Method[r] \in {"thread/start", "thread/list"} => inbox'[r] = inbox[r],
         \A r \in Range(client_sent) : r \in Requests,
         \A r \in Starts : Request(r) \in server_open' => pending_thread_metadata'[r] # None
  PROVE  OwnInv'
  BY DEF OwnInv, WaitingInv, OwnThreads, OnlyOwnThreadsListed, OwnershipRecorded, listVars, Starts

\* A new entry is an entry.
LEMMA NewIsEntry == NewPending # None
  BY NewPendingType, NoneAssumption

\* Every start the App Server has is still waited for after an iteration that
\* drops no entry.
LEMMA EntriesKept ==
  ASSUME WaitingInv, NEW b, EndOfIteration(b) \/ \E rs : Forward(rs, b),
         \A r \in Starts : /\ b.pending[r] = None => pending_thread_metadata[r] = None
                           /\ Request(r) \in b.server => Request(r) \in server_open \/ b.pending[r] # None
  PROVE  \A r \in Starts : Request(r) \in server_open' => pending_thread_metadata'[r] # None
  BY EntriesAfter, NewIsEntry DEF WaitingInv

\* What is sent to the local App Server has an entry.
LEMMA EntriesSend ==
  ASSUME WaitingInv, NEW rs \in SUBSET Starts,
         NEW pending \in [Starts -> Pending \cup {None}], NEW remote,
         SendLocalThreadStart(rs, pending, remote),
         \A r \in rs : pending[r] # None,
         \A r \in Starts : pending[r] = None => pending_thread_metadata[r] = None
  PROVE  \A r \in Starts : Request(r) \in server_open' => pending_thread_metadata'[r] # None
  <1> DEFINE due == {r \in rs : ~pending[r].local_sent}
             sent == [r \in Starts |-> IF r \in due THEN [pending[r] EXCEPT !.local_sent = TRUE]
                                                    ELSE pending[r]]
             b == [Now EXCEPT !.pending = sent,
                              !.server = @ \cup {Request(r) : r \in due},
                              !.remote = remote]
  <1>1. EndOfIteration(b) /\ b.pending = sent /\ b.server = server_open \cup {Request(r) : r \in due}
    BY DEF SendLocalThreadStart, Now
  <1>2. \A r \in due : sent[r] # None
    <2>1. ASSUME NEW r \in due
          PROVE  sent[r] \in Pending
      <3>1. pending[r] \in Pending
        OBVIOUS
      <3>2. QED
        BY <3>1 DEF Pending
    <2>2. QED
      BY <2>1, NoneAssumption
  <1>3. \A r \in Starts \ due : sent[r] = pending[r]
    OBVIOUS
  <1> HIDE DEF b, sent, due
  <1>4. due \subseteq Starts
    BY DEF due
  <1>5. QED
    BY <1>1, <1>2, <1>3, <1>4, EntriesKept, IdsDistinct

\* A message from the local App Server.
LEMMA OwnServerMessage ==
  ASSUME RelayInv, OwnInv, IdsApart, NEW r \in Requests, ServerMessage(r), ~Fail
  PROVE  OwnInv'
  <1>1. PICK kind \in {"result", "error", "request"}, listed \in SUBSET Listable :
          ServerThreadStart(r, kind) \/ ServerThreadList(r, kind, listed) \/ ServerPassedOn(r, kind, listed)
    BY DEF ServerMessage
  <1>2. TypeOK /\ UNCHANGED client_sent
    BY <1>1 DEF RelayInv, ServerThreadStart, ServerThreadList, ServerPassedOn
  <1>3. kind # "request" /\ Request(r) \in server_open
    <2>1. FromServer(r, kind)
      BY <1>1 DEF ServerThreadStart, ServerThreadList, ServerPassedOn
    <2>2. r \in Starts => Method[r] = "thread/start"
      BY DEF Starts
    <2>3. r \in pending_thread_list_requests => Method[r] = "thread/list"
      BY DEF OwnInv, WaitingInv
    <2>4. kind = "request" => r \in ServerRequestIds /\ (r \in Starts \/ r \in pending_thread_list_requests)
      BY <1>1, <2>1 DEF FromServer, ServerThreadStart, ServerThreadList, ServerPassedOn, AwaitsStart
    <2>5. kind # "request"
      BY <2>2, <2>3, <2>4 DEF IdsApart
    <2>6. QED
      BY <2>1, <2>5 DEF FromServer
  <1>4. inbox[r] = <<>> /\ r \in Range(client_sent)
    <2>1. inbox[r] = <<>> /\ r \in Range(forwarded)
      BY <1>3 DEF RelayInv, AnswerInv
    <2>2. QED
      BY <2>1, RangeConcatenation, <1>2 DEF RelayInv, QueueInv, HeldInOrder, TypeOK
  <1>5. ServerOpenAfter(r, kind) = server_open \ {Request(r)}
    BY <1>3 DEF ServerOpenAfter
  <1>6. \A s \in Requests : s # r => Request(s) # Request(r)
    BY IdsDistinct
  <1>7. \A s \in Range(client_sent) : s \in Requests
    BY <1>2, RangeOfSeq DEF TypeOK
  <1>8. ASSUME NEW response, Deliver(r, response)
        PROVE  inbox'[r] = <<response>> /\ Range(inbox'[r]) = {response}
               /\ \A s \in Requests : s # r => inbox'[s] = inbox[s]
    <2>1. inbox'[r] = <<response>> /\ \A s \in Requests : s # r => inbox'[s] = inbox[s]
      BY <1>2, <1>4, <1>8 DEF Deliver, TypeOK
    <2>2. Range(<<response>>) = {response}
      BY DEF Range
    <2>3. QED
      BY <2>1, <2>2
  <1>9. CASE ServerThreadStart(r, kind)
    <2> DEFINE merges == pending_thread_metadata[r].host_response /\ kind # "error"
               reply == Response(kind = "result", merges, IF kind = "result" THEN {r} ELSE {})
               b == [Now EXCEPT !.pending[r] = None, !.server = ServerOpenAfter(r, kind)]
    <2>1. /\ r \in Starts /\ Deliver(r, reply) /\ EndOfIteration(b)
          /\ thread_ids' = IF kind = "result" THEN thread_ids \cup {r} ELSE thread_ids
          /\ UNCHANGED pending_thread_list_requests
      BY <1>3, <1>9 DEF ServerThreadStart, AwaitsStart
    <2>2. reply.ok = (kind = "result")
      BY DEF Response
    <2>3. b.pending = [pending_thread_metadata EXCEPT ![r] = None] /\ b.server = server_open \ {Request(r)}
      BY <1>5 DEF Now
    <2> HIDE DEF b, reply
    <2>4. \A s \in Starts : Request(s) \in server_open' => pending_thread_metadata'[s] # None
      BY <1>2, <1>6, <2>1, <2>3, EntriesAfter, NewIsEntry DEF OwnInv, WaitingInv, TypeOK, Starts
    <2>5. Method[r] = "thread/start" /\ r \notin thread_ids
      <3>1. Range(inbox[r]) = {}
        BY <1>4 DEF Range
      <3>2. QED
        BY <2>1, <3>1 DEF OwnInv, OwnThreads, OwnershipRecorded, Starts
    <2>6. WaitingInv'
      BY <1>2, <1>7, <1>8, <2>1, <2>4, <2>5 DEF OwnInv, WaitingInv
    <2>7. OwnershipRecorded'
      <3>1. \A s \in Starts : s # r => (s \in thread_ids' <=> s \in thread_ids) /\ inbox'[s] = inbox[s]
        BY <1>8, <2>1 DEF Starts
      <3>2. r \in thread_ids' <=> kind = "result"
        BY <2>1, <2>5
      <3>3. (\E response \in Range(inbox'[r]) : response.ok) <=> kind = "result"
        BY <1>8, <2>1, <2>2
      <3>4. QED
        BY <3>1, <3>2, <3>3 DEF OwnInv, OwnThreads, OwnershipRecorded
    <2>8. OnlyOwnThreadsListed'
      BY <1>8, <2>1, <2>5 DEF OwnInv, OwnThreads, OnlyOwnThreadsListed
    <2>9. QED
      BY <2>6, <2>7, <2>8 DEF OwnInv, OwnThreads
  <1>10. CASE ServerThreadList(r, kind, listed) \/ ServerPassedOn(r, kind, listed)
    <2> DEFINE b == [Now EXCEPT !.server = ServerOpenAfter(r, kind)]
    <2>1. EndOfIteration(b) /\ UNCHANGED thread_ids /\ ~AwaitsStart(r)
      BY <1>10 DEF ServerThreadList, ServerPassedOn, listVars
    <2>2. b.pending = pending_thread_metadata /\ b.server \subseteq server_open
      BY <1>5 DEF Now
    <2> HIDE DEF b
    <2>3. \A s \in Starts : Request(s) \in server_open' => pending_thread_metadata'[s] # None
      BY <2>1, <2>2, EntriesKept DEF OwnInv
    <2>4. r \notin Starts
      BY <1>3, <2>1 DEF AwaitsStart, OwnInv, WaitingInv, RelayInv, AnswerInv
    <2>5. CASE ServerThreadList(r, kind, listed)
      <3> DEFINE reply == Response(kind = "result", FALSE, IF kind = "result" THEN listed \cap thread_ids ELSE {})
      <3>1. /\ Deliver(r, reply) /\ pending_thread_list_requests' = pending_thread_list_requests \ {r}
        BY <1>3, <2>5 DEF ServerThreadList
      <3>2. reply.threads \subseteq thread_ids
        BY DEF Response
      <3> HIDE DEF reply
      <3>3. inbox'[r] # <<>>
        BY <1>8, <3>1
      <3>4. WaitingInv'
        BY <1>2, <1>7, <1>8, <2>3, <3>1, <3>3 DEF OwnInv, WaitingInv
      <3>5. OwnThreads'
        BY <1>8, <2>1, <2>4, <3>1, <3>2
           DEF OwnInv, OwnThreads, OnlyOwnThreadsListed, OwnershipRecorded, Starts
      <3>6. QED
        BY <3>4, <3>5 DEF OwnInv
    <2>6. CASE ServerPassedOn(r, kind, listed)
      <3>1. Method[r] \notin {"thread/start", "thread/list"}
        BY <1>4, <2>4, <2>6 DEF ServerPassedOn, OwnInv, WaitingInv, Starts
      <3>2. \E response : Deliver(r, response)
        BY <2>6 DEF ServerPassedOn
      <3>3. UNCHANGED listVars
        BY <2>6 DEF ServerPassedOn
      <3>4. \A s \in Requests : Method[s] \in {"thread/start", "thread/list"} => inbox'[s] = inbox[s]
        BY <1>8, <3>1, <3>2
      <3>5. QED
        BY <1>2, <1>7, <2>3, <3>3, <3>4, OwnKept
    <2>7. QED
      BY <1>10, <2>5, <2>6
  <1>11. QED
    BY <1>1, <1>9, <1>10

\* A request from the client.
LEMMA OwnClientRequest ==
  ASSUME RelayInv, OwnInv, NEW r \in Requests, ClientRequest(r), ~Fail
  PROVE  OwnInv'
  <1> DEFINE b == IF Holding THEN Held(r) ELSE [Now EXCEPT !.direct = <<r>>]
  <1>1. EndOfIteration(b) /\ UNCHANGED <<thread_ids, inbox>> /\ client_sent' = Append(client_sent, r)
    BY DEF ClientRequest, clientVars
  <1>2. pending_thread_list_requests' =
          IF Method[r] = "thread/list" THEN pending_thread_list_requests \cup {r} ELSE pending_thread_list_requests
    BY DEF ClientRequest
  <1>3. b.pending = pending_thread_metadata /\ b.server = server_open
    BY DEF Now, Held
  <1> HIDE DEF b
  <1>4. \A s \in Starts : Request(s) \in server_open' => pending_thread_metadata'[s] # None
    BY <1>1, <1>3, EntriesKept DEF OwnInv
  <1>5. Range(client_sent') = Range(client_sent) \cup {r}
    <2>1. client_sent \in Seq(Requests)
      BY DEF RelayInv, TypeOK
    <2>2. QED
      BY <1>1, <2>1 DEF Range
  <1>6. WaitingInv'
    BY <1>1, <1>2, <1>4, <1>5 DEF OwnInv, WaitingInv
  <1>7. OwnThreads'
    BY <1>1 DEF OwnInv, OwnThreads, OnlyOwnThreadsListed, OwnershipRecorded
  <1>8. QED
    BY <1>6, <1>7 DEF OwnInv

\* A line from the host.
LEMMA OwnHostLine ==
  ASSUME RelayInv, OwnInv, HostLine, ~Fail
  PROVE  OwnInv'
  <1>1. TypeOK /\ \A r \in Range(client_sent) : r \in Requests
    BY RangeOfSeq DEF RelayInv, TypeOK
  <1>2. pending_thread_metadata \in [Starts -> Pending \cup {None}]
    BY <1>1 DEF TypeOK
  <1>3. ASSUME UNCHANGED <<listVars, client_sent, inbox>>,
               \A r \in Starts : Request(r) \in server_open' => pending_thread_metadata'[r] # None
        PROVE  OwnInv'
    BY <1>1, <1>3, OwnKept
  <1>4. CASE HostInitialize
    <2> DEFINE b == [Now EXCEPT !.host = TRUE, !.remote = Answered(HostInitializeId)]
    <2>1. EndOfIteration(b) /\ UNCHANGED <<listVars, client_sent, inbox>>
      BY <1>4 DEF HostInitialize, clientVars
    <2>2. b.pending = pending_thread_metadata /\ b.server = server_open
      BY DEF Now
    <2> HIDE DEF b
    <2>3. QED
      BY <1>3, <2>1, <2>2, EntriesKept DEF OwnInv
  <1>5. ASSUME NEW r \in Starts, HostMetadataError(r)
        PROVE  OwnInv'
    BY <1>2, <1>3, <1>5, EntriesSend DEF HostMetadataError, hostFrame, clientVars, OwnInv
  <1>6. ASSUME NEW r \in Starts, NEW entry \in Pending, NEW rs \in SUBSET {r}, NEW remote,
               SendLocalThreadStart(rs, [pending_thread_metadata EXCEPT ![r] = entry], remote),
               UNCHANGED hostFrame
        PROVE  OwnInv'
    <2> DEFINE pending == [pending_thread_metadata EXCEPT ![r] = entry]
    <2>1. /\ pending \in [Starts -> Pending \cup {None}]
          /\ \A s \in rs : pending[s] # None
          /\ \A s \in Starts : pending[s] = None => pending_thread_metadata[s] = None
      BY <1>2, NoneAssumption
    <2>2. SendLocalThreadStart(rs, pending, remote) /\ rs \in SUBSET Starts
      BY <1>6
    <2> HIDE DEF pending
    <2>3. QED
      BY <1>3, <1>6, <2>1, <2>2, EntriesSend DEF hostFrame, clientVars, OwnInv
  <1>7. ASSUME NEW r \in Starts, NEW sources \in Lists(MaxListed), HostMetadata(r, sources)
        PROVE  OwnInv'
    <2> DEFINE answered == [pending_thread_metadata[r] EXCEPT !.host_response = TRUE]
               taken == Taken(sources)
               listed == [answered EXCEPT !.instruction_paths = taken, !.pending_instruction_reads = DOMAIN taken]
    <2>1. pending_thread_metadata[r] \in Pending /\ answered \in Pending
      <3>1. pending_thread_metadata[r] \in Pending
        BY <1>2, <1>7 DEF HostMetadata
      <3>2. QED
        BY <3>1 DEF Pending
    <2>2. listed \in Pending
      <3>1. taken \in Lists(MaxSources) /\ DOMAIN taken \subseteq 1..MaxSources
        BY TakenType
      <3> HIDE DEF taken, answered
      <3>2. QED
        BY <2>1, <3>1 DEF Pending
    <2>3. CASE EndOfIteration([Now EXCEPT !.pending[r] = answered, !.remote = Answered(Metadata(r))])
      <3> DEFINE b == [Now EXCEPT !.pending[r] = answered, !.remote = Answered(Metadata(r))]
      <3>1. b.pending = [pending_thread_metadata EXCEPT ![r] = answered] /\ b.server = server_open
        BY DEF Now
      <3>2. EndOfIteration(b) /\ UNCHANGED <<listVars, client_sent, inbox>>
        BY <1>7, <2>3 DEF HostMetadata, hostFrame, clientVars
      <3> HIDE DEF b, answered
      <3>3. \A s \in Starts : b.pending[s] = None => pending_thread_metadata[s] = None
        BY <1>2, <2>1, <3>1, NoneAssumption
      <3>4. QED
        BY <1>3, <3>1, <3>2, <3>3, EntriesKept DEF OwnInv
    <2>4. CASE SendLocalThreadStart(IF taken = <<>> THEN {r} ELSE {},
                 [pending_thread_metadata EXCEPT ![r] = listed],
                 Answered(Metadata(r)) \cup {Read(r, i) : i \in DOMAIN taken})
      <3>1. (IF taken = <<>> THEN {r} ELSE {}) \in SUBSET {r} /\ UNCHANGED hostFrame
        BY <1>7 DEF HostMetadata
      <3> HIDE DEF listed, taken
      <3>2. QED
        BY <1>6, <2>2, <2>4, <3>1
    <2>5. QED
      BY <1>7, <2>3, <2>4 DEF HostMetadata, Taken
  <1>8. ASSUME NEW r \in Starts, NEW i \in 1..MaxSources, HostReadSkipped(r, i) \/ HostReadFile(r, i)
        PROVE  OwnInv'
    <2> DEFINE old == pending_thread_metadata[r]
               p == old.instruction_paths[i]
               skipped == [old EXCEPT !.pending_instruction_reads = @ \ {i}]
               filed == [old EXCEPT !.pending_instruction_reads = @ \ {i}, !.instruction_contents = @ \cup {p}]
    <2>1. old \in Pending /\ UNCHANGED hostFrame /\ i \in old.pending_instruction_reads
      BY <1>2, <1>8 DEF HostReadSkipped, HostReadFile, AwaitsRead
    <2>2. PICK entry \in {skipped, filed} :
            SendLocalThreadStart(IF entry.pending_instruction_reads = {} THEN {r} ELSE {},
                                 [pending_thread_metadata EXCEPT ![r] = entry], Answered(Read(r, i)))
      BY <1>8 DEF HostReadSkipped, HostReadFile
    <2>3. skipped \in Pending /\ filed \in Pending
      <3>1. p \in Paths
        BY <2>1, AwaitedSource
      <3> HIDE DEF p
      <3>2. QED
        BY <2>1, <3>1 DEF Pending
    <2> HIDE DEF skipped, filed
    <2>4. (IF entry.pending_instruction_reads = {} THEN {r} ELSE {}) \in SUBSET {r}
      OBVIOUS
    <2>5. QED
      BY <1>6, <2>1, <2>2, <2>3, <2>4
  <1>9. ASSUME NEW id \in host_open, HostReply(id)
        PROVE  OwnInv'
    <2> DEFINE b == [Now EXCEPT !.remote = Answered(id)]
    <2>1. EndOfIteration(b) /\ UNCHANGED <<listVars, client_sent>>
      BY <1>9 DEF HostReply
    <2>2. b.pending = pending_thread_metadata /\ b.server = server_open
      BY DEF Now
    <2> HIDE DEF b
    <2>3. \A r \in Starts : Request(r) \in server_open' => pending_thread_metadata'[r] # None
      BY <2>1, <2>2, EntriesKept DEF OwnInv
    <2>4. \A r \in Requests : Method[r] \in {"thread/start", "thread/list"} => inbox'[r] = inbox[r]
      <3>1. \A r \in Requests : id = Request(r) => RequestRoute(r) = "Host"
        BY DEF RelayInv, AnswerInv
      <3>2. \A r \in Requests : Method[r] \in {"thread/start", "thread/list"} => id # Request(r)
        BY <3>1 DEF RequestRoute
      <3>3. QED
        BY <1>9, <3>2 DEF HostReply
    <2>5. QED
      BY <1>1, <2>1, <2>3, <2>4, OwnKept
  <1>10. QED
    <2>1. <<>> \in Lists(MaxListed)
      BY NoSources, LimitsAssumption
    <2>2. QED
      BY <1>4, <1>5, <1>7, <1>8, <1>9, <2>1 DEF HostLine

LEMMA OwnStep ==
  ASSUME RelayInv, OwnInv, IdsApart, [Next]_vars
  PROVE  OwnInv'
  <1>1. TypeOK /\ \A r \in Range(client_sent) : r \in Requests
    BY RangeOfSeq DEF RelayInv, TypeOK
  <1>2. pending_thread_metadata \in [Starts -> Pending \cup {None}]
    BY <1>1 DEF TypeOK
  <1>3. ASSUME UNCHANGED <<listVars, client_sent, inbox>>,
               \A r \in Starts : Request(r) \in server_open' => pending_thread_metadata'[r] # None
        PROVE  OwnInv'
    BY <1>1, <1>3, OwnKept
  <1>4. CASE Fail \/ Disconnect \/ StatusError \/ StatusNotReady
    BY <1>3, <1>4 DEF Fail, Disconnect, StatusError, StatusNotReady, peerVars, clientVars, OwnInv, WaitingInv
  <1>5. CASE ServerEnvironmentAdd /\ ~Fail
    BY <1>3, <1>5, IdsDistinct DEF ServerEnvironmentAdd, clientVars, OwnInv, WaitingInv
  <1>6. CASE ClientInitialize
    <2> DEFINE b == [Now EXCEPT !.server = @ \cup {InitializeId}, !.remote = @ \cup {HostInitializeId}]
    <2>1. EndOfIteration(b) /\ UNCHANGED <<listVars, client_sent, inbox>>
      BY <1>6 DEF ClientInitialize, clientVars
    <2>2. b.pending = pending_thread_metadata /\ b.server = server_open \cup {InitializeId}
      BY DEF Now
    <2> HIDE DEF b
    <2>3. QED
      BY <1>3, <2>1, <2>2, EntriesKept, IdsDistinct DEF OwnInv
  <1>7. CASE ServerInitialize /\ ~Fail
    <2> DEFINE b == [Now EXCEPT !.local = TRUE, !.server = (@ \ {InitializeId}) \cup {AddId}]
    <2>1. EndOfIteration(b) /\ UNCHANGED <<listVars, client_sent, inbox>>
      BY <1>7 DEF ServerInitialize, clientVars
    <2>2. b.pending = pending_thread_metadata /\ b.server \subseteq server_open \cup {AddId}
      BY DEF Now
    <2> HIDE DEF b
    <2>3. QED
      BY <1>3, <2>1, <2>2, EntriesKept, IdsDistinct DEF OwnInv
  <1>8. CASE StatusReady
    <2> DEFINE b == [Now EXCEPT !.server = @ \ {StatusId}]
    <2>1. (\E rs : Forward(rs, b)) /\ UNCHANGED <<listVars, client_sent, inbox>>
      BY <1>8 DEF StatusReady, clientVars
    <2>2. b.pending = pending_thread_metadata /\ b.server \subseteq server_open
      BY DEF Now
    <2> HIDE DEF b
    <2>3. QED
      BY <1>3, <2>1, <2>2, EntriesKept DEF OwnInv
  <1>9. CASE Timer
    <2> DEFINE expired == {r \in Waiting : pending_thread_metadata[r].expired}
    <2>1. /\ expired \in SUBSET Starts /\ \A r \in expired : pending_thread_metadata[r] # None
          /\ SendLocalThreadStart(expired, pending_thread_metadata, host_open) /\ UNCHANGED hostFrame
      BY <1>9 DEF Timer, Waiting
    <2> HIDE DEF expired
    <2>2. QED
      BY <1>2, <1>3, <2>1, EntriesSend DEF hostFrame, clientVars, OwnInv
  <1>10. ASSUME NEW r \in Starts, Expire(r)
         PROVE  OwnInv'
    <2>1. /\ pending_thread_metadata' = [pending_thread_metadata EXCEPT ![r].expired = TRUE]
          /\ pending_thread_metadata[r] \in Pending
          /\ UNCHANGED <<listVars, client_sent, inbox, server_open>>
      BY <1>2, <1>10 DEF Expire, Waiting, clientVars
    <2>2. pending_thread_metadata'[r] \in Pending
      BY <1>2, <2>1 DEF Pending
    <2>3. \A s \in Starts : pending_thread_metadata'[s] = None => pending_thread_metadata[s] = None
      BY <1>2, <2>1, <2>2, NoneAssumption
    <2>4. QED
      BY <1>3, <2>1, <2>3 DEF OwnInv, WaitingInv
  <1>11. CASE UNCHANGED relayVars
    BY <1>11 DEF OwnInv, WaitingInv, OwnThreads, OnlyOwnThreadsListed, OwnershipRecorded,
                 relayVars, peerVars, listVars, clientVars
  <1>12. QED
    BY <1>4, <1>5, <1>6, <1>7, <1>8, <1>9, <1>10, <1>11, OwnClientRequest, OwnServerMessage, OwnHostLine, RelaySteps
       DEF Iteration

\* If no request of the App Server's own has the id of a thread/start or a
\* thread/list of the client's, whatever other ids it reuses, a list that
\* reaches the client names recorded threads only, and the recorded ones are
\* those whose thread/start succeeded (handle_local_message,
\* filter_thread_list_response, record_owned_thread).
THEOREM RelayOwnThreads ==
  ASSUME IdsApart
  PROVE  Spec => []OwnThreads
  <1>1. Init => OwnInv
    <2> SUFFICES ASSUME Init PROVE OwnInv
      OBVIOUS
    <2>1. Range(client_sent) = {} /\ \A r \in Requests : Range(inbox[r]) = {}
      BY DEF Init, Range
    <2>2. QED
      BY <2>1 DEF Init, OwnInv, WaitingInv, OwnThreads, OnlyOwnThreadsListed, OwnershipRecorded, Starts
  <1>2. RelayInv /\ OwnInv /\ [Next]_vars => OwnInv'
    BY OwnStep
  <1>3. OwnInv => OwnThreads
    BY DEF OwnInv
  <1>4. QED
    BY <1>1, <1>2, <1>3, RelayInvariant, PTL DEF Spec
=============================================================================
