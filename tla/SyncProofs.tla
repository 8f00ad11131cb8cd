----------------------------- MODULE SyncProofs ------------------------------
(***************************************************************************)
(* Imports and repairs lose no turn, make no duplicate and, if they report *)
(* success or restoration, have achieved it: theorems of Sync for every    *)
(* number of threads, providers, runs and turns.                           *)
(***************************************************************************)
EXTENDS Sync, FiniteSetTheorems, TLAPS

\* One run at a time, and its result until the next begins.
RunInv == sync = Idle \/ repair = Idle

\* A thread nobody has moved or worked on behind a run's back.
Stable(t) == t \notin missed \cup disturbed

Single ==
  \A p, q \in DOMAIN files : Thread(p) = Thread(q) /\ Stable(Thread(p)) => p = q

\* TurnsKept, turn by turn.
Kept ==
  \A t \in Threads \ disturbed : \A n \in said[t] :
    \E p \in DOMAIN files : Thread(p) = t /\ n \in files[p].turns

\* Turns that go to a file without a name are those of a disturbed thread.
FileInv ==
  /\ open \subseteq DOMAIN files
  /\ \A p \in cut : Thread(p) \in disturbed
  /\ Single
  /\ Kept

HasFile(t) == \E p \in DOMAIN files : Thread(p) = t

\* What an import knows: each thread here or, in its second half, exactly them.
ImportInv ==
  /\ sync.pc = "list_archived" =>
       /\ \A p \in DOMAIN files : p[1] = "sessions" => p \in sync.listed \/ Thread(p) \in missed
       /\ sync.staged \subseteq sync.left /\ sync.destination = {}
  /\ sync.pc \in {"import", "install"} =>
       /\ \A p \in DOMAIN files : Thread(p) \in sync.known \cup missed
       /\ \A t \in sync.known : HasFile(t)
       /\ \A p \in sync.staged : p \in sync.left \cup sync.destination \/ HasFile(Thread(p))
       /\ \A p, q \in sync.destination : p = q /\ Thread(p) \notin sync.known
       /\ sync.pc = "import" => sync.destination = {}
  /\ sync.pc = "done" => \A p \in sync.staged : HasFile(Thread(p))

Changing == {"backup", "begin", "replace", "restore"}

\* What a repair has read is what is there, with the provider it gives; what is
\* left to replace, or has been restored, is as it was.
RolloutInv ==
  /\ repair.pc \in Repairing => \A p \in open : Thread(p) \in disturbed
  /\ repair.pc \in {"list_archived", "backup"} => repair.left = {} /\ DOMAIN repair.backup = {}
  /\ repair.pc \in {"list_archived", "backup", "begin"} => repair.writing = {}
  /\ repair.pc \in Changing =>
       /\ repair.changes \subseteq DOMAIN repair.records
       /\ repair.left \subseteq repair.changes
       /\ repair.writing \subseteq repair.left
       /\ repair.pc \in {"begin", "replace", "restore"} => DOMAIN repair.backup = repair.changes
       /\ \A p \in DOMAIN repair.records : Thread(p) \notin disturbed =>
            /\ p \in DOMAIN files
            /\ files[p].turns = repair.records[p].turns
            /\ p \notin repair.changes => repair.records[p].provider = repair.provider /\ files[p] = repair.records[p]
            /\ p \in DOMAIN repair.backup => repair.backup[p] = repair.records[p]
            /\ repair.pc \in {"backup", "begin"} => files[p] = repair.records[p]
            /\ repair.pc = "replace" => files[p] = IF p \in repair.left THEN repair.records[p] ELSE Updated(p)
            /\ repair.pc = "restore" /\ p \notin repair.left => files[p] = repair.records[p]

\* The rows are as they were read, but for those that came since; and the ones
\* that need no change are right.
RowInv ==
  /\ repair.pc \in Changing \cup {"restored"} =>
       \A t \in DOMAIN repair.seen : t \in DOMAIN rows /\ rows[t] = repair.seen[t]
  /\ repair.pc \in Changing =>
       \A p \in DOMAIN repair.records \ repair.changes :
         Stable(Thread(p)) /\ Thread(p) \in DOMAIN rows => rows[Thread(p)] = Aligned

\* What a repair has achieved, as long as no other run begins.
ResultInv ==
  /\ RepairAligns
  /\ repair.pc = "restored" =>
       \A p \in repair.changes : Stable(Thread(p)) =>
         \A q \in FilesOf(Thread(p)) : files[q].provider = repair.records[p].provider

SyncInv == TypeOK /\ RunInv /\ FileInv /\ ImportInv /\ RolloutInv /\ RowInv /\ ResultInv
-----------------------------------------------------------------------------
(* Types *)

USE DEF Idle, Failed

LEMMA PartialType ==
  ASSUME NEW S, NEW T, NEW f
  PROVE  f \in Partial(S, T) <=> DOMAIN f \subseteq S /\ f \in [DOMAIN f -> T]
  BY DEF Partial

LEMMA InitTypeOK == Init => TypeOK
  <1> SUFFICES ASSUME Init PROVE TypeOK
    OBVIOUS
  <1>1. files \in Partial(Paths, Rollout)
    <2>1. files \in Partial(Paths, [provider : Providers, turns : {{0}}])
      BY DEF Init
    <2>2. [provider : Providers, turns : {{0}}] \subseteq Rollout
      BY BoundsAssumption DEF Rollout
    <2>3. DOMAIN files \subseteq Paths /\ files \in [DOMAIN files -> [provider : Providers, turns : {{0}}]]
      BY <2>1, PartialType
    <2>4. files \in [DOMAIN files -> Rollout]
      BY <2>2, <2>3
    <2>5. QED
      BY <2>3, <2>4, PartialType
  <1>2. rows \in Partial(Threads, Row)
    <2>1. rows \in Partial({Thread(p) : p \in DOMAIN files}, Row)
      BY DEF Init
    <2>2. \A p \in DOMAIN files : Thread(p) \in Threads
      BY <1>1, PartialType DEF Paths, Thread
    <2>3. QED
      BY <2>1, <2>2, PartialType
  <1>3. 0 \in 0..MaxTurns /\ 0 \in 0..MaxRuns /\ 0 \in 0..MaxCodex
    BY BoundsAssumption
  <1>4. QED
    BY <1>1, <1>2, <1>3 DEF Init, TypeOK

\* A run that has a result or is at work has all its fields.
LEMMA RunsType ==
  ASSUME TypeOK
  PROVE  /\ sync.pc \in Syncing \cup {"done"} => sync \in SyncRuns
         /\ repair.pc \in Repairing \cup {"done", "restored"} => repair \in RepairRuns
         /\ sync \in SyncRuns => sync.pc \in Syncing \cup {"done"}
         /\ repair \in RepairRuns => repair.pc \in Repairing \cup {"done", "restored"}
  BY DEF TypeOK, Syncing, Repairing, SyncRuns, RepairRuns

LEMMA FilesType ==
  ASSUME TypeOK
  PROVE  /\ DOMAIN files \subseteq Paths
         /\ \A p \in DOMAIN files : files[p] \in Rollout /\ Thread(p) \in Threads
         /\ DOMAIN rows \subseteq Threads
         /\ \A t \in DOMAIN rows : rows[t] \in Row
  <1>1. DOMAIN files \subseteq Paths /\ files \in [DOMAIN files -> Rollout]
    BY PartialType DEF TypeOK
  <1>2. DOMAIN rows \subseteq Threads /\ rows \in [DOMAIN rows -> Row]
    BY PartialType DEF TypeOK
  <1>3. \A p \in Paths : Thread(p) \in Threads
    BY DEF Paths, Thread
  <1>4. QED
    BY <1>1, <1>2, <1>3

LEMMA RecordsType ==
  ASSUME repair \in RepairRuns
  PROVE  /\ DOMAIN repair.records \subseteq Paths /\ DOMAIN repair.backup \subseteq Paths
         /\ \A p \in DOMAIN repair.records : repair.records[p] \in Rollout
         /\ \A p \in DOMAIN repair.backup : repair.backup[p] \in Rollout
         /\ \A t \in DOMAIN repair.seen : repair.seen[t] \in Row
  <1>1. repair.records \in Partial(Paths, Rollout) /\ repair.backup \in Partial(Paths, Rollout) /\ repair.seen \in Partial(Threads, Row)
    BY DEF RepairRuns
  <1>2. /\ DOMAIN repair.records \subseteq Paths /\ repair.records \in [DOMAIN repair.records -> Rollout]
        /\ DOMAIN repair.backup \subseteq Paths /\ repair.backup \in [DOMAIN repair.backup -> Rollout]
        /\ repair.seen \in [DOMAIN repair.seen -> Row]
    BY <1>1, PartialType
  <1>3. QED
    BY <1>2

LEMMA PutType ==
  ASSUME TypeOK, NEW p \in Paths, NEW rollout \in Rollout, Put(p, rollout)
  PROVE  files' \in Partial(Paths, Rollout)
  <1>1. DOMAIN files \subseteq Paths /\ files \in [DOMAIN files -> Rollout]
    BY PartialType DEF TypeOK
  <1>2. DOMAIN files' = DOMAIN files \cup {p} /\ files' \in [DOMAIN files \cup {p} -> Rollout]
    BY <1>1 DEF Put
  <1>3. QED
    BY <1>1, <1>2, PartialType

LEMMA RestrictType ==
  ASSUME TypeOK, NEW A, A \subseteq DOMAIN files
  PROVE  /\ Restrict(files, A) \in Partial(Paths, Rollout)
         /\ DOMAIN Restrict(files, A) = A
         /\ \A p \in A : Restrict(files, A)[p] = files[p]
  <1>1. DOMAIN files \subseteq Paths /\ files \in [DOMAIN files -> Rollout]
    BY PartialType DEF TypeOK
  <1>2. DOMAIN Restrict(files, A) = A /\ Restrict(files, A) \in [A -> Rollout] /\ \A p \in A : Restrict(files, A)[p] = files[p]
    BY <1>1 DEF Restrict
  <1>3. QED
    BY <1>1, <1>2, PartialType

LEMMA NothingType ==
  ASSUME NEW S, NEW T
  PROVE  Nothing \in Partial(S, T) /\ DOMAIN Nothing = {}
  <1>1. DOMAIN Nothing = {} /\ Nothing \in [{} -> T]
    BY DEF Nothing
  <1>2. QED
    BY <1>1, PartialType

LEMMA SyncTypeStep ==
  ASSUME TypeOK,
         \/ \E provider \in Providers, remote \in SUBSET Paths : StartSync(provider, remote)
         \/ index_local_sessions \/ SyncDone \/ SyncStops
         \/ \E p \in Paths : import_staged_rollouts(p) \/ install_new_rollout(p)
  PROVE  TypeOK'
  <1>1. ASSUME NEW provider \in Providers, NEW remote \in SUBSET Paths, StartSync(provider, remote)
        PROVE  TypeOK'
    <2>1. runs' \in 0..MaxRuns
      BY <1>1, BoundsAssumption DEF TypeOK, StartSync, StartRun
    <2>2. SeenIn("sessions") \subseteq Paths
      BY FilesType DEF SeenIn
    <2>3. sync' \in SyncRuns
      BY <1>1, <2>2 DEF StartSync, SyncRuns, Syncing
    <2>4. QED
      BY <1>1, <2>1, <2>3 DEF TypeOK, StartSync, codex, history
  <1>2. CASE index_local_sessions
    <2>1. sync \in SyncRuns
      BY <1>2, RunsType DEF index_local_sessions, SyncGoes, Syncing
    <2>2. SeenIn("archived_sessions") \subseteq Paths /\ \A p \in Paths : Thread(p) \in Threads
      BY FilesType DEF SeenIn, Paths, Thread
    <2>3. sync' \in SyncRuns
      BY <1>2, <2>1, <2>2 DEF index_local_sessions, SyncGoes, SyncRuns, Syncing
    <2>4. QED
      BY <1>2, <2>3 DEF TypeOK, index_local_sessions, SyncGoes, SyncOnly, codex, history
  <1>3. ASSUME NEW p \in Paths, import_staged_rollouts(p)
        PROVE  TypeOK'
    <2>1. sync \in SyncRuns
      BY <1>3, RunsType DEF import_staged_rollouts, SyncGoes, Syncing
    <2>2. sync' \in SyncRuns
      BY <1>3, <2>1 DEF import_staged_rollouts, SyncGoes, SyncRuns, Syncing
    <2>3. QED
      BY <1>3, <2>2 DEF TypeOK, import_staged_rollouts, SyncGoes, SyncOnly, codex, history
  <1>4. ASSUME NEW p \in Paths, install_new_rollout(p)
        PROVE  TypeOK'
    <2>1. sync \in SyncRuns
      BY <1>4, RunsType DEF install_new_rollout, SyncGoes, Syncing
    <2>2. Thread(p) \in Threads /\ [provider |-> sync.provider, turns |-> {}] \in Rollout
      BY <2>1 DEF Paths, Thread, SyncRuns, Rollout
    <2>3. sync' \in SyncRuns
      BY <1>4, <2>1, <2>2 DEF install_new_rollout, SyncGoes, SyncRuns, Syncing
    <2>4. files' \in Partial(Paths, Rollout)
      BY <1>4, <2>2, PutType DEF install_new_rollout
    <2>5. QED
      BY <1>4, <2>3, <2>4 DEF TypeOK, install_new_rollout, SyncGoes, SyncOnly, codex, history
  <1>5. CASE SyncDone
    <2>1. sync \in SyncRuns
      BY <1>5, RunsType DEF SyncDone, SyncGoes, Syncing
    <2>2. sync' \in SyncRuns
      BY <1>5, <2>1 DEF SyncDone, SyncGoes, SyncRuns
    <2>3. QED
      BY <1>5, <2>2 DEF TypeOK, SyncDone, SyncGoes, SyncOnly, codex, history
  <1>6. CASE SyncStops
    BY <1>6 DEF TypeOK, SyncStops, SyncGoes, SyncOnly, codex, history
  <1>7. QED
    BY <1>1, <1>2, <1>3, <1>4, <1>5, <1>6

\* What is written in place of a rollout.
LEMMA PersistType ==
  ASSUME TypeOK, RolloutInv, NEW p \in Paths, Persist(p)
  PROVE  /\ repair \in RepairRuns
         /\ p \in repair.changes
         /\ repair.pc = "replace" => p \in DOMAIN repair.records /\ Updated(p) \in Rollout
         /\ repair.pc = "restore" => p \in DOMAIN repair.backup /\ repair.backup[p] \in Rollout
  <1>1. repair.pc \in {"replace", "restore"} /\ p \in repair.writing
    BY DEF Persist
  <1>2. repair \in RepairRuns
    BY <1>1, RunsType DEF Repairing
  <1>3. p \in repair.changes /\ p \in DOMAIN repair.records /\ (repair.pc = "restore" => p \in DOMAIN repair.backup)
    BY <1>1 DEF RolloutInv, Changing
  <1>4. repair.records[p] \in Rollout /\ repair.provider \in Providers /\ (repair.pc = "restore" => repair.backup[p] \in Rollout)
    BY <1>2, <1>3, RecordsType DEF RepairRuns
  <1>5. Updated(p) \in Rollout
    BY <1>4 DEF Updated, Rollout
  <1>6. QED
    BY <1>2, <1>3, <1>4, <1>5

LEMMA RepairTypeStep ==
  ASSUME TypeOK, RolloutInv,
         \/ \E provider \in Providers : StartRepair(provider)
         \/ ReadRollouts \/ backup_rollouts \/ BeginTransaction
         \/ \E p \in Paths : CheckReplaced(p) \/ Persist(p)
         \/ Commit \/ ApplyFails \/ Restored \/ RepairStops
  PROVE  TypeOK'
  <1>1. ASSUME NEW provider \in Providers, StartRepair(provider)
        PROVE  TypeOK'
    <2>1. runs' \in 0..MaxRuns
      BY <1>1, BoundsAssumption DEF TypeOK, StartRepair, StartRun
    <2>2. SeenIn("sessions") \subseteq Paths /\ Opened \subseteq Threads
      BY FilesType DEF TypeOK, SeenIn, Opened, Paths, Thread
    <2>3. repair' \in RepairRuns
      BY <1>1, <2>2, NothingType DEF StartRepair, RepairRuns, Repairing
    <2>4. QED
      BY <1>1, <2>1, <2>2, <2>3 DEF TypeOK, StartRepair, codex
  <1>2. CASE ReadRollouts
    <2> DEFINE listed == repair.listed \cup SeenIn("archived_sessions")
               records == Restrict(files, listed)
    <2>1. repair \in RepairRuns
      BY <1>2, RunsType DEF ReadRollouts, Repairing
    <2>2. records \in Partial(Paths, Rollout) /\ DOMAIN records \subseteq Paths
      BY <1>2, RestrictType, FilesType DEF ReadRollouts
    <2>3. collect_repair_changes(records) \subseteq Paths
      BY <2>2 DEF collect_repair_changes
    <2>4. rows \in Partial(Threads, Row)
      BY DEF TypeOK
    <2>5. repair' = [repair EXCEPT !.pc = IF collect_repair_changes(records) = {} THEN "done" ELSE "backup",
                                   !.listed = {}, !.records = records, !.seen = rows, !.changes = collect_repair_changes(records)]
      BY <1>2 DEF ReadRollouts, RepairGoes
    <2> HIDE DEF records
    <2>6. repair' \in RepairRuns
      BY <2>1, <2>2, <2>3, <2>4, <2>5 DEF RepairRuns, Repairing
    <2>7. QED
      BY <1>2, <2>6 DEF TypeOK, ReadRollouts, RepairGoes, RepairOnly, Looks, history
  <1>3. CASE backup_rollouts
    <2>1. repair \in RepairRuns
      BY <1>3, RunsType DEF backup_rollouts, Repairing
    <2>2. Restrict(files, repair.changes) \in Partial(Paths, Rollout)
      BY <1>3, RestrictType DEF backup_rollouts
    <2>3. repair' \in RepairRuns
      BY <1>3, <2>1, <2>2 DEF backup_rollouts, RepairGoes, RepairRuns, Repairing
    <2>4. QED
      BY <1>3, <2>3 DEF TypeOK, backup_rollouts, RepairGoes, RepairOnly, Looks, history
  <1>4. CASE BeginTransaction
    <2>1. repair \in RepairRuns
      BY <1>4, RunsType DEF BeginTransaction, RepairGoes, Repairing
    <2>2. repair' \in RepairRuns
      BY <1>4, <2>1 DEF BeginTransaction, RepairGoes, RepairRuns, Repairing
    <2>3. QED
      BY <1>4, <2>2 DEF TypeOK, BeginTransaction, RepairGoes, RepairOnly, Looks, history
  <1>5. ASSUME NEW p \in Paths, CheckReplaced(p)
        PROVE  TypeOK'
    <2>1. repair \in RepairRuns
      BY <1>5, RunsType DEF CheckReplaced, Repairing
    <2>2. repair' \in RepairRuns
      BY <1>5, <2>1 DEF CheckReplaced, RepairGoes, RepairRuns, Repairing
    <2>3. QED
      BY <1>5, <2>2 DEF TypeOK, CheckReplaced, RepairGoes, RepairOnly, Looks, history
  <1>6. CASE Commit
    <2>1. repair \in RepairRuns
      BY <1>6, RunsType DEF Commit, Repairing
    <2>2. repair' \in RepairRuns
      BY <1>6, <2>1 DEF Commit, RepairGoes, RepairRuns
    <2>3. DOMAIN UpdatedRows = DOMAIN rows /\ UpdatedRows \in [DOMAIN rows -> Row] /\ DOMAIN rows \subseteq Threads
      BY <2>1, FilesType DEF UpdatedRows, Aligned, Row, RepairRuns
    <2>4. UpdatedRows \in Partial(Threads, Row)
      BY <2>3, PartialType
    <2>5. QED
      BY <1>6, <2>2, <2>4 DEF TypeOK, Commit, RepairGoes, RepairOnly, history
  <1>7. CASE ApplyFails
    <2>1. repair \in RepairRuns
      BY <1>7, RunsType DEF ApplyFails, Repairing
    <2>2. repair' \in RepairRuns
      BY <1>7, <2>1 DEF ApplyFails, RepairGoes, RepairRuns, Repairing
    <2>3. QED
      BY <1>7, <2>2 DEF TypeOK, ApplyFails, RepairGoes, RepairOnly, Looks, history
  <1>8. CASE Restored
    <2>1. repair \in RepairRuns
      BY <1>8, RunsType DEF Restored, Repairing
    <2>2. repair' \in RepairRuns
      BY <1>8, <2>1 DEF Restored, RepairGoes, RepairRuns
    <2>3. QED
      BY <1>8, <2>2 DEF TypeOK, Restored, RepairGoes, RepairOnly, Looks, history
  <1>9. CASE RepairStops
    BY <1>9 DEF TypeOK, RepairStops, RepairGoes, RepairOnly, Looks, history
  <1>10. ASSUME NEW p \in Paths, Persist(p)
         PROVE  TypeOK'
    <2>1. repair \in RepairRuns
      BY <1>10, PersistType
    <2>2. repair' \in RepairRuns
      BY <1>10, <2>1 DEF Persist, RepairGoes, RepairRuns
    <2>3. files' \in Partial(Paths, Rollout)
      BY <1>10, PersistType, PutType DEF Persist
    <2>4. QED
      BY <1>10, <2>2, <2>3 DEF TypeOK, Persist, RepairGoes, RepairOnly, history
  <1>11. QED
    BY <1>1, <1>2, <1>3, <1>4, <1>5, <1>6, <1>7, <1>8, <1>9, <1>10

LEMMA CodexTypeStep ==
  ASSUME TypeOK, FileInv,
         \/ \E p \in Paths : Open(p) \/ Turn(p) \/ Close(p) \/ Index(p)
         \/ \E p, q \in Paths : Move(p, q)
  PROVE  TypeOK'
  <1> USE DEF CodexOnly
  <1>1. done' \in 0..MaxCodex
    <2>1. done < MaxCodex /\ done' = done + 1
      BY DEF Open, Turn, Close, Index, Move
    <2>2. QED
      BY <2>1, BoundsAssumption DEF TypeOK
  <1>2. \A p \in Paths : Thread(p) \in Threads
    BY DEF Paths, Thread
  <1>3. ASSUME NEW p \in Paths, Open(p)
        PROVE  TypeOK'
    <2>1. disturbed' \subseteq Threads
      BY <1>2, <1>3 DEF TypeOK, Open, Touched
    <2>2. QED
      BY <1>1, <1>3, <2>1 DEF TypeOK, Open
  <1>4. ASSUME NEW p \in Paths, Turn(p)
        PROVE  TypeOK'
    <2> DEFINE t == Thread(p)
               turn == Cardinality(said[t])
    <2>1. t \in Threads /\ said[t] \in SUBSET (0..MaxTurns)
      BY <1>2 DEF TypeOK
    <2>2. turn \in Nat
      <3>1. IsFiniteSet(0..MaxTurns)
        BY FS_Interval, BoundsAssumption
      <3>2. IsFiniteSet(said[t])
        BY <2>1, <3>1, FS_Subset
      <3>3. QED
        BY <3>2, FS_CardinalityType
    <2>3. turn \in 0..MaxTurns
      BY <1>4, <2>2, BoundsAssumption DEF Turn
    <2>4. said' \in [Threads -> SUBSET (0..MaxTurns)]
      BY <1>4, <2>1, <2>3 DEF TypeOK, Turn
    <2>5. files' \in Partial(Paths, Rollout)
      <3>1. CASE p \in cut
        BY <1>4, <3>1 DEF TypeOK, Turn
      <3>2. CASE p \notin cut
        <4>1. p \in DOMAIN files
          BY <1>4 DEF FileInv, Turn
        <4>2. files[p] \in Rollout
          BY <4>1, FilesType
        <4>3. [files[p] EXCEPT !.turns = @ \cup {turn}] \in Rollout
          BY <2>3, <4>2 DEF Rollout
        <4>4. Put(p, [files[p] EXCEPT !.turns = @ \cup {turn}])
          BY <1>4, <3>2 DEF Turn
        <4>5. QED
          BY <4>3, <4>4, PutType
      <3>3. QED
        BY <3>1, <3>2
    <2>6. QED
      BY <1>1, <1>4, <2>4, <2>5 DEF TypeOK, Turn
  <1>5. ASSUME NEW p \in Paths, Close(p)
        PROVE  TypeOK'
    BY <1>1, <1>5 DEF TypeOK, Close, history
  <1>6. ASSUME NEW p \in Paths, Index(p)
        PROVE  TypeOK'
    <2>1. files[p] \in Rollout
      BY <1>6, FilesType DEF Index
    <2>2. /\ DOMAIN rows' = DOMAIN rows \cup {Thread(p)}
          /\ rows' \in [DOMAIN rows \cup {Thread(p)} -> Row]
      BY <1>6, <2>1, FilesType DEF Index, Rollout, Row
    <2>3. DOMAIN rows' \subseteq Threads
      BY <1>2, <2>2, FilesType
    <2>4. rows' \in Partial(Threads, Row)
      BY <2>2, <2>3, PartialType
    <2>5. QED
      BY <1>1, <1>6, <2>4 DEF TypeOK, Index, history
  <1>7. ASSUME NEW p \in Paths, NEW q \in Paths, Move(p, q)
        PROVE  TypeOK'
    <2>1. /\ DOMAIN files' = (DOMAIN files \ {p}) \cup {q}
          /\ files' \in [(DOMAIN files \ {p}) \cup {q} -> Rollout]
      BY <1>7, FilesType DEF Move
    <2>2. files' \in Partial(Paths, Rollout)
      BY <2>1, FilesType, PartialType
    <2>3. disturbed' \subseteq Threads /\ missed' \subseteq Threads
      BY <1>2, <1>7 DEF TypeOK, Move, Touched
    <2>4. QED
      BY <1>1, <1>7, <2>2, <2>3 DEF TypeOK, Move
  <1>8. QED
    BY <1>3, <1>4, <1>5, <1>6, <1>7

LEMMA TypeStep ==
  ASSUME SyncInv, [Next]_vars
  PROVE  TypeOK'
  <1>1. TypeOK /\ FileInv /\ RolloutInv
    BY DEF SyncInv
  <1>2. CASE UNCHANGED vars
    BY <1>1, <1>2 DEF TypeOK, vars, codex, history
  <1>3. CASE Next
    BY <1>1, <1>3, SyncTypeStep, RepairTypeStep, CodexTypeStep DEF Next
  <1>4. QED
    BY <1>2, <1>3

-----------------------------------------------------------------------------
(* One run at a time *)

LEMMA RunStep ==
  ASSUME SyncInv, [Next]_vars
  PROVE  RunInv'
  <1>1. RunInv
    BY DEF SyncInv
  <1>2. CASE sync' = sync /\ repair' = repair
    BY <1>1, <1>2 DEF RunInv
  <1>3. ASSUME NEW provider, NEW remote, StartSync(provider, remote)
        PROVE  RunInv'
    BY <1>3 DEF RunInv, StartSync
  <1>4. ASSUME NEW provider, StartRepair(provider)
        PROVE  RunInv'
    BY <1>4 DEF RunInv, StartRepair
  <1>5. ASSUME sync.pc \in Syncing, repair' = repair
        PROVE  RunInv'
    BY <1>1, <1>5 DEF RunInv, Syncing
  <1>6. ASSUME repair.pc \in Repairing, sync' = sync
        PROVE  RunInv'
    BY <1>1, <1>6 DEF RunInv, Repairing
  <1>7. CASE UNCHANGED vars
    BY <1>2, <1>7 DEF vars
  <1>8. CASE index_local_sessions \/ SyncDone \/ SyncStops \/ \E p \in Paths : import_staged_rollouts(p) \/ install_new_rollout(p)
    BY <1>5, <1>8 DEF index_local_sessions, SyncDone, SyncStops, import_staged_rollouts, install_new_rollout,
                      SyncGoes, SyncOnly, Syncing
  <1>9. CASE \/ ReadRollouts \/ backup_rollouts \/ BeginTransaction \/ Commit \/ ApplyFails \/ Restored \/ RepairStops
             \/ \E p \in Paths : CheckReplaced(p) \/ Persist(p)
    BY <1>6, <1>9 DEF ReadRollouts, backup_rollouts, BeginTransaction, Commit, ApplyFails, Restored, RepairStops,
                      CheckReplaced, Persist, RepairGoes, RepairOnly, Repairing
  <1>10. CASE \/ \E p \in Paths : Open(p) \/ Turn(p) \/ Close(p) \/ Index(p)
              \/ \E p, q \in Paths : Move(p, q)
    BY <1>2, <1>10 DEF Open, Turn, Close, Index, Move, CodexOnly
  <1>11. QED
    BY <1>3, <1>4, <1>7, <1>8, <1>9, <1>10 DEF Next

-----------------------------------------------------------------------------
(* Files and their turns *)

\* Neither a file nor a turn, and no thread is forgotten to be disturbed.
LEMMA SameFiles ==
  ASSUME FileInv, files' = files, said' = said, open' \subseteq open,
         \A p \in cut' : p \in cut \/ Thread(p) \in disturbed',
         missed \subseteq missed', disturbed \subseteq disturbed'
  PROVE  FileInv'
  BY DEF FileInv, Single, Stable, Kept

\* A file of the same thread in place of another, with all its turns.
LEMMA PutFile ==
  ASSUME FileInv, NEW p, NEW rollout, Put(p, rollout),
         p \in DOMAIN files \/ ~Stable(Thread(p)) \/ ~HasFile(Thread(p)),
         Thread(p) \notin disturbed /\ p \in DOMAIN files => files[p].turns \subseteq rollout.turns,
         UNCHANGED <<said, open, missed, disturbed>>,
         \A q \in cut' : q \in cut \/ Thread(q) \in disturbed
  PROVE  FileInv'
  <1>1. /\ DOMAIN files' = DOMAIN files \cup {p}
        /\ files'[p] = rollout
        /\ \A q \in DOMAIN files : q # p => files'[q] = files[q]
    BY DEF Put
  <1>2. open' \subseteq DOMAIN files' /\ \A q \in cut' : Thread(q) \in disturbed'
    BY <1>1 DEF FileInv
  <1>3. Single'
    BY <1>1 DEF FileInv, Single, Stable, HasFile
  <1>4. Kept'
    BY <1>1 DEF FileInv, Kept
  <1>5. QED
    BY <1>2, <1>3, <1>4 DEF FileInv

LEMMA FileStep ==
  ASSUME SyncInv, [Next]_vars
  PROVE  FileInv'
  <1>1. TypeOK /\ FileInv /\ ImportInv /\ RolloutInv
    BY DEF SyncInv
  <1>2. CASE UNCHANGED vars
    BY <1>1, <1>2, SameFiles DEF vars, codex, history
  <1>3. ASSUME NEW provider, NEW remote, StartSync(provider, remote)
        PROVE  FileInv'
    BY <1>1, <1>3, SameFiles DEF StartSync, codex, history
  <1>4. ASSUME NEW provider, StartRepair(provider)
        PROVE  FileInv'
    BY <1>1, <1>4, SameFiles DEF StartRepair, codex
  <1>5. CASE index_local_sessions \/ SyncDone \/ SyncStops \/ \E p \in Paths : import_staged_rollouts(p)
    BY <1>1, <1>5, SameFiles DEF index_local_sessions, SyncDone, SyncStops, import_staged_rollouts,
                                 SyncGoes, SyncOnly, codex, history
  <1>6. ASSUME NEW p \in Paths, install_new_rollout(p)
        PROVE  FileInv'
    <2>1. Thread(p) \notin sync.known /\ p \notin DOMAIN files
      BY <1>1, <1>6 DEF install_new_rollout, ImportInv
    <2>2. ~Stable(Thread(p)) \/ ~HasFile(Thread(p))
      BY <1>1, <1>6, <2>1 DEF install_new_rollout, ImportInv, Stable, HasFile
    <2>3. QED
      BY <1>1, <1>6, <2>1, <2>2, PutFile DEF install_new_rollout, SyncGoes, SyncOnly, codex, history, FileInv
  <1>7. CASE \/ ReadRollouts \/ backup_rollouts \/ BeginTransaction \/ Commit \/ ApplyFails \/ Restored \/ RepairStops
             \/ \E p \in Paths : CheckReplaced(p)
    BY <1>1, <1>7, SameFiles DEF ReadRollouts, backup_rollouts, BeginTransaction, Commit, ApplyFails, Restored, RepairStops,
                                 CheckReplaced, RepairGoes, RepairOnly, Looks, history
  <1>8. ASSUME NEW p \in Paths, Persist(p)
        PROVE  FileInv'
    <2>1. repair.pc \in {"replace", "restore"} /\ p \in DOMAIN repair.records /\ p \in repair.changes
      BY <1>1, <1>8 DEF Persist, RolloutInv, Changing
    <2>2. Thread(p) \notin disturbed =>
            /\ p \in DOMAIN files /\ files[p].turns = repair.records[p].turns
            /\ repair.pc = "restore" => repair.backup[p].turns = repair.records[p].turns
      BY <1>1, <2>1 DEF RolloutInv, Changing
    <2>3. repair.pc = "replace" => Updated(p).turns = repair.records[p].turns
      BY <1>1, <1>8, <2>1, PersistType, RecordsType DEF Updated, Rollout
    <2>4. \A q \in cut' : q \in cut \/ Thread(q) \in disturbed
      BY <1>1, <1>8, <2>1 DEF Persist, RolloutInv, Repairing
    <2>5. p \in DOMAIN files \/ ~Stable(Thread(p))
      BY <2>2 DEF Stable
    <2>6. UNCHANGED <<said, open, missed, disturbed>>
      BY <1>8 DEF Persist, RepairGoes, RepairOnly, history
    <2>7. CASE repair.pc = "replace"
      BY <1>1, <1>8, <2>2, <2>3, <2>4, <2>5, <2>6, <2>7, PutFile DEF Persist
    <2>8. CASE repair.pc = "restore"
      BY <1>1, <1>8, <2>2, <2>4, <2>5, <2>6, <2>8, PutFile DEF Persist
    <2>9. QED
      BY <2>1, <2>7, <2>8
  <1>9. ASSUME NEW p \in Paths, Open(p)
        PROVE  FileInv'
    <2>1. open' \subseteq DOMAIN files' /\ files' = files /\ said' = said /\ cut' = cut /\ missed' = missed
      BY <1>1, <1>9 DEF Open, FileInv
    <2>2. disturbed \subseteq disturbed'
      BY <1>9 DEF Open, Touched
    <2>3. QED
      BY <1>1, <2>1, <2>2 DEF FileInv, Single, Stable, Kept
  <1>10. ASSUME NEW p \in Paths, Turn(p)
         PROVE  FileInv'
    <2> DEFINE t == Thread(p)
               turn == Cardinality(said[t])
    <2>1. p \in DOMAIN files /\ files[p] \in Rollout /\ t \in Threads
      BY <1>1, <1>10, FilesType DEF Turn, FileInv
    <2>2. said' = [said EXCEPT ![t] = @ \cup {turn}] /\ UNCHANGED <<open, cut, missed, disturbed>>
      BY <1>10 DEF Turn
    <2>3. CASE p \in cut
      <3>1. t \in disturbed /\ files' = files
        BY <1>1, <1>10, <2>3 DEF Turn, FileInv
      <3>2. \A u \in Threads \ disturbed : said'[u] = said[u]
        BY <1>1, <2>2, <3>1 DEF TypeOK
      <3>3. QED
        BY <1>1, <2>2, <3>1, <3>2 DEF FileInv, Single, Stable, Kept
    <2>4. CASE p \notin cut
      <3>1. files' = [q \in DOMAIN files \cup {p} |-> IF q = p THEN [files[p] EXCEPT !.turns = @ \cup {turn}] ELSE files[q]]
        BY <1>10, <2>4 DEF Turn, Put
      <3>2. /\ DOMAIN files' = DOMAIN files
            /\ files'[p].turns = files[p].turns \cup {turn}
            /\ \A q \in DOMAIN files : q # p => files'[q] = files[q]
        BY <2>1, <3>1 DEF Rollout
      <3>3. \A u \in Threads : \A n \in said'[u] : n \in said[u] \/ (u = t /\ n = turn)
        BY <1>1, <2>2 DEF TypeOK
      <3>4. \A q \in DOMAIN files : \A n \in files[q].turns : n \in files'[q].turns
        BY <3>2
      <3>5. turn \in files'[p].turns
        BY <3>2
      <3> HIDE DEF turn
      <3>6. Kept'
        BY <1>1, <2>1, <2>2, <3>2, <3>3, <3>4, <3>5 DEF FileInv, Kept
      <3>7. QED
        BY <1>1, <2>2, <3>2, <3>6 DEF FileInv, Single, Stable
    <2>5. QED
      BY <2>3, <2>4
  <1>11. ASSUME NEW p \in Paths, Close(p) \/ Index(p)
         PROVE  FileInv'
    BY <1>1, <1>11, SameFiles DEF Close, Index, history
  <1>12. ASSUME NEW p \in Paths, NEW q \in Paths, Move(p, q)
         PROVE  FileInv'
    <2>1. /\ DOMAIN files' = (DOMAIN files \ {p}) \cup {q}
          /\ files'[q] = files[p] /\ p \in DOMAIN files
          /\ \A r \in DOMAIN files \ {p} : r # q /\ files'[r] = files[r]
          /\ Thread(p) = Thread(q) /\ p \notin open
      BY <1>12 DEF Move
    <2>2. UNCHANGED <<open, cut, said>> /\ missed \subseteq missed' /\ disturbed \subseteq disturbed'
      BY <1>12 DEF Move, Touched
    <2>3. Kept'
      BY <1>1, <2>1, <2>2 DEF FileInv, Kept
    <2>4. Single'
      BY <1>1, <2>1, <2>2 DEF FileInv, Single, Stable
    <2>5. QED
      BY <1>1, <2>1, <2>2, <2>3, <2>4 DEF FileInv
  <1>13. QED
    BY <1>2, <1>3, <1>4, <1>5, <1>6, <1>7, <1>8, <1>9, <1>10, <1>11, <1>12 DEF Next

-----------------------------------------------------------------------------
(* The import *)

LEMMA NoImport ==
  ASSUME sync' = Idle \/ sync' = Failed
  PROVE  ImportInv'
  BY DEF ImportInv

\* Codex moves a rollout or leaves all where they are.
LEMMA SameSync ==
  ASSUME ImportInv, sync' = sync, missed \subseteq missed',
         \A t : HasFile(t) => HasFile(t)',
         \A p \in DOMAIN files' : \/ p \in DOMAIN files
                                  \/ /\ HasFile(Thread(p))
                                     /\ sync.pc = "list_archived" /\ p[1] = "sessions" => Thread(p) \in missed'
  PROVE  ImportInv'
  BY DEF ImportInv, HasFile

LEMMA ImportStep ==
  ASSUME SyncInv, [Next]_vars
  PROVE  ImportInv'
  <1>1. TypeOK /\ RunInv /\ FileInv /\ ImportInv
    BY DEF SyncInv
  <1>2. CASE UNCHANGED vars
    BY <1>1, <1>2, SameSync DEF vars, history, HasFile
  <1>3. ASSUME NEW provider, NEW remote, StartSync(provider, remote)
        PROVE  ImportInv'
    BY <1>3 DEF StartSync, ImportInv, SeenIn
  <1>4. ASSUME NEW provider, StartRepair(provider)
        PROVE  ImportInv'
    BY <1>4, NoImport DEF StartRepair
  <1>5. CASE index_local_sessions
    <2> DEFINE listed == sync.listed \cup SeenIn("archived_sessions")
               known == {Thread(p) : p \in listed}
    <2>1. sync \in SyncRuns /\ sync.pc = "list_archived"
      BY <1>1, <1>5, RunsType DEF index_local_sessions, SyncGoes, Syncing
    <2>2. /\ sync'.pc = "import" /\ sync'.known = known /\ listed \subseteq DOMAIN files
          /\ sync'.left = sync.left /\ sync'.staged = sync.staged /\ sync'.destination = sync.destination
      BY <1>5, <2>1 DEF index_local_sessions, SyncGoes, SyncRuns
    <2>3. UNCHANGED <<files, missed>>
      BY <1>5 DEF index_local_sessions, SyncGoes, SyncOnly, history
    <2>4. \A p \in DOMAIN files : Thread(p) \in known \cup missed
      <3>1. TAKE p \in DOMAIN files
      <3>2. p[1] \in SESSION_DIRS
        BY <1>1, FilesType DEF Paths
      <3>3. p \in listed \/ Thread(p) \in missed
        BY <1>1, <2>1, <3>2 DEF ImportInv, SeenIn, SESSION_DIRS
      <3>4. QED
        BY <3>3
    <2>5. \A t \in known : HasFile(t)
      BY <2>2 DEF HasFile
    <2>6. sync.destination = {} /\ \A p \in sync.staged : p \in sync.left
      BY <1>1, <2>1 DEF ImportInv
    <2> HIDE DEF known, listed
    <2>7. QED
      BY <2>2, <2>3, <2>4, <2>5, <2>6 DEF ImportInv, HasFile
  <1>6. ASSUME NEW p \in Paths, import_staged_rollouts(p)
        PROVE  ImportInv'
    <2>1. sync \in SyncRuns /\ sync.pc = "import" /\ p \in sync.left
      BY <1>1, <1>6, RunsType DEF import_staged_rollouts, Syncing
    <2>2. UNCHANGED <<files, missed>>
      BY <1>6 DEF import_staged_rollouts, SyncGoes, SyncOnly, history
    <2>3. CASE Thread(p) \in sync.known \/ p \in DOMAIN files
      <3>1. sync' = [sync EXCEPT !.left = @ \ {p}] /\ HasFile(Thread(p))
        BY <1>1, <1>6, <2>1, <2>3 DEF import_staged_rollouts, SyncGoes, ImportInv, HasFile
      <3>2. QED
        BY <1>1, <2>1, <2>2, <3>1 DEF ImportInv, HasFile, SyncRuns
    <2>4. CASE ~(Thread(p) \in sync.known \/ p \in DOMAIN files)
      <3>1. sync' = [sync EXCEPT !.left = @ \ {p}, !.pc = "install", !.destination = {p}]
        BY <1>6, <2>4 DEF import_staged_rollouts, SyncGoes
      <3>2. QED
        BY <1>1, <2>1, <2>2, <2>4, <3>1 DEF ImportInv, HasFile, SyncRuns
    <2>5. QED
      BY <2>3, <2>4
  <1>7. ASSUME NEW p \in Paths, install_new_rollout(p)
        PROVE  ImportInv'
    <2>1. sync \in SyncRuns /\ sync.pc = "install" /\ p \in sync.destination
      BY <1>1, <1>7, RunsType DEF install_new_rollout, Syncing
    <2>2. sync' = [sync EXCEPT !.pc = "import", !.destination = {}, !.known = @ \cup {Thread(p)}]
      BY <1>7 DEF install_new_rollout, SyncGoes
    <2>3. DOMAIN files' = DOMAIN files \cup {p} /\ missed' = missed
      BY <1>7 DEF install_new_rollout, SyncGoes, SyncOnly, Put, history
    <2>4. sync.destination = {p}
      BY <1>1, <2>1 DEF ImportInv
    <2>5. QED
      BY <1>1, <2>1, <2>2, <2>3, <2>4 DEF ImportInv, HasFile, SyncRuns
  <1>8. CASE SyncDone
    <2>1. sync \in SyncRuns /\ sync.pc = "import" /\ sync.left = {} /\ sync' = [sync EXCEPT !.pc = "done"]
      BY <1>1, <1>8, RunsType DEF SyncDone, SyncGoes, Syncing
    <2>2. files' = files
      BY <1>8 DEF SyncDone
    <2>3. QED
      BY <1>1, <2>1, <2>2 DEF ImportInv, HasFile, SyncRuns
  <1>9. CASE SyncStops
    BY <1>9, NoImport DEF SyncStops, SyncGoes
  <1>10. CASE \/ ReadRollouts \/ backup_rollouts \/ BeginTransaction \/ Commit \/ ApplyFails \/ Restored \/ RepairStops
              \/ \E p \in Paths : CheckReplaced(p) \/ Persist(p)
    <2>1. repair.pc \in Repairing /\ sync' = sync
      BY <1>10 DEF ReadRollouts, backup_rollouts, BeginTransaction, Commit, ApplyFails, Restored, RepairStops,
                   CheckReplaced, Persist, RepairGoes, RepairOnly, Repairing
    <2>2. sync' = Idle
      BY <1>1, <2>1 DEF RunInv, Repairing
    <2>3. QED
      BY <2>2, NoImport
  <1>11. ASSUME NEW p \in Paths, Open(p) \/ Close(p) \/ Index(p) \/ Turn(p)
         PROVE  ImportInv'
    <2>1. sync' = sync /\ missed' = missed
      BY <1>11 DEF Open, Close, Index, Turn, CodexOnly, history
    <2>2. DOMAIN files' = DOMAIN files
      BY <1>1, <1>11 DEF Open, Close, Index, Turn, Put, FileInv
    <2>3. QED
      BY <1>1, <2>1, <2>2, SameSync DEF HasFile
  <1>12. ASSUME NEW p \in Paths, NEW q \in Paths, Move(p, q)
         PROVE  ImportInv'
    <2>1. sync' = sync /\ DOMAIN files' = (DOMAIN files \ {p}) \cup {q} /\ p \in DOMAIN files /\ Thread(p) = Thread(q)
      BY <1>12 DEF Move, CodexOnly
    <2>2. missed \subseteq missed' /\ (sync.pc = "list_archived" /\ q[1] = "sessions" => Thread(p) \in missed')
      BY <1>12 DEF Move
    <2>3. \A t : HasFile(t) => HasFile(t)'
      BY <2>1 DEF HasFile
    <2>4. HasFile(Thread(q))
      BY <2>1 DEF HasFile
    <2>5. QED
      BY <1>1, <2>1, <2>2, <2>3, <2>4, SameSync
  <1>13. QED
    BY <1>2, <1>3, <1>4, <1>5, <1>6, <1>7, <1>8, <1>9, <1>10, <1>11, <1>12 DEF Next

-----------------------------------------------------------------------------
(* What a repair has read, and what has become of it *)

LEMMA NoRepair ==
  ASSUME repair'.pc \notin Repairing
  PROVE  RolloutInv'
  BY DEF RolloutInv, Repairing, Changing

\* Codex works only on rollouts it has open, or disturbs their thread.
LEMMA SameRepair ==
  ASSUME RolloutInv, repair' = repair, disturbed \subseteq disturbed',
         repair.pc \in Repairing => \A p \in open' : Thread(p) \in disturbed',
         repair.pc \in Repairing => \A p \in DOMAIN files : Thread(p) \notin disturbed' => p \in DOMAIN files' /\ files'[p] = files[p]
  PROVE  RolloutInv'
  BY DEF RolloutInv, Repairing, Changing, Updated

LEMMA ReadRolloutInv ==
  ASSUME TypeOK, RolloutInv, ReadRollouts
  PROVE  RolloutInv'
  <1> DEFINE listed == repair.listed \cup SeenIn("archived_sessions")
             records == Restrict(files, listed)
             changes == collect_repair_changes(records)
  <1>1. repair \in RepairRuns /\ repair.pc = "list_archived" /\ listed \subseteq DOMAIN files
    BY RunsType DEF ReadRollouts, Repairing
  <1>2. DOMAIN records = listed /\ \A p \in listed : records[p] = files[p]
    BY <1>1, RestrictType
  <1>3. changes \subseteq listed /\ \A p \in listed \ changes : records[p].provider = repair.provider
    BY <1>2 DEF collect_repair_changes, RolloutNeedsUpdate
  <1>4. repair' = [repair EXCEPT !.pc = IF changes = {} THEN "done" ELSE "backup",
                                 !.listed = {}, !.records = records, !.seen = rows, !.changes = changes]
    BY DEF ReadRollouts, RepairGoes
  <1>5. UNCHANGED <<files, open, disturbed>>
    BY DEF ReadRollouts, RepairGoes, RepairOnly, Looks, history
  <1> HIDE DEF listed, records, changes
  <1>6. CASE changes = {}
    <2>1. repair'.pc = "done"
      BY <1>1, <1>4, <1>6 DEF RepairRuns
    <2>2. QED
      BY <2>1, NoRepair DEF Repairing
  <1>7. CASE changes # {}
    <2>1. /\ repair'.pc = "backup" /\ repair'.records = records /\ repair'.changes = changes /\ repair'.provider = repair.provider
          /\ repair'.left = repair.left /\ repair'.writing = repair.writing /\ repair'.backup = repair.backup
      BY <1>1, <1>4, <1>7 DEF RepairRuns
    <2>2. repair.left = {} /\ repair.writing = {} /\ DOMAIN repair.backup = {} /\ \A p \in open : Thread(p) \in disturbed
      BY <1>1 DEF RolloutInv, Repairing
    <2>3. QED
      BY <1>1, <1>2, <1>3, <1>5, <2>1, <2>2 DEF RolloutInv, Repairing, Changing
  <1>8. QED
    BY <1>6, <1>7

LEMMA BackupRolloutInv ==
  ASSUME TypeOK, RolloutInv, backup_rollouts
  PROVE  RolloutInv'
  <1>1. repair \in RepairRuns /\ repair.pc = "backup" /\ repair.changes \subseteq DOMAIN files
    BY RunsType DEF backup_rollouts, Repairing
  <1>2. repair' = [repair EXCEPT !.pc = "begin", !.backup = Restrict(files, repair.changes)]
    BY DEF backup_rollouts, RepairGoes
  <1>3. UNCHANGED <<files, open, disturbed>>
    BY DEF backup_rollouts, RepairGoes, RepairOnly, Looks, history
  <1>4. DOMAIN Restrict(files, repair.changes) = repair.changes /\ \A p \in repair.changes : Restrict(files, repair.changes)[p] = files[p]
    BY <1>1, RestrictType
  <1>5. /\ repair'.pc = "begin" /\ repair'.records = repair.records /\ repair'.changes = repair.changes
        /\ repair'.provider = repair.provider /\ repair'.left = {} /\ repair'.writing = {}
        /\ repair'.backup = Restrict(files, repair.changes)
    BY <1>1, <1>2 DEF RepairRuns, RolloutInv
  <1>6. \A p \in open : Thread(p) \in disturbed
    BY <1>1 DEF RolloutInv, Repairing
  <1>7. QED
    BY <1>1, <1>3, <1>4, <1>5, <1>6 DEF RolloutInv, Changing

LEMMA BeginRolloutInv ==
  ASSUME TypeOK, RolloutInv, BeginTransaction
  PROVE  RolloutInv'
  <1> DEFINE left == {p \in repair.changes : RolloutNeedsUpdate(repair.records[p])}
  <1>1. repair \in RepairRuns /\ repair.pc = "begin"
    BY RunsType DEF BeginTransaction, RepairGoes, Repairing
  <1>2. repair' = [repair EXCEPT !.pc = "replace", !.left = left]
    BY DEF BeginTransaction, RepairGoes
  <1>3. UNCHANGED <<files, open, disturbed>>
    BY DEF BeginTransaction, RepairGoes, RepairOnly, Looks, history
  <1>4. /\ repair'.pc = "replace" /\ repair'.records = repair.records /\ repair'.changes = repair.changes
        /\ repair'.provider = repair.provider /\ repair'.left = left /\ repair'.writing = {}
        /\ repair'.backup = repair.backup
    BY <1>1, <1>2 DEF RepairRuns, RolloutInv
  <1>5. \A p \in DOMAIN repair.records : p \notin left /\ Thread(p) \notin disturbed => Updated(p) = repair.records[p]
    <2>1. TAKE p \in DOMAIN repair.records
    <2>2. HAVE p \notin left /\ Thread(p) \notin disturbed
    <2>3. repair.records[p] \in Rollout /\ repair.records[p].provider = repair.provider
      BY <1>1, <2>2, RecordsType DEF RolloutInv, Changing, RolloutNeedsUpdate
    <2>4. QED
      BY <2>3 DEF Updated, Rollout
  <1>6. \A p : Updated(p)' = Updated(p)
    BY <1>4 DEF Updated
  <1>7. \A p \in open : Thread(p) \in disturbed
    BY <1>1 DEF RolloutInv, Repairing
  <1>8. left \subseteq repair.changes
    OBVIOUS
  <1> HIDE DEF left
  <1>9. QED
    BY <1>1, <1>3, <1>4, <1>5, <1>6, <1>7, <1>8 DEF RolloutInv, Changing

LEMMA CheckRolloutInv ==
  ASSUME TypeOK, RolloutInv, NEW p \in Paths, CheckReplaced(p)
  PROVE  RolloutInv'
  <1>1. repair \in RepairRuns /\ repair.pc \in {"replace", "restore"} /\ p \in repair.left
    BY RunsType DEF CheckReplaced, Repairing
  <1>2. UNCHANGED <<files, open, disturbed>>
    BY DEF CheckReplaced, RepairGoes, RepairOnly, Looks, history
  <1>3. /\ repair'.pc = repair.pc /\ repair'.records = repair.records /\ repair'.changes = repair.changes
        /\ repair'.provider = repair.provider /\ repair'.left = repair.left /\ repair'.writing = {p}
        /\ repair'.backup = repair.backup
    BY <1>1 DEF CheckReplaced, RepairGoes, RepairRuns
  <1>4. \A q : Updated(q)' = Updated(q)
    BY <1>3 DEF Updated
  <1>5. QED
    BY <1>1, <1>2, <1>3, <1>4 DEF RolloutInv, Changing, Repairing

LEMMA FailsRolloutInv ==
  ASSUME TypeOK, RolloutInv, ApplyFails
  PROVE  RolloutInv'
  <1>1. repair \in RepairRuns /\ repair.pc \in {"begin", "replace"}
    BY RunsType DEF ApplyFails, Repairing
  <1>2. UNCHANGED <<files, open, disturbed>>
    BY DEF ApplyFails, RepairGoes, RepairOnly, Looks, history
  <1>3. /\ repair'.pc = "restore" /\ repair'.records = repair.records /\ repair'.changes = repair.changes
        /\ repair'.provider = repair.provider /\ repair'.left = repair.changes /\ repair'.writing = {}
        /\ repair'.backup = repair.backup
    BY <1>1 DEF ApplyFails, RepairGoes, RepairRuns
  <1>4. QED
    BY <1>1, <1>2, <1>3 DEF RolloutInv, Changing, Repairing

LEMMA PersistRolloutInv ==
  ASSUME TypeOK, RolloutInv, NEW p \in Paths, Persist(p)
  PROVE  RolloutInv'
  <1> DEFINE rollout == IF repair.pc = "replace" THEN Updated(p) ELSE repair.backup[p]
  <1>1. repair \in RepairRuns /\ repair.pc \in {"replace", "restore"} /\ p \in repair.changes /\ p \in DOMAIN repair.records
    BY PersistType DEF Persist, RolloutInv, Changing
  <1>2. UNCHANGED <<open, disturbed>>
    BY DEF Persist, RepairGoes, RepairOnly, history
  <1>3. /\ repair'.pc = repair.pc /\ repair'.records = repair.records /\ repair'.changes = repair.changes
        /\ repair'.provider = repair.provider /\ repair'.left = repair.left \ {p} /\ repair'.writing = {}
        /\ repair'.backup = repair.backup
    BY <1>1 DEF Persist, RepairGoes, RepairRuns
  <1>4. /\ DOMAIN files' = DOMAIN files \cup {p} /\ files'[p] = rollout
        /\ \A q \in DOMAIN files : q # p => files'[q] = files[q]
    BY DEF Persist, Put
  <1>5. \A q : Updated(q)' = Updated(q)
    BY <1>3 DEF Updated
  <1>6. Updated(p).turns = repair.records[p].turns
    BY <1>1, RecordsType DEF Updated, Rollout
  <1>7. Thread(p) \notin disturbed =>
          /\ rollout.turns = repair.records[p].turns
          /\ repair.pc = "restore" => rollout = repair.records[p]
          /\ repair.pc = "replace" => rollout = Updated(p)
    BY <1>1, <1>6, PersistType DEF RolloutInv, Changing
  <1> HIDE DEF rollout
  <1>8. QED
    BY <1>1, <1>2, <1>3, <1>4, <1>5, <1>7 DEF RolloutInv, Changing, Repairing

LEMMA RolloutStep ==
  ASSUME SyncInv, [Next]_vars
  PROVE  RolloutInv'
  <1>1. TypeOK /\ RunInv /\ FileInv /\ RolloutInv
    BY DEF SyncInv
  <1>2. CASE UNCHANGED vars
    BY <1>1, <1>2, SameRepair DEF vars, codex, history, RolloutInv
  <1>3. ASSUME NEW provider, NEW remote, StartSync(provider, remote)
        PROVE  RolloutInv'
    BY <1>3, NoRepair DEF StartSync, Repairing
  <1>4. ASSUME NEW provider, StartRepair(provider)
        PROVE  RolloutInv'
    <2>1. /\ repair'.pc = "list_archived" /\ repair'.left = {} /\ repair'.writing = {}
          /\ repair'.backup = Nothing /\ open' = open /\ disturbed' = disturbed \cup Opened
      BY <1>4 DEF StartRepair, codex
    <2>2. DOMAIN Nothing = {}
      BY NothingType
    <2>3. QED
      BY <2>1, <2>2 DEF RolloutInv, Changing, Opened
  <1>5. CASE \/ index_local_sessions \/ SyncDone \/ SyncStops
             \/ \E p \in Paths : import_staged_rollouts(p) \/ install_new_rollout(p)
    <2>1. sync.pc \in Syncing /\ repair' = repair
      BY <1>5 DEF index_local_sessions, SyncDone, SyncStops, import_staged_rollouts, install_new_rollout,
                  SyncGoes, SyncOnly, Syncing
    <2>2. repair' = Idle
      BY <1>1, <2>1 DEF RunInv, Syncing
    <2>3. QED
      BY <2>2, NoRepair DEF Repairing
  <1>6. CASE ReadRollouts
    BY <1>1, <1>6, ReadRolloutInv
  <1>7. CASE backup_rollouts
    BY <1>1, <1>7, BackupRolloutInv
  <1>8. CASE BeginTransaction
    BY <1>1, <1>8, BeginRolloutInv
  <1>9. ASSUME NEW p \in Paths, CheckReplaced(p) \/ Persist(p)
        PROVE  RolloutInv'
    BY <1>1, <1>9, CheckRolloutInv, PersistRolloutInv
  <1>10. CASE ApplyFails
    BY <1>1, <1>10, FailsRolloutInv
  <1>11. CASE Commit \/ Restored \/ RepairStops
    <2>1. repair'.pc \in {"done", "restored", "idle", "failed"}
      <3>1. CASE RepairStops
        BY <3>1 DEF RepairStops, RepairGoes
      <3>2. CASE Commit \/ Restored
        <4>1. repair \in RepairRuns
          BY <1>1, <3>2, RunsType DEF Commit, Restored, Repairing
        <4>2. QED
          BY <3>2, <4>1 DEF Commit, Restored, RepairGoes, RepairRuns
      <3>3. QED
        BY <1>11, <3>1, <3>2
    <2>2. QED
      BY <2>1, NoRepair DEF Repairing
  <1>12. ASSUME NEW p \in Paths, Open(p)
         PROVE  RolloutInv'
    <2>1. repair' = repair /\ files' = files /\ open' = open \cup {p} /\ disturbed \subseteq disturbed'
      BY <1>12 DEF Open, CodexOnly, Touched
    <2>2. repair.pc \in Repairing => Thread(p) \in disturbed'
      BY <1>12 DEF Open, Touched, RepairAtWork
    <2>3. repair.pc \in Repairing => \A q \in open : Thread(q) \in disturbed
      BY <1>1 DEF RolloutInv
    <2>4. QED
      BY <1>1, <2>1, <2>2, <2>3, SameRepair
  <1>13. ASSUME NEW p \in Paths, Turn(p)
         PROVE  RolloutInv'
    <2>1. repair' = repair /\ open' = open /\ disturbed' = disturbed /\ p \in open
      BY <1>13 DEF Turn, CodexOnly
    <2>2. DOMAIN files \subseteq DOMAIN files' /\ \A q \in DOMAIN files : q # p => files'[q] = files[q]
      BY <1>13 DEF Turn, Put
    <2>3. repair.pc \in Repairing => \A q \in open : Thread(q) \in disturbed
      BY <1>1 DEF RolloutInv
    <2>4. QED
      BY <1>1, <2>1, <2>2, <2>3, SameRepair
  <1>14. ASSUME NEW p \in Paths, Close(p) \/ Index(p)
         PROVE  RolloutInv'
    <2>1. repair' = repair /\ open' \subseteq open /\ disturbed' = disturbed /\ files' = files
      BY <1>14 DEF Close, Index, CodexOnly, history
    <2>2. repair.pc \in Repairing => \A q \in open : Thread(q) \in disturbed
      BY <1>1 DEF RolloutInv
    <2>3. QED
      BY <1>1, <2>1, <2>2, SameRepair
  <1>15. ASSUME NEW p \in Paths, NEW q \in Paths, Move(p, q)
         PROVE  RolloutInv'
    <2>1. repair' = repair /\ open' = open /\ disturbed \subseteq disturbed'
      BY <1>15 DEF Move, CodexOnly, Touched
    <2>2. repair.pc \in Repairing => Thread(p) \in disturbed'
      BY <1>15 DEF Move, Touched, RepairAtWork
    <2>3. \A r \in DOMAIN files : r # p => r \in DOMAIN files' /\ files'[r] = files[r]
      BY <1>15 DEF Move
    <2>4. repair.pc \in Repairing => \A r \in open : Thread(r) \in disturbed
      BY <1>1 DEF RolloutInv
    <2>5. QED
      BY <1>1, <2>1, <2>2, <2>3, <2>4, SameRepair
  <1>16. QED
    BY <1>2, <1>3, <1>4, <1>5, <1>6, <1>7, <1>8, <1>9, <1>10, <1>11, <1>12, <1>13, <1>14, <1>15 DEF Next-----------------------------------------------------------------------------
(* The rows of the threads *)

\* No row changes, and a repair that goes on keeps what it has read.
LEMMA SameRows ==
  ASSUME RowInv, rows' = rows, missed \subseteq missed', disturbed \subseteq disturbed',
         repair'.pc \in Changing \cup {"restored"} =>
           /\ repair.pc \in Changing \/ repair' = repair
           /\ UNCHANGED <<repair.seen, repair.records, repair.changes, repair.provider>>
  PROVE  RowInv'
  BY DEF RowInv, Changing, Stable, Aligned

LEMMA RowStep ==
  ASSUME SyncInv, [Next]_vars
  PROVE  RowInv'
  <1>1. TypeOK /\ RunInv /\ FileInv /\ RolloutInv /\ RowInv
    BY DEF SyncInv
  <1>2. CASE UNCHANGED vars
    BY <1>1, <1>2, SameRows DEF vars, history
  <1>3. CASE \/ \E provider \in Providers, remote \in SUBSET Paths : StartSync(provider, remote)
             \/ \E provider \in Providers : StartRepair(provider)
    BY <1>3 DEF StartSync, StartRepair, RowInv, Changing
  <1>4. CASE \/ index_local_sessions \/ SyncDone \/ SyncStops
             \/ \E p \in Paths : import_staged_rollouts(p) \/ install_new_rollout(p)
    <2>1. UNCHANGED <<repair, rows, missed, disturbed>>
      BY <1>4 DEF index_local_sessions, SyncDone, SyncStops, import_staged_rollouts, install_new_rollout,
                  SyncGoes, SyncOnly, history
    <2>2. QED
      BY <1>1, <2>1, SameRows
  <1>5. CASE ReadRollouts
    <2> DEFINE listed == repair.listed \cup SeenIn("archived_sessions")
               records == Restrict(files, listed)
               changes == collect_repair_changes(records)
    <2>1. repair \in RepairRuns
      BY <1>1, <1>5, RunsType DEF ReadRollouts, Repairing
    <2>2. UNCHANGED <<rows, missed, disturbed>>
      BY <1>5 DEF ReadRollouts, RepairGoes, RepairOnly, Looks, history
    <2>3. repair' = [repair EXCEPT !.pc = IF changes = {} THEN "done" ELSE "backup",
                                   !.listed = {}, !.records = records, !.seen = rows, !.changes = changes]
      BY <1>5 DEF ReadRollouts, RepairGoes
    <2>4. \A p \in DOMAIN records \ changes : Thread(p) \in DOMAIN rows => rows[Thread(p)] = Aligned
      <3>1. TAKE p \in DOMAIN records \ changes
      <3>2. HAVE Thread(p) \in DOMAIN rows
      <3>3. rows[Thread(p)] \in Row
        BY <1>1, <3>2, FilesType
      <3>4. rows[Thread(p)].provider = repair.provider /\ rows[Thread(p)].cwd
        BY <3>2 DEF collect_repair_changes, SqliteNeedsUpdate
      <3>5. QED
        BY <3>3, <3>4 DEF Row, Aligned
    <2> HIDE DEF records, changes
    <2>5. /\ repair'.records = records /\ repair'.changes = changes /\ repair'.provider = repair.provider
          /\ repair'.seen = rows
      BY <2>1, <2>3 DEF RepairRuns
    <2>6. QED
      BY <2>2, <2>4, <2>5 DEF RowInv, Aligned
  <1>6. CASE \/ backup_rollouts \/ BeginTransaction \/ ApplyFails \/ Restored
             \/ \E p \in Paths : CheckReplaced(p) \/ Persist(p)
    <2>1. repair \in RepairRuns /\ repair.pc \in Changing
      BY <1>1, <1>6, RunsType DEF backup_rollouts, BeginTransaction, CheckReplaced, Persist, ApplyFails, Restored,
                                  RepairGoes, Repairing, Changing
    <2>2. UNCHANGED <<rows, missed, disturbed>>
      BY <1>6 DEF backup_rollouts, BeginTransaction, CheckReplaced, Persist, ApplyFails, Restored,
                  RepairGoes, RepairOnly, Looks, history
    <2>3. UNCHANGED <<repair.seen, repair.records, repair.changes, repair.provider>>
      BY <1>6, <2>1 DEF backup_rollouts, BeginTransaction, CheckReplaced, Persist, ApplyFails, Restored,
                        RepairGoes, RepairRuns
    <2>4. QED
      BY <1>1, <2>1, <2>2, <2>3, SameRows
  <1>7. CASE Commit \/ RepairStops
    <2>1. repair'.pc \in {"done", "failed"}
      <3>1. CASE RepairStops
        BY <3>1 DEF RepairStops, RepairGoes
      <3>2. CASE Commit
        <4>1. repair \in RepairRuns
          BY <1>1, <3>2, RunsType DEF Commit, Repairing
        <4>2. QED
          BY <3>2, <4>1 DEF Commit, RepairGoes, RepairRuns
      <3>3. QED
        BY <1>7, <3>1, <3>2
    <2>2. QED
      BY <2>1 DEF RowInv, Changing
  <1>8. ASSUME NEW p \in Paths, NEW q \in Paths, Open(p) \/ Turn(p) \/ Close(p) \/ Move(p, q)
        PROVE  RowInv'
    <2>1. UNCHANGED <<repair, rows>> /\ missed \subseteq missed' /\ disturbed \subseteq disturbed'
      BY <1>8 DEF Open, Turn, Close, Move, CodexOnly, Touched, history
    <2>2. QED
      BY <1>1, <2>1, SameRows
  <1>9. ASSUME NEW p \in Paths, Index(p)
        PROVE  RowInv'
    <2>1. UNCHANGED <<repair, missed, disturbed>> /\ p \in DOMAIN files /\ Thread(p) \notin DOMAIN rows
      BY <1>9 DEF Index, CodexOnly, history
    <2>2. /\ DOMAIN rows' = DOMAIN rows \cup {Thread(p)}
          /\ rows'[Thread(p)] = [provider |-> files[p].provider, cwd |-> TRUE]
          /\ \A t \in DOMAIN rows : rows'[t] = rows[t]
      BY <1>9 DEF Index
    <2>3. repair.pc \in Changing =>
            \A q \in DOMAIN repair.records \ repair.changes :
              Stable(Thread(q)) /\ Thread(q) = Thread(p) => rows'[Thread(p)] = Aligned
      <3>1. HAVE repair.pc \in Changing
      <3>2. TAKE q \in DOMAIN repair.records \ repair.changes
      <3>3. HAVE Stable(Thread(q)) /\ Thread(q) = Thread(p)
      <3>4. q \in DOMAIN files /\ files[q].provider = repair.provider
        BY <1>1, <3>1, <3>2, <3>3 DEF RolloutInv, Stable
      <3>5. q = p
        BY <1>1, <2>1, <3>3, <3>4 DEF FileInv, Single
      <3>6. QED
        BY <2>2, <3>4, <3>5 DEF Aligned
    <2>4. QED
      BY <1>1, <2>1, <2>2, <2>3 DEF RowInv, Stable, Aligned
  <1>10. QED
    BY <1>2, <1>3, <1>4, <1>5, <1>6, <1>7, <1>8, <1>9 DEF Next-----------------------------------------------------------------------------
(* What a repair achieves *)

LEMMA SameResult ==
  ASSUME ResultInv, UNCHANGED <<files, rows, repair>>, missed \subseteq missed', disturbed \subseteq disturbed'
  PROVE  ResultInv'
  <1>1. \A t : /\ t \notin missed' \cup disturbed' => t \notin missed \cup disturbed
                /\ FilesOf(t)' = FilesOf(t)
    BY DEF FilesOf
  <1>2. Aligned' = Aligned
    BY DEF Aligned
  <1>3. ASSUME repair'.pc = "done", NEW p \in DOMAIN repair'.records,
               Thread(p) \notin missed' \cup disturbed'
        PROVE  /\ \A q \in FilesOf(Thread(p))' : files'[q].provider = repair'.provider
               /\ Thread(p) \in DOMAIN rows' => rows'[Thread(p)] = Aligned'
    <2>1. Thread(p) \notin missed \cup disturbed
      BY <1>1, <1>3
    <2>2. QED
      BY <1>1, <1>2, <1>3, <2>1 DEF ResultInv, RepairAligns
  <1>4. RepairAligns'
    BY <1>3 DEF RepairAligns
  <1>5. QED
    BY <1>1, <1>4 DEF ResultInv, Stable

LEMMA NoResult ==
  ASSUME repair'.pc \notin {"done", "restored"}
  PROVE  ResultInv'
  BY DEF ResultInv, RepairAligns

\* A rollout that is where a run has seen it is the only one of its thread.
LEMMA OnlyFile ==
  ASSUME FileInv, NEW p \in DOMAIN files, Stable(Thread(p))
  PROVE  FilesOf(Thread(p)) = {p}
  BY DEF FileInv, Single, FilesOf

LEMMA ReadResultInv ==
  ASSUME SyncInv, ReadRollouts
  PROVE  ResultInv'
  <1> DEFINE listed == repair.listed \cup SeenIn("archived_sessions")
             records == Restrict(files, listed)
             changes == collect_repair_changes(records)
  <1>1. TypeOK /\ FileInv
    BY DEF SyncInv
  <1>2. repair \in RepairRuns /\ listed \subseteq DOMAIN files
    BY <1>1, RunsType DEF ReadRollouts, Repairing
  <1>3. UNCHANGED <<files, rows, missed, disturbed>>
    BY DEF ReadRollouts, RepairGoes, RepairOnly, Looks, history
  <1>4. repair' = [repair EXCEPT !.pc = IF changes = {} THEN "done" ELSE "backup",
                                 !.listed = {}, !.records = records, !.seen = rows, !.changes = changes]
    BY DEF ReadRollouts, RepairGoes
  <1>5. DOMAIN records = listed /\ \A p \in listed : records[p] = files[p]
    BY <1>1, <1>2, RestrictType
  <1>6. changes = {} =>
          \A p \in listed : /\ files[p].provider = repair.provider
                            /\ Thread(p) \in DOMAIN rows => rows[Thread(p)] = Aligned
    <2>1. HAVE changes = {}
    <2>2. TAKE p \in listed
    <2>3. ~RolloutNeedsUpdate(records[p]) /\ ~SqliteNeedsUpdate(Thread(p))
      BY <1>5, <2>1 DEF collect_repair_changes
    <2>4. Thread(p) \in DOMAIN rows => rows[Thread(p)] \in Row
      BY <1>1, FilesType
    <2>5. QED
      BY <1>5, <2>3, <2>4 DEF RolloutNeedsUpdate, SqliteNeedsUpdate, Row, Aligned
  <1> HIDE DEF records, changes, listed
  <1>7. /\ repair'.pc = IF changes = {} THEN "done" ELSE "backup"
        /\ repair'.records = records /\ repair'.provider = repair.provider
    BY <1>2, <1>4 DEF RepairRuns
  <1>8. CASE changes # {}
    BY <1>7, <1>8, NoResult
  <1>9. CASE changes = {}
    <2>1. \A p \in listed : Stable(Thread(p)) => FilesOf(Thread(p)) = {p}
      BY <1>1, <1>2, OnlyFile
    <2>2. \A t : FilesOf(t)' = FilesOf(t)
      BY <1>3 DEF FilesOf
    <2>3. Aligned' = Aligned
      BY <1>7 DEF Aligned
    <2>4. ASSUME NEW p \in DOMAIN repair'.records, Thread(p) \notin missed' \cup disturbed'
          PROVE  /\ \A q \in FilesOf(Thread(p))' : files'[q].provider = repair'.provider
                 /\ Thread(p) \in DOMAIN rows' => rows'[Thread(p)] = Aligned'
      <3>1. p \in listed /\ Stable(Thread(p))
        <4>1. p \in listed
          BY <1>5, <1>7, <2>4
        <4>2. QED
          BY <1>3, <2>4, <4>1 DEF Stable
      <3>2. FilesOf(Thread(p))' = {p}
        BY <2>1, <2>2, <3>1
      <3>3. QED
        BY <1>3, <1>6, <1>7, <1>9, <2>3, <3>1, <3>2
    <2>5. RepairAligns'
      BY <2>4 DEF RepairAligns
    <2>6. QED
      BY <1>7, <1>9, <2>5 DEF ResultInv
  <1>10. QED
    BY <1>8, <1>9

LEMMA CommitResultInv ==
  ASSUME SyncInv, Commit
  PROVE  ResultInv'
  <1>1. TypeOK /\ FileInv /\ RolloutInv /\ RowInv
    BY DEF SyncInv
  <1>2. repair \in RepairRuns /\ repair.pc = "replace" /\ repair.left = {}
    BY <1>1, RunsType DEF Commit, Repairing
  <1>3. repair' = [repair EXCEPT !.pc = "done"] /\ UNCHANGED <<files, missed, disturbed>>
    BY DEF Commit, RepairGoes, RepairOnly, history
  <1>4. repair'.pc = "done" /\ repair'.records = repair.records /\ repair'.provider = repair.provider
    BY <1>2, <1>3 DEF RepairRuns
  <1>5. \A p \in DOMAIN repair.records : Stable(Thread(p)) => p \in DOMAIN files /\ files[p].provider = repair.provider
    <2>1. TAKE p \in DOMAIN repair.records
    <2>2. HAVE Stable(Thread(p))
    <2>3. p \in DOMAIN files /\ files[p] = Updated(p)
      BY <1>1, <1>2, <2>2 DEF RolloutInv, Changing, Stable
    <2>4. repair.records[p] \in Rollout
      BY <1>2, RecordsType
    <2>5. Updated(p).provider = repair.provider
      BY <2>4 DEF Updated, Rollout
    <2>6. QED
      BY <2>3, <2>5
  <1>6. \A p \in DOMAIN repair.records : Stable(Thread(p)) => FilesOf(Thread(p)) = {p}
    BY <1>1, <1>5, OnlyFile
  <1>7. rows' = UpdatedRows
    BY DEF Commit
  <1>8. \A p \in DOMAIN repair.records : Stable(Thread(p)) /\ Thread(p) \in DOMAIN rows' => rows'[Thread(p)] = Aligned
    BY <1>1, <1>2, <1>7 DEF UpdatedRows, RowInv, Changing
  <1>9. RepairAligns'
    <2>1. ASSUME NEW p \in DOMAIN repair.records, Stable(Thread(p))
          PROVE  \A q \in DOMAIN files : Thread(q) = Thread(p) => files[q].provider = repair.provider
      BY <1>5, <1>6, <2>1 DEF FilesOf
    <2>2. Aligned' = Aligned
      BY <1>4 DEF Aligned
    <2>3. QED
      BY <1>3, <1>4, <1>8, <2>1, <2>2 DEF RepairAligns, Stable, FilesOf
  <1>10. QED
    BY <1>4, <1>9 DEF ResultInv

LEMMA RestoredResultInv ==
  ASSUME SyncInv, Restored
  PROVE  ResultInv'
  <1>1. TypeOK /\ FileInv /\ RolloutInv
    BY DEF SyncInv
  <1>2. repair \in RepairRuns /\ repair.pc = "restore" /\ repair.left = {}
    BY <1>1, RunsType DEF Restored, Repairing
  <1>3. repair' = [repair EXCEPT !.pc = "restored"] /\ UNCHANGED <<files, missed, disturbed>>
    BY DEF Restored, RepairGoes, RepairOnly, Looks, history
  <1>4. repair'.pc = "restored" /\ repair'.records = repair.records /\ repair'.changes = repair.changes
    BY <1>2, <1>3 DEF RepairRuns
  <1>5. \A p \in repair.changes : Stable(Thread(p)) => p \in DOMAIN files /\ files[p] = repair.records[p]
    BY <1>1, <1>2 DEF RolloutInv, Changing, Stable
  <1>6. \A p \in repair.changes : Stable(Thread(p)) => FilesOf(Thread(p)) = {p}
    BY <1>1, <1>5, OnlyFile
  <1>7. QED
    BY <1>3, <1>4, <1>5, <1>6 DEF ResultInv, RepairAligns, Stable, FilesOf

LEMMA ResultStep ==
  ASSUME SyncInv, [Next]_vars
  PROVE  ResultInv'
  <1>1. TypeOK /\ RunInv /\ ResultInv
    BY DEF SyncInv
  <1>2. CASE UNCHANGED vars
    BY <1>1, <1>2, SameResult DEF vars, history
  <1>3. CASE \/ \E provider \in Providers, remote \in SUBSET Paths : StartSync(provider, remote)
             \/ \E provider \in Providers : StartRepair(provider)
    BY <1>3, NoResult DEF StartSync, StartRepair
  <1>4. CASE \/ index_local_sessions \/ SyncDone \/ SyncStops
             \/ \E p \in Paths : import_staged_rollouts(p) \/ install_new_rollout(p)
    <2>1. sync.pc \in Syncing /\ repair' = repair
      BY <1>4 DEF index_local_sessions, SyncDone, SyncStops, import_staged_rollouts, install_new_rollout,
                  SyncGoes, SyncOnly, Syncing
    <2>2. repair' = Idle
      BY <1>1, <2>1 DEF RunInv, Syncing
    <2>3. QED
      BY <2>2, NoResult
  <1>5. CASE ReadRollouts
    BY <1>5, ReadResultInv
  <1>6. CASE Commit
    BY <1>6, CommitResultInv
  <1>7. CASE Restored
    BY <1>7, RestoredResultInv
  <1>8. CASE \/ backup_rollouts \/ BeginTransaction \/ ApplyFails
             \/ \E p \in Paths : CheckReplaced(p) \/ Persist(p)
    <2>1. repair \in RepairRuns /\ repair.pc \in Repairing
      BY <1>1, <1>8, RunsType DEF backup_rollouts, BeginTransaction, CheckReplaced, Persist, ApplyFails,
                                  RepairGoes, Repairing
    <2>2. repair'.pc \in Repairing
      BY <1>8, <2>1 DEF backup_rollouts, BeginTransaction, CheckReplaced, Persist, ApplyFails,
                        RepairGoes, RepairRuns, Repairing
    <2>3. QED
      BY <2>2, NoResult DEF Repairing
  <1>9. CASE RepairStops
    BY <1>9, NoResult DEF RepairStops, RepairGoes
  <1>10. ASSUME NEW p \in Paths, NEW q \in Paths, Open(p) \/ Turn(p) \/ Close(p) \/ Index(p) \/ Move(p, q)
         PROVE  ResultInv'
    <2>1. AtWork /\ repair' = repair
      BY <1>10 DEF Open, Turn, Close, Index, Move, CodexOnly
    <2>2. repair.pc \notin {"done", "restored"}
      BY <1>1, <2>1 DEF AtWork, RunInv, Syncing, Repairing
    <2>3. QED
      BY <2>1, <2>2, NoResult
  <1>11. QED
    BY <1>2, <1>3, <1>4, <1>5, <1>6, <1>7, <1>8, <1>9, <1>10 DEF Next-----------------------------------------------------------------------------
(* Theorems *)

LEMMA InitFileInv == Init => FileInv
  <1> SUFFICES ASSUME Init PROVE FileInv
    OBVIOUS
  <1>1. files \in Partial(Paths, [provider : Providers, turns : {{0}}])
    BY DEF Init
  <1>2. \A p \in DOMAIN files : files[p].turns = {0}
    <2>1. files \in [DOMAIN files -> [provider : Providers, turns : {{0}}]]
      BY <1>1, PartialType
    <2>2. \A p \in DOMAIN files : files[p] \in [provider : Providers, turns : {{0}}]
      BY <2>1
    <2>3. QED
      BY <2>2
  <1>3. Kept
    BY <1>2 DEF Init, Kept
  <1>4. Single
    BY DEF Init, Single
  <1>5. QED
    BY <1>3, <1>4 DEF Init, FileInv

LEMMA InitSyncInv == Init => SyncInv
  <1> SUFFICES ASSUME Init PROVE SyncInv
    OBVIOUS
  <1>1. ImportInv /\ RolloutInv /\ RowInv /\ ResultInv /\ RunInv
    BY DEF Init, ImportInv, RolloutInv, RowInv, ResultInv, RepairAligns, RunInv, Repairing, Changing
  <1>2. QED
    BY <1>1, InitTypeOK, InitFileInv DEF SyncInv

\* The inductive invariant: runs do not overlap, files carry the turns, an
\* import knows the threads, a repair what it has read and replaced.
THEOREM SyncInvariant == Spec => []SyncInv
  <1>1. SyncInv /\ [Next]_vars => SyncInv'
    BY TypeStep, RunStep, FileStep, ImportStep, RolloutStep, RowStep, ResultStep DEF SyncInv
  <1>2. QED
    BY <1>1, InitSyncInv, PTL DEF Spec

\* Every variable keeps its type, in particular what a run holds in each of its
\* phases (import_staged_rollouts, repair_local).
THEOREM SyncTypeOK == Spec => []TypeOK
  <1>1. SyncInv => TypeOK
    BY DEF SyncInv
  <1>2. QED
    BY <1>1, SyncInvariant, PTL

\* Imports that are repeated, stopped half-way or given a thread twice make no
\* second rollout of it, and one that reports success has left none out
\* (known_thread_ids and persist_noclobber in import_staged_rollouts).
THEOREM SyncImportedOnce == Spec => []ImportedOnce
  <1>1. SyncInv => ImportedOnce
    <2>1. ASSUME SyncInv, NEW t \in Threads \ (missed \cup disturbed)
          PROVE  Cardinality(FilesOf(t)) <= 1
      <3>1. \A p, q \in FilesOf(t) : p = q
        BY <2>1 DEF SyncInv, FileInv, Single, Stable, FilesOf
      <3>2. CASE FilesOf(t) = {}
        BY <3>2, FS_EmptySet
      <3>3. CASE FilesOf(t) # {}
        <4>1. PICK p : p \in FilesOf(t)
          BY <3>3
        <4>2. FilesOf(t) = {p}
          BY <3>1, <4>1
        <4>3. Cardinality({p}) = 1
          BY FS_Singleton
        <4>4. QED
          BY <4>2, <4>3
      <3>4. QED
        BY <3>2, <3>3
    <2>2. ASSUME SyncInv, sync.pc = "done", NEW p \in sync.staged
          PROVE  FilesOf(Thread(p)) # {}
      BY <2>2 DEF SyncInv, ImportInv, HasFile, FilesOf
    <2>3. QED
      BY <2>1, <2>2 DEF ImportedOnce
  <1>2. QED
    BY <1>1, SyncInvariant, PTL

\* No import or repair, however it ends, loses a turn of a thread that Codex
\* leaves alone while the repair runs (persist_noclobber, atomic_replace and
\* apply_repair, which restores the files it has replaced).
THEOREM SyncTurnsKept == Spec => []TurnsKept
  <1>1. SyncInv => TurnsKept
    BY DEF SyncInv, FileInv, Kept, TurnsKept, FilesOf
  <1>2. QED
    BY <1>1, SyncInvariant, PTL

\* A repair that reports success has aligned each rollout it listed and the row
\* of its thread, unless Codex moved or worked on that thread meanwhile
\* (collect_repair_changes, apply_repair).
THEOREM SyncRepairAligns == Spec => []RepairAligns
  <1>1. SyncInv => RepairAligns
    BY DEF SyncInv, ResultInv
  <1>2. QED
    BY <1>1, SyncInvariant, PTL

\* A repair that reports that it restored the rollouts has left the rows, and
\* the provider of each rollout whose thread Codex left alone, as it found them
\* (restore_rollouts after a failed apply_repair).
THEOREM SyncFailureRestores == Spec => []FailureRestores
  <1>1. SyncInv => FailureRestores
    BY DEF SyncInv, ResultInv, RowInv, FailureRestores, Stable, FilesOf
  <1>2. QED
    BY <1>1, SyncInvariant, PTL
=============================================================================
