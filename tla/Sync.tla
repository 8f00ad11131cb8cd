--------------------------------- MODULE Sync ---------------------------------
(***************************************************************************)
(* Session import and repair (crates/cxs-sessions/src/lib.rs): cxs sync    *)
(* copies rollout files of a remote host into the desktop's Codex home,    *)
(* cxs repair writes the active provider into the rollout files there and  *)
(* into the rows of the threads table that go with them.  Neither takes a  *)
(* lock against the other or against Codex, which meanwhile appends turns  *)
(* to the rollouts it has open, archives and unarchives threads and        *)
(* indexes new files; either may fail or be killed at any step.            *)
(*                                                                         *)
(* A rollout's name holds its thread, so that a path is a directory and a  *)
(* thread.  Of a rollout the model keeps the provider of its first record  *)
(* and its turns; of a row the provider and whether its working directory  *)
(* is the rollout's.  A home without a database is one without rows.       *)
(* Files of a directory are independent of each other, so that reading or  *)
(* copying several of them is one step; the two directories are not, for   *)
(* Codex moves files between them.  The formats are left out.              *)
(***************************************************************************)
EXTENDS Integers, FiniteSets, Functions

CONSTANTS
  Threads,       \* thread ids, here and on the remote host
  Providers,     \* provider ids
  MaxTurns,      \* bounds of the model: turns of one thread,
  MaxRuns,       \* runs of cxs sync and cxs repair in one behaviour,
  MaxCodex,      \* what Codex does in it
  MaxRemote      \* and files in the archive of the remote host

ASSUME BoundsAssumption ==
  {MaxTurns, MaxRuns, MaxCodex, MaxRemote} \subseteq Nat

SESSION_DIRS == {"sessions", "archived_sessions"}
Paths == SESSION_DIRS \X Threads
Thread(p) == p[2]

VARIABLES
  files,         \* path -> rollout, for the paths that exist
  rows,          \* thread -> row of the threads table
  sync,          \* one run of cxs sync
  repair,        \* one run of cxs repair
  open, cut,     \* rollouts Codex has open; those that were replaced since
  runs, done,    \* counted for the bounds
  said,          \* history: per thread, the turns that were taken here
  missed,        \* history: threads moved past an import's listing
  disturbed      \* history: threads Codex worked on during a repair

history == <<said, missed, disturbed>>
codex == <<open, cut, done>>
vars == <<files, rows, sync, repair, codex, runs, history>>

Rollout == [provider : Providers, turns : SUBSET (0..MaxTurns)]
Row == [provider : Providers, cwd : BOOLEAN]
Partial(S, T) == UNION {[D -> T] : D \in SUBSET S}
Nothing == <<>>                                   \* the function without arguments

Syncing == {"list_archived", "import", "install"}
Repairing == {"list_archived", "backup", "begin", "replace", "restore"}

\* A run that has not begun or has failed; and any other.
Idle == [pc |-> "idle"]
Failed == [pc |-> "failed"]

SyncRuns ==
  [pc : Syncing \cup {"done"}, provider : Providers, staged : SUBSET Paths, left : SUBSET Paths,
   listed : SUBSET Paths, known : SUBSET Threads, destination : SUBSET Paths]
RepairRuns ==
  [pc : Repairing \cup {"done", "restored"}, provider : Providers, listed : SUBSET Paths,
   records : Partial(Paths, Rollout), seen : Partial(Threads, Row), changes : SUBSET Paths,
   backup : Partial(Paths, Rollout), left : SUBSET Paths, writing : SUBSET Paths]

TypeOK ==
  /\ files \in Partial(Paths, Rollout)
  /\ rows \in Partial(Threads, Row)
  /\ sync \in {Idle, Failed} \cup SyncRuns
  /\ repair \in {Idle, Failed} \cup RepairRuns
  /\ cut \subseteq open /\ open \subseteq Paths
  /\ runs \in 0..MaxRuns /\ done \in 0..MaxCodex
  /\ said \in [Threads -> SUBSET (0..MaxTurns)]
  /\ missed \subseteq Threads /\ disturbed \subseteq Threads

\* Every thread at one path at most, with the turn that made it, indexed with
\* this or another working directory or not yet.
Init ==
  /\ files \in {f \in Partial(Paths, [provider : Providers, turns : {{0}}]) :
                  \A p, q \in DOMAIN f : Thread(p) = Thread(q) => p = q}
  /\ rows \in {r \in Partial({Thread(p) : p \in DOMAIN files}, Row) :
                 \A p \in DOMAIN files : Thread(p) \in DOMAIN r => r[Thread(p)].provider = files[p].provider}
  /\ sync = Idle /\ repair = Idle
  /\ open = {} /\ cut = {}
  /\ runs = 0 /\ done = 0
  /\ said = [t \in Threads |-> IF \E p \in DOMAIN files : Thread(p) = t THEN {0} ELSE {}]
  /\ missed = {} /\ disturbed = {}

Put(p, rollout) == files' = [q \in DOMAIN files \cup {p} |-> IF q = p THEN rollout ELSE files[q]]

\* A bound of the model: one run at a time.  They are not locked against each
\* other, but an import touches no file that exists, and a repair only those.
AtWork == sync.pc \in Syncing \/ repair.pc \in Repairing
StartRun == ~AtWork /\ runs < MaxRuns /\ runs' = runs + 1

SeenIn(directory) == {p \in DOMAIN files : p[1] = directory}

-----------------------------------------------------------------------------
(* cxs sync *)

SyncOnly == UNCHANGED <<rows, repair, codex, history>>

SyncGoes(from, next) ==
  /\ sync.pc = from
  /\ sync' = next
  /\ UNCHANGED runs /\ SyncOnly

\* The whole archive is staged before anything is looked at here, so that the
\* run begins with the first listing.  A thread that is archived while tar reads
\* the directories is in the archive twice.  The provider is the configured one
\* or one that was asked for.
StartSync(provider, remote) ==
  /\ StartRun
  /\ sync' = [pc |-> "list_archived", provider |-> provider, staged |-> remote, left |-> remote,
              listed |-> SeenIn("sessions"), known |-> {}, destination |-> {}]
  /\ repair' = Idle
  /\ UNCHANGED <<files, rows, codex, history>>

\* The second listing, and the ids of all that is listed.  What has been moved
\* since its listing cannot be read and fails the import (SyncStops).
index_local_sessions ==
  LET listed == sync.listed \cup SeenIn("archived_sessions")
  IN  /\ sync.pc = "list_archived" /\ listed \subseteq DOMAIN files
      /\ SyncGoes("list_archived", [sync EXCEPT !.pc = "import", !.listed = listed,
                                               !.known = {Thread(p) : p \in listed}])
      /\ UNCHANGED files

\* Defect: what was imported is not added to the threads that are known.
import_staged_rollouts_OnlyLocalIds(p) ==
  /\ sync.pc = "import" /\ p \in sync.left
  /\ SyncGoes("import",
       IF Thread(p) \in {Thread(q) : q \in sync.listed} \/ p \in DOMAIN files
       THEN [sync EXCEPT !.left = @ \ {p}]
       ELSE [sync EXCEPT !.left = @ \ {p}, !.pc = "install", !.destination = {p}])
  /\ UNCHANGED files

\* A thread that is known is a duplicate, a destination that exists a conflict.
import_staged_rollouts(p) ==
  /\ sync.pc = "import" /\ p \in sync.left
  /\ SyncGoes("import",
       IF Thread(p) \in sync.known \/ p \in DOMAIN files
       THEN [sync EXCEPT !.left = @ \ {p}]
       ELSE [sync EXCEPT !.left = @ \ {p}, !.pc = "install", !.destination = {p}])
  /\ UNCHANGED files

\* Defect: the rename replaces what has come to the destination meanwhile.
install_new_rollout_Clobbers(p) ==
  /\ sync.pc = "install" /\ p \in sync.destination
  /\ Put(p, [provider |-> sync.provider, turns |-> {}])
  /\ SyncGoes("install", [sync EXCEPT !.pc = "import", !.destination = {}, !.known = @ \cup {Thread(p)}])

\* persist_noclobber.  The turns of the remote host are not counted.
install_new_rollout(p) ==
  /\ sync.pc = "install" /\ p \in sync.destination /\ p \notin DOMAIN files
  /\ Put(p, [provider |-> sync.provider, turns |-> {}])
  /\ SyncGoes("install", [sync EXCEPT !.pc = "import", !.destination = {}, !.known = @ \cup {Thread(p)}])

SyncDone ==
  /\ sync.pc = "import" /\ sync.left = {}
  /\ SyncGoes("import", [sync EXCEPT !.pc = "done"])
  /\ UNCHANGED files

\* An error or a signal.  What is installed stays.
SyncStops ==
  /\ sync.pc \in Syncing
  /\ SyncGoes(sync.pc, Failed)
  /\ UNCHANGED files

-----------------------------------------------------------------------------
(* cxs repair *)

Opened == {Thread(p) : p \in open}

StartRepair(provider) ==
  /\ StartRun
  /\ repair' = [pc |-> "list_archived", provider |-> provider, listed |-> SeenIn("sessions"),
                records |-> Nothing, seen |-> Nothing, changes |-> {}, backup |-> Nothing,
                left |-> {}, writing |-> {}]
  /\ sync' = Idle
  /\ disturbed' = disturbed \cup Opened
  /\ UNCHANGED <<files, rows, codex, said, missed>>

RepairOnly == UNCHANGED <<sync, open, done, runs, history>>

RepairGoes(from, next) ==
  /\ repair.pc = from
  /\ repair' = next
  /\ RepairOnly

Looks == UNCHANGED <<files, rows, cut>>

RolloutNeedsUpdate(rollout) == rollout.provider # repair.provider

SqliteNeedsUpdate(t) ==
  /\ t \in DOMAIN rows
  /\ rows[t].provider # repair.provider \/ ~rows[t].cwd

\* Defect: a thread whose rollout is right is not looked up in the database.
collect_repair_changes_RolloutsOnly(records) ==
  {p \in DOMAIN records : RolloutNeedsUpdate(records[p])}

collect_repair_changes(records) ==
  {p \in DOMAIN records : RolloutNeedsUpdate(records[p]) \/ SqliteNeedsUpdate(Thread(p))}

\* The second listing, and all that repair_local reads before it changes
\* anything: Codex writes rollouts or rows, so that reading both is one step.  A
\* record carries the whole content that is written back later.
ReadRollouts ==
  LET listed == repair.listed \cup SeenIn("archived_sessions")
      records == Restrict(files, listed)
      changes == collect_repair_changes(records)
  IN  /\ repair.pc = "list_archived" /\ listed \subseteq DOMAIN files
      /\ RepairGoes("list_archived", [repair EXCEPT !.pc = IF changes = {} THEN "done" ELSE "backup",
                                                    !.listed = {}, !.records = records, !.seen = rows, !.changes = changes])
      /\ Looks

\* Nothing reads the copy of the database.
backup_rollouts ==
  /\ repair.pc = "backup" /\ repair.changes \subseteq DOMAIN files
  /\ RepairGoes("backup", [repair EXCEPT !.pc = "begin", !.backup = Restrict(files, repair.changes)])
  /\ Looks

\* An immediate transaction: from here to the commit nobody else writes rows.
BeginTransaction ==
  /\ RepairGoes("begin", [repair EXCEPT !.pc = "replace", !.left = {p \in repair.changes : RolloutNeedsUpdate(repair.records[p])}])
  /\ Looks

\* atomic_replace asks for the permissions of the file it replaces, writes a
\* temporary file and renames it.
CheckReplaced(p) ==
  /\ repair.pc \in {"replace", "restore"}
  /\ repair.writing = {} /\ p \in repair.left
  /\ p \in DOMAIN files
  /\ RepairGoes(repair.pc, [repair EXCEPT !.writing = {p}])
  /\ Looks

Updated(p) == [repair.records[p] EXCEPT !.provider = repair.provider]

\* A handle that Codex has open stays with the file that was replaced.
Persist(p) ==
  /\ repair.pc \in {"replace", "restore"} /\ p \in repair.writing
  /\ Put(p, IF repair.pc = "replace" THEN Updated(p) ELSE repair.backup[p])
  /\ cut' = cut \cup ({p} \cap open)
  /\ RepairGoes(repair.pc, [repair EXCEPT !.writing = {}, !.left = @ \ {p}])
  /\ UNCHANGED rows

Aligned == [provider |-> repair.provider, cwd |-> TRUE]
UpdatedRows == [t \in DOMAIN rows |-> IF t \in {Thread(p) : p \in repair.changes} THEN Aligned ELSE rows[t]]

\* The rows are updated in the transaction, seen by others once it commits.
Commit ==
  /\ repair.pc = "replace" /\ repair.left = {} /\ repair.writing = {}
  /\ RepairGoes("replace", [repair EXCEPT !.pc = "done"])
  /\ rows' = UpdatedRows
  /\ UNCHANGED <<files, cut>>

\* Defect: only the rollouts that were not reached are restored.
ApplyFails_RestoresRest ==
  /\ RepairGoes(repair.pc, [repair EXCEPT !.pc = "restore", !.writing = {}])
  /\ repair.pc \in {"begin", "replace"}
  /\ Looks

\* The database is busy for five seconds, a file has gone, a write or the
\* commit fails: the transaction is dropped, and every change is restored, the
\* ones that were never applied too.
ApplyFails ==
  /\ repair.pc \in {"begin", "replace"}
  /\ RepairGoes(repair.pc, [repair EXCEPT !.pc = "restore", !.left = repair.changes, !.writing = {}])
  /\ Looks

Restored ==
  /\ repair.pc = "restore" /\ repair.left = {} /\ repair.writing = {}
  /\ RepairGoes("restore", [repair EXCEPT !.pc = "restored"])
  /\ Looks

\* An error before the first change or while restoring, or a signal at any
\* step: SQLite forgets the transaction, the rollouts stay as they are.
RepairStops ==
  /\ repair.pc \in Repairing
  /\ RepairGoes(repair.pc, Failed)
  /\ Looks

-----------------------------------------------------------------------------
(* Codex.  Bounds of the model: it works while a run does, and has one     *)
(* rollout open at a time.                                                 *)

CodexOnly ==
  /\ AtWork
  /\ done < MaxCodex /\ done' = done + 1
  /\ UNCHANGED <<sync, repair, runs>>
RepairAtWork == repair.pc \in Repairing
Touched(t) == disturbed' = IF RepairAtWork THEN disturbed \cup {t} ELSE disturbed

Open(p) ==
  /\ p \in DOMAIN files /\ open = {}
  /\ open' = open \cup {p}
  /\ Touched(Thread(p))
  /\ UNCHANGED <<files, rows, cut, said, missed>> /\ CodexOnly

Turn(p) ==
  LET t == Thread(p)
      turn == Cardinality(said[t])
  IN  /\ p \in open /\ turn < MaxTurns
      /\ said' = [said EXCEPT ![t] = @ \cup {turn}]
      /\ IF p \in cut THEN UNCHANGED files
                      ELSE Put(p, [files[p] EXCEPT !.turns = @ \cup {turn}])
      /\ UNCHANGED <<rows, open, cut, missed, disturbed>> /\ CodexOnly

Close(p) ==
  /\ p \in open
  /\ open' = open \ {p} /\ cut' = cut \ {p}
  /\ UNCHANGED <<files, rows, history>> /\ CodexOnly

\* A thread that is unarchived between the two listings is in neither.
Move(p, q) ==
  /\ p \in DOMAIN files \ open /\ q \notin DOMAIN files
  /\ Thread(p) = Thread(q)
  /\ files' = [r \in (DOMAIN files \ {p}) \cup {q} |-> IF r = q THEN files[p] ELSE files[r]]
  /\ missed' = IF sync.pc = "list_archived" /\ q[1] = "sessions" THEN missed \cup {Thread(p)} ELSE missed
  /\ Touched(Thread(p))
  /\ UNCHANGED <<rows, open, cut, said>> /\ CodexOnly

Index(p) ==
  /\ p \in DOMAIN files /\ Thread(p) \notin DOMAIN rows
  /\ repair.pc # "replace"
  /\ rows' = [t \in DOMAIN rows \cup {Thread(p)} |->
               IF t = Thread(p) THEN [provider |-> files[p].provider, cwd |-> TRUE] ELSE rows[t]]
  /\ UNCHANGED <<files, open, cut, history>> /\ CodexOnly

-----------------------------------------------------------------------------
Next ==
  \/ \E provider \in Providers, remote \in {R \in SUBSET Paths : Cardinality(R) <= MaxRemote} :
       StartSync(provider, remote)
  \/ \E provider \in Providers : StartRepair(provider)
  \/ index_local_sessions \/ SyncDone \/ SyncStops
  \/ \E p \in Paths : import_staged_rollouts(p) \/ install_new_rollout(p)
  \/ ReadRollouts \/ backup_rollouts \/ BeginTransaction
  \/ \E p \in Paths : CheckReplaced(p) \/ Persist(p)
  \/ Commit \/ ApplyFails \/ Restored \/ RepairStops
  \/ \E p \in Paths : Open(p) \/ Turn(p) \/ Close(p) \/ Index(p)
  \/ \E p, q \in Paths : Move(p, q)

Spec == Init /\ [][Next]_vars

-----------------------------------------------------------------------------
(* Properties *)

FilesOf(t) == {p \in DOMAIN files : Thread(p) = t}

\* However often cxs sync runs, stops half-way or meets a thread twice in one
\* archive, a thread has one rollout, and an import that reports success has
\* left none out.  The exceptions are threads that Codex unarchives between the
\* two listings of an import, or moves or works on while a repair runs.
ImportedOnce ==
  /\ \A t \in Threads \ (missed \cup disturbed) : Cardinality(FilesOf(t)) <= 1
  /\ sync.pc = "done" => \A p \in sync.staged : FilesOf(Thread(p)) # {}

\* No turn is lost, whatever the import and the repair find, replace, restore
\* or leave unfinished, unless Codex worked on the thread during a repair.
TurnsKept ==
  \A t \in Threads \ disturbed : said[t] \subseteq UNION {files[p].turns : p \in FilesOf(t)}

\* A repair that reports success has brought every rollout it listed, and its
\* row, to the provider and working directory, whatever an earlier repair that
\* stopped half-way had left (repair_local).  The exceptions are threads that
\* Codex moved or worked on while a repair ran, or unarchived between the two
\* listings of an import: the docs ask to close Codex first.
RepairAligns ==
  repair.pc = "done" =>
    \A p \in DOMAIN repair.records :
      LET t == Thread(p) IN
        t \notin missed \cup disturbed =>
          /\ \A q \in FilesOf(t) : files[q].provider = repair.provider
          /\ t \in DOMAIN rows => rows[t] = Aligned

\* A repair that reports that the rollouts were restored leaves the provider of
\* every one it meant to change, and every row, as it found them, with the same
\* exceptions as RepairAligns (restore_rollouts).
FailureRestores ==
  repair.pc = "restored" =>
    /\ \A p \in repair.changes : p \in DOMAIN files /\ Thread(p) \notin missed \cup disturbed =>
         files[p].provider = repair.records[p].provider
    /\ \A t \in DOMAIN repair.seen : rows[t] = repair.seen[t]
=============================================================================
