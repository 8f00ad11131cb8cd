# Verification of codex-shuttle

TLA+ models of Codex Shuttle, checked with TLC, and proofs about them, checked
with TLAPS. Shuttle lets the desktop Codex App work on a remote host: the App's
session runs in a local App Server whose commands execute remotely, and the
file and process requests go to a second App Server on the host. This directory
models how those parts interact. It is written from the code under `crates/`;
every definition that stands for code is listed with its lines in
`PROJECT.json`.

## The system

| Part | State | Operations | Talks to |
|---|---|---|---|
| Relay of one App session (`cxs-bridge`, `relay_websocket`) | registration phase, the two halves of the initialize response, queue of early requests, pending `thread/start`s, pending `thread/list`s | one `select!` loop: client message, local App Server message, host line, 50 ms timer | client WebSocket, local App Server (child process), Host App Server (mux channel), session scope |
| JSONL relay (`relay_jsonl`) | registration phase, queue | as above without a host | client stream, local App Server |
| Bridge supervisor (`serve`, `serve_multiplexed`) | failure count, agent child, local endpoint, session scope | connect the agent, accept sessions and Exec connections, reconnect with backoff, stop on a signal | ssh, mux, relays |
| Mux (`cxs-mux`) | Yamux connection, open channels | open, accept and type a channel, fail | bridge and agent |
| Remote agent (`cxs-shim`) | socket, pid file, Exec Server and Host App Server children | start, replace an older agent, relay channels, stop | mux, shim, children |
| Remote shim: control socket and proxy | control socket, count of clients | serve, proxy, exit when idle | App's ssh command, agent |
| One App session, end to end (`cxs-shim`, `cxs-bridge`) | links between eleven parties on two machines, two child App Servers | join, copy, pass the end of a direction on, abort, stop a child | all of the above |
| Profile store and session scope (`cxs-core`) | `profile.json`, `sessions.json`, token, lock files | create, load, save, list, remove, lock | CLI, bridge |
| CLI lifecycle (`cxs-cli`) | bridge pid file, profile status | add, install, rollback, up, down, remove, session-scope | store, installer, bridge process |
| Remote installer (`cxs-install`) | `current` and `previous` releases, staged and partial files | install, rollback, uninstall, download | ssh |
| Session import (`cxs-sessions`) | rollout files, rows of `threads` | sync, repair | database, ssh |
| SSH configuration, probe, installers, CI | text files, one-shot checks | | |

What is hard here: three peers whose messages interleave freely in one loop
that owns all of a session's state; requests the bridge makes for itself inside
a conversation of the client; a timeout that races the answers it waits for;
futures that `select!` cancels half-way; several processes (bridges, agents,
CLI commands) that find and replace each other through files and pids;
operations of several steps on two machines that may stop between any two.

What makes each part correct:

* *Relay*: requests reach the servers in order, once, and none before the
  session is usable; each `thread/start` is released exactly once, with every
  instruction file that could be read; the client sees no reply that is not its
  own, at most one reply per request, and only its profile's threads; nothing
  waits for ever on a host that is silent.
* *Supervisor*: one connection at a time, an endpoint only while connected,
  backoff within its bounds, a signal stops it.
* *Mux*: an open returns, what a task writes is sent although another task
  polls the connection, and a lost connection ends everything at both ends.
* *Agent and control socket*: one that is replaced leaves its successor's files
  alone; one that leaves for want of clients leaves none behind.
* *Session*: when one part goes the rest follows, and no child is left.
* *Store, CLI, installer*: after a crash at any point the profile and the
  remote release agree or a repeated command repairs them; recorded ownership
  is not lost.
* *Import*: no thread is duplicated and no turn lost; a repair that succeeds has
  aligned files and rows, one that fails has restored both.

## Modules

| Module | What it is |
|---|---|
| `GatedForwarder` | Abstract specification of a relay: a gate, an ordered hand-over, one answer per request. |
| `Relay` | `relay_websocket` and everything it calls. |
| `MCRelay` | Constants for TLC. |
| `RelayProofs` | Theorems about `Relay`. |
| `LineReader` | `read_bounded_line` as a cancelled branch of the loop. |
| `ProfileBridge` | Abstract specification of a profile's commands: one bridge at a time, reports that are so, one register for the session scope. |
| `Bridge` | The bridge processes of a profile and the commands `up`, `down` and `session-scope`. |
| `BridgeProofs` | Theorems about `Bridge`. |
| `ChannelService` | Abstract specification of a multiplexed connection: one answer to an open, one offer of a channel to the other end. |
| `Mux` | One multiplexed ssh session: both drivers and both accepting loops. |
| `MuxProofs` | Theorems about `Mux`. |
| `Session` | The tasks and processes of one App session, end to end. |
| `SessionProofs` | Theorems about `Session`. |
| `Agent` | The agents of one remote account, that stop and replace each other. |
| `AgentProofs` | Theorems about `Agent`. |
| `ControlSocket` | The control servers of one remote account, and the proxies that look for one. |
| `ControlSocketProofs` | Theorems about `ControlSocket`. |
| `Install` | The commands `install`, `rollback`, `remove` and `add`, and the scripts they run on the remote host. |
| `MCInstall` | Symmetry for TLC. |
| `InstallProofs` | Theorems about `Install`. |
| `Sync` | The commands `sync` and `repair` beside a Codex that works. |
| `MCSync` | Symmetry for TLC. |
| `SyncProofs` | Theorems about `Sync`. |

The modules meet where one stands for what another shows. `Relay` is what a
party of `Session` does with messages. `Session` takes the connection, the
agent and the control server as there and lets them go at any time; `Mux`,
`Agent` and `ControlSocket` say how they come and go. `Bridge` connects and
loses a transport in one step each, which is a behaviour of `Mux` and `Agent`.

### `Relay` and the code

An action is one iteration of the `select!` loop: the branch that won plus the
code after the `select!` (`EndOfIteration`: merge of the two initialize
responses, then the flush). The two branches that end in `continue`
(`environment/add` and `environment/status` responses) leave that part out.
`Forward` is `forward_client_message` for a sequence of requests. Notifications
and frames that are not text are iterations that only pass something on
(`Chatter`); they matter because each of them restarts the 50 ms sleep, so that
`Timer` needs an iteration in which nothing came for so long (`Pause`).

| Variable | Code |
|---|---|
| `session` | the loop runs, returned `Ok`, or returned an error |
| `initialize_requested`, `phase`, `attempts` | `EnvironmentRegistration` |
| `local_initialize_response`, `host_initialize_response`, `initialize_response_sent` | the locals of these names (present or not) |
| `pending_client_messages`, `pending_client_bytes` | the queue, and the count that is kept beside it |
| `pending_thread_metadata` | the map, by `thread/start` instead of by metadata id; `instruction_paths` is the list as the host sent it, cut at 32, repeated files included, and a read is named by its index there; `instruction_contents` are kept by file; `started_at` is the flag `expired` |
| `quiet` | the sleep of this iteration is over and nothing has come |
| `pending_thread_list_requests`, `thread_ids` | the set of ids; `SessionScope.thread_ids` |
| `server_open`, `host_open` | what each App Server has been asked and has not answered |
| `client_sent`, `forwarded`, `local_starts`, `inbox`, `stray` | history: what was sent, forwarded, started with which sections, delivered as an answer, and delivered as an answer to what the client had not asked |

The environment is as free as the protocol: a peer answers what it was asked in
any order, with a result or an error, or never; the host names any list of
instruction sources; time passes at any point; any of the three connections may
end. The local App Server may also send requests of its own under ids the
client uses (`ServerRequestIds`), since JSON-RPC ids of the two directions are
unrelated. A client sends one `initialize` and does not reuse an id. An id the
bridge makes up is the tuple of its parts, and `host_message_allowed` tests what
it begins with, as the code does.

The sum of the instruction files is not what docs/architecture.md says it is
("512 KiB total"). The code reads a source once per entry of the host's list,
sums the contents by path, each file once, and injects a section per entry: a
file that is listed 32 times counts once or twice and is injected 32 times.
`InstructionBudget` is what the code guarantees, about distinct files;
`WithinTotal` is what the document says, and fails in `relay_repeated_source`.

Left out: what requests and results contain beyond the fields above (environment
injection, path rewriting), what notifications and frames without text carry, a
session scope that is disabled (it filters nothing), replies that parse but lack the
fields every App Server sends, and the time a write takes: a write that fails
ends the session like `Disconnect`, one that blocks is in the list of hazards.

### `Bridge` and the code

Several processes without a common lock: bridges, and one command at a time,
which holds the profile's exclusive lock. They meet in files, a port and
signals.

| Variable | Code |
|---|---|
| `phase` | how far `serve` and `serve_multiplexed` have come: token read, agent connected, scope loaded and endpoint cleared, endpoint bound, Exec port bound, serving; `backoff` is the sleep between connections |
| `handled` | Tokio's signal handlers, installed at the first poll of the signal futures and never removed |
| `signalled` | a SIGTERM delivered to such a handler while the `select!` runs |
| `scope`, `late_scope` | the `Arc<Mutex<SessionScope>>` of the current connection, and of an earlier one whose sessions are still alive |
| `endpoint`, `exec_port`, `pid_file`, `scope_file` | the socket at `local_socket`, the listener on `local_exec_port`, and the two files |
| `at`, `command`, `target`, `restart`, `loaded`, `child` | the running command and its locals |
| `recorded`, `settled`, `late`, `chosen`, `said` | history: saved ownership, what of it was saved while no session of an earlier connection was left, whether such a session has recorded a thread, the user's last choice, how the last command ended |

A bridge's action is what it does between two awaits that another process could
notice; a command's is what lies between two looks at the shared state. A
bridge may crash anywhere (then no guard runs and the socket stays). A command
may be aborted anywhere but between the spawn and the pid file: there a bridge
is left that nothing can find, which makes `OneBridge` and `DownStops` false at
once and is in the list of hazards. An exited child is a zombie until the
command that spawned it ends, as on Unix. `pid_is_bridge` checks the command
line of the process, so a pid that was used again is taken for no bridge.

Two weaknesses of the code are in the model, and the properties allow for them:

* A session whose connection is lost may go on for a moment and record a thread
  in the copy of the scope its connection had. It then writes that copy over a
  file the next connection has changed, and ownership recorded since is lost.
  `ScopeKept` says what is not lost: a thread saved while no such session was
  left (`settled`) stays in the file for good, whatever late sessions write
  later, and until one of them has written (`late`) so does every other. It says
  nothing of threads recorded beside a session that goes on.
* `up` asks with signal 0 whether the bridge it spawned is there. One that has
  exited is a zombie of `up` and still counts (`PidAlive`), so that after five
  seconds `up` reports it as started and reconnecting; the message about a
  bridge that exited before becoming ready is never seen. `StatusHonest` is
  about `status`, which looks later from another process.

Left out: delays and the failure count that determines them, log files, the
`ssh_config` that `up` rewrites, a bridge in the foreground (it writes no pid
file), a profile without a scope, and the sessions themselves (`Relay`).

### `Install` and the code

A step changes one file or link of the remote host, in the order of the shell
script, or is one stage of the command on the desktop. `remote` holds what the
scripts look at; a release is named by its directory (Codex version and shim;
the digests in the name follow these), and is in `remote.partial` while only a
part of that directory is there. `purpose` says what the command does when
the script has ended: the same rollback script serves `rollback`, the recovery
of an `install` and the undoing of a failed `rollback`. `Stop` is every way in
which a step fails: the script exits (`set -e`), ssh fails, the command is
interrupted. `VerifySucceeds` stands for `up` and `probe_ready`, which need the
shim at `~/.local/bin/codex` and the desktop's Codex version.

Three things a reader of the properties should know.

* A recovery switches to the release `previous` names. That is the one that was
  current when the command began, unless the command installed the current
  release again: the script then leaves `previous` alone, and the recovery goes
  to an older release. Either may never have passed a verification, and the code
  does not look.
* `ReadyVerified` speaks of the release the profile names. A command that stops
  after the script and before it saves the profile leaves a profile that is
  `ready` beside a remote release that was never verified; `SuccessAgrees` says
  that the next command that ends well brings them together.
* A release directory that is there is taken as complete. A purge removes it file
  by file (`PurgeStops` leaves a part, and `purge_cut` remembers it), an install
  of that release keeps the part and throws its own complete package away
  (`Stage`), switches to it and links the shim before `test -x` finds out; that
  failure is not recovered from. `ActiveUsable` excepts exactly this: only part
  of the release, and only after such a purge, until one has finished.

`RollbackUndone` is about both links, both copies and the profile.
`OriginalKept` is about a command the user had and install moved away: it is
kept or in its place, and in its place once a removal, or the recovery of a
first installation, has ended well, unless the user put another there.

Left out: the transfers before the script and their retries, the checks of the
staged package (a package that fails them is a `Stop`), the shell profile, the
executor path of layouts before the present one, a second profile or desktop
that uses the same host, and a script that goes on after the command that
started it is gone.

### `Agent` and the code

Every connection of a bridge starts an agent over ssh with `--replace`. Agents
share no lock: each stops those it finds, takes the socket and writes the pid
file, and removes both when it ends. The phases of an agent are the points of
`run_agent` between which another process may act.

| Variable | Code |
|---|---|
| `linux` | the platform: on Linux `existing_agent_processes` searches `/proc` and `active_agent_pid` finds who has the socket open; on macOS the first finds nobody and the second reads the pid file |
| `victims`, `target` | the list `stop_existing_agents` works off, and the process `stop_agent_process` waits for |
| `socket`, `guard` | the inode at `config.agent_socket`, and the one `SocketGuard` has noted; every `bind` makes a new inode, named by its agent |
| `pid_file` | the agent the pid file names |
| `listening` | whose listener is open: what a connect to the socket looks at |
| `handled`, `signalled` | the SIGTERM handler of `serve_agent_mux`, and a signal it has not looked at; before that SIGTERM ends the process and runs no guard |
| `exec`, `linked` | the Exec Server child, and the ssh connection of the desktop |
| `killed`, `refused`, `crossed` | history: ended by a signal; failed to take the socket; an agent took the socket while the pid file named another, or another was about to remove what is at the paths |

The guards look at a file and then remove it, in two steps; so do the removals
of `prepare_agent_socket`. If a process goes between the end of the three
seconds and the look of `validate_agent_process` that follows, the agent that
waited for it ends with an error (`Kill`); its bridge tries again.

`OneAgent` also says what happens to two desktops of one account: the later
agent ends the earlier one, whose bridge connects again and ends the later one.
The model lets that go on; nothing in the code prevents it.

Left out: the search for a free port, the channels of the mux and the Host App
Servers behind them, a start without `--replace`, a pid that is used again, an
agent that starts while `/proc` is being searched, and platforms on which an
agent finds nobody at all. An agent that is killed leaves its Exec Server: the
starter waits three seconds, the agent may take longer to stop its child. The
model has that (`Kill`), and `ExecStopped` speaks of the other agents only.

### `Mux` and the code

At each end a driver task alone polls the Yamux connection. Tasks that hold a
stream reach it through a bounded queue of commands: a stream's operation sends
a wake-up, polls the stream, and sends another. What the operation left is sent
only when the driver polls the connection afterwards, and the driver sleeps
unless woken. Losing that wake-up, or waiting for room in a queue whose reader
waits too, is what could go wrong.

| Variable | Code |
|---|---|
| `stage`, `accepted` | how far `MuxHandle::open` has come with a channel at its opener, and `identify_inbound` at the other end |
| `written`, `arrived` | the parts of the header (`STREAM_MAGIC`, the kind) that the stream has taken and that the other end can read |
| `step`, `work`, `closed` | a stream's operation (wake before, poll, wake after), what the connection has not looked at yet, and streams that were dropped |
| `commands`, `awake` | the queue of `DriverCommand`s and whether the driver polls the connection before it sleeps |
| `over`, `refusing`, `faults` | a driver that has returned, a connection Yamux has closed, an inbound channel that could not be identified |
| `incoming`, `serving` | the queue of identified channels, and the loop that accepts them (`serve_agent_mux`, `serve_multiplexed`) |
| `connected` | the ssh connection |

Yamux is external: polled, it sends what its streams have queued, and it refuses
a stream beyond its limit. The bridge stops its ssh when its loop ends. The
agent's process ends when its loop has ended and the blocking read of its stdin
has returned, which the runtime waits for when it is dropped: the finding of the
run `mux_agent_lingers`. In `Agent` an agent is gone when `run_agent` has
returned, and in `Session` when its process has.

Left out: the flow control and the bytes of a channel, the keep-alive of ssh,
and what the opener does after the header (the same as the other end does).

### `Session` and the code

```
app - proxy - control - app_relay = session - server - exec_local
                                      ||                  ||
                       host - host_relay   exec - exec_remote
```

Each line is a link with two ends, doubled where it is a channel of the
multiplexed connection. The first row from the left: the App's ssh command, the
shim's proxy, the control server's relay and the agent's on the remote host;
then the bridge's session, its child App Server and the Exec relay on the
desktop. `host` and `exec` are the agent's two children.

| Variable | Code |
|---|---|
| `made`, `open` | links that have come to be, and ends of them that may still be written (a party that is gone has closed its ends; `shutdown` closes one for writing) |
| `session` | how far `handle_websocket_connection` has come: handshake, spawn, wait for the socket, accept, connect, open the host channel, relay, stop the child |
| `alive` | the local App Server and the Host App Server |
| `linked`, `agent` | the multiplexed connection, and the agent's process |
| `crashed` | history: killed with no chance to stop a child |

Relays that `select!` over two copies end with either direction; those on
`copy_bidirectional` end with both. What is relayed is in `Relay`. `codex
app-server proxy` waits for the App after its control server has ended and
notices only when it writes; so `Teardown` asks it to go when the App goes.

### `ControlSocket` and the code

Each bootstrap of the App starts a control server, which ends at once if one
answers at the path, and then a proxy, which tries to connect for ten seconds.
Between the probe and the removal of what is at the path another server may
have taken it.

| Variable | Code |
|---|---|
| `phase` | how far `serve_control_socket_at` has come; the removal of a socket, its bind and its permission are steps of their own |
| `path`, `listening`, `guard` | the inode at the path, whose listener is open, and what `SocketGuard` has noted; every `bind` makes a new inode, named by its server |
| `backlog`, `relays` | clients the kernel has connected, and those whose relay runs |
| `active`, `completed` | the server's count of clients, and the messages of `completed_rx` it has not read |
| `proxy` | how far `proxy_control_socket` has come |
| `before`, `robbed` | history: the listeners there were when a server probed; servers whose socket another removed that was at work on the path at the same time |

`PathServed` excepts `robbed`: two servers that start at once both find nobody,
and the second removes what the first has bound. Nothing in the code prevents
that; the first then leaves when its clients have (`IdleExits`). A proxy in the
backlog of a server that leaves sees the end of its connection and does not try
again; the idle exit has that window by design.

Left out: what the shim does for other command lines (it executes the original
`codex`), and what a client's relay carries (`Session`).

### `Sync` and the code

`cxs sync` copies rollout files of the remote host into the desktop's Codex
home; `cxs repair` writes the active provider into the rollouts and into the
rows of the `threads` table. Codex may work on both meanwhile.

| Variable | Code |
|---|---|
| `files`, `rows` | the rollouts by directory and thread, and the table |
| `sync`, `repair` | a run of each command with its locals: listings, staged and installed files; records, planned changes, backup, what is left to replace |
| `open`, `cut` | rollouts Codex has open, and those of them that were replaced since |
| `runs`, `done` | counted for the bounds |
| `said`, `missed`, `disturbed` | history: the turns taken here; threads that moved between the two listings of a run; threads Codex worked on during a repair |

The properties except the threads in `missed` and `disturbed`. A thread that
Codex moves from the directory listed last to the one listed first is in
neither list. A rollout that Codex has open when a repair replaces it goes on
being written under no name; the documentation asks to close Codex first, and
the code does not check. So `RepairAligns` and `FailureRestores` say nothing of a
thread that moved while a repair ran, and `ImportedOnce` nothing of one that was
unarchived between two listings. `FailureRestores` compares providers; turns are
in `TurnsKept`.

Left out: the formats and limits of files and archive, a database without the
expected columns, and two commands at the same time: `cxs sync` locks its own
profile only, so two of different profiles may run at once.

## Runs

| Run | Result | What it shows |
|---|---|---|
| `relay_session` | pass | `HeldInOrder`, `StartedOnce`, `QueueBounded`, `InstructionsInjected` (all that could be read, within the limits), `OwnThreads` (only owned threads are listed, all owned ones recorded), and that `Relay` implements `GatedForwarder`; under fairness `RequestsForwarded`, `StartsReachServer` |
| `relay_repeated_source` | violation | `WithinTotal`: a source the host lists three times is injected three times and exceeds the total |
| `relay_id_collision` | violation | `OnlyOwnThreadsListed` fails once server requests share an id with a pending `thread/list` |
| `line_reader` | violation | `LinesAreWhole`: a host line is cut when its read is cancelled |
| `bridge_commands` | pass | `OneBridge`, `DownStops`, `StatusHonest`, `ServingReachable`, `ScopeKept`, and that `Bridge` implements `ProfileBridge`; under fairness `Reconnects` |
| `mux` | pass | `WakesKept`, `QueuesExact`, and that `Mux` implements `ChannelService`; under fairness `OpensReturn`, `WorkIsDone`, `AllEnd` |
| `mux_agent_lingers` | violation | `LossNoticed`: an agent that has stopped serving keeps its ssh connection, and the bridge does not notice |
| `session` | pass | `ChildrenStopped`; under fairness `Teardown` |
| `agent_replacement` | pass | `OneAgent`, `ServingReachable`, `RecoveryNotBlocked`, `ExecStopped`; under fairness `Settles` |
| `control_socket` | pass | `ClientsKept`, `PathServed`; under fairness `IdleExits` |
| `install_commands` | pass | `ActiveUsable`, `SuccessAgrees`, `ReadyVerified`, `RollbackUndone`, `OriginalKept` |
| `session_import` | pass | `ImportedOnce`, `TurnsKept`, `RepairAligns`, `FailureRestores` |

Every property of a passing run has a mutant in `PROJECT.json`: a plausible
defect of the code, written beside the definition it replaces, under which the
run must fail. The type invariants
are theorems.

### Bounds

* `relay_session`: one request of each route, because the routes differ and
  the order between them is what the queue must keep; a queue of two, so that
  it holds a pair in order and also overflows; two status polls instead of
  200, so that success, retry and the limit all occur. Two files of lengths 1
  and 2 against limits of 2 sources and 2 bytes in all, in lists of up to three
  (`MaxListed`): one may be listed twice, a third is dropped, and the two
  together exceed the sum. No file is over the limit for one file; the proofs
  cover that. Two `thread/start`s do not interact except through the queue, and
  the proofs cover any number. One thread of the local history belongs to nobody.
* `relay_repeated_source`: one start and one file, listed up to three times: the
  code sums a file that is read again twice, so that two would stay within the
  total.
* `relay_id_collision`: a start and a list, whose id the App Server uses too.
* `line_reader`: two lines of two pieces, the least that can lose a beginning.
* `bridge_commands`: two processes, the second started after the first was stopped or
  crashed, or beside it if the commands let that happen; commands and
  reconnections are not bounded. Two threads: one to be lost, one whose save
  loses it. The proofs cover any number of both.
* `install_commands`: two Codex versions with one shim, hence two releases, so that
  current, previous and the configuration can all disagree; two commands of
  the remote user, so that one can be in the way of the other. Commands, stops
  and version changes are not bounded.
* `agent_replacement`: two agents, one that is there and one that replaces it,
  or two that start at once and stop each other. The safety properties also
  hold with three (1.6 million states); the liveness property takes too long
  there. The proofs cover any number.
* `mux`, `mux_agent_lingers`: one channel opened by each end, so that both
  directions compete for a queue; queues of one command, so that a sender and
  the driver can each find the other in the way; a limit of one stream, so that
  the second channel is refused when they overlap. One channel lasts as long as
  the connection, as an Exec connection does, the other ends.
* `session`: the model has no constants. One session, every party failing at
  any step; TLC visits all of it.
* `control_socket`: three servers, so that one can leave or be robbed while a
  second probes and a third starts; one proxy, since proxies do not interact.
* `session_import`: two threads, so that one can be moved while the other is
  copied, and two providers; two runs in either order; Codex takes two steps,
  enough to open a rollout and write to it, or to move one and index it; the
  archive has up to two files, which may be of one thread. The proofs cover any
  number of each.

`CHECK_DEADLOCK FALSE` where a behaviour really ends: a session that is closed,
or all bridge or agent processes used up.

### Fairness

`FairSpec` of `Relay` assumes of the peers only that the local App Server
answers `initialize`, `environment/add` and `environment/status` and that the
host answers `initialize`: without them the code has no timeout and the session
may wait for ever (see the hazards). It assumes nothing of the shadow thread,
of file reads or of any request. Of the bridge it assumes that `select!`, which
picks among ready branches at random, takes the timer in the end if that is
ready again and again (strong fairness of `Timer`). It does not assume that the
timer gets ready: the sleep of that branch begins anew with every iteration of
the loop, so that traffic without a pause of 50 ms starves it, and the
three-second timeout of docs/architecture.md:75 with it. `StartsReachServer`
therefore has a premise, that while a start waits the traffic pauses again and
again; without it the property does not hold. `Expire` is the passing of time.

`FairSpec` of `Bridge` assumes that the runtime schedules every bridge (weak
fairness of its own steps) and, for `Reconnects` only, that a host that is tried
again and again is reached at some time and an Exec port found free at some time
(strong fairness of `Connect` and `BindExec`); commands, signals, crashes and
lost connections may come at any time or never.

`FairSpec` of `Agent` assumes that every agent that runs is scheduled. Each of
its waits has a bound in the code (three seconds for a process, the grace of the
Exec Server), and a lost ssh connection ends the mux. Nothing is assumed of Exec
Servers, desktops or other agents.

`FairSpec` of `Mux` assumes that every task runs while it can, that `select!`
takes each of its arms in the end and that timers fire. Steps that happen a
bounded number of times share one weak fairness (`Settling`). Sending an open
has strong fairness: the permits of a Tokio channel are given in the order they
were asked for, so who waits for room gets it. A holder need not begin an
operation, except to write the header, nor drop its stream while the connection
lives.

`FairSpec` of `Session` assumes weak fairness of what the tasks do by themselves
in bounded time (`Working`), that the App sends its upgrade request or goes, and
that the three servers close what the other side has closed. Nothing makes the
App write, a write fail or a party end unasked.

`FairSpec` of `ControlSocket` assumes that a server runs, that its idle timer
fires, and that a probe is accepted and its relay ends. A proxy may stay for
ever.

## Proofs

### `Relay`

`RelayProofs` proves every safety property of `Relay`, for every set of requests,
methods, lengths, files and limits (`RequestsAssumption`, `LimitsAssumption`,
`NoneAssumption`, which TLC evaluates in every run). `Paths` is assumed finite:
they are the files of one remote host.

The safety properties are not inductive: that a start is sent once depends on
what its entry says, and that on where the request is. `RelayInv` adds

* `RegistrationInv`: which initialize halves and which replies of the local
  App Server are possible in each phase;
* `QueueInv`: what is held was sent and not forwarded, the count beside the
  queue is its length, and nothing is held while the gate is open;
* `StartInv`: a start not yet forwarded has no entry and was never sent; an
  entry that waits has sent nothing; nothing is sent twice;
* `AnswerInv`: only forwarded requests are open or answered, and what is
  answered is no longer open; a waiting start has neither an answer nor an open
  request at the local App Server.

`RelayInvariant` proves `RelayInv` with one lemma per action. `RelayHeldInOrder`,
`RelayStartedOnce` and `RelayQueueBounded` follow. `RelayImplements` shows that
every step is a step of `GatedForwarder` or a stutter. The abstract forwarder
counts the answers to each request, so that a second one would be a step it does
not have, and knows no step that answers what the client did not ask. Only the
merge, the ready status and nothing else opens the gate; `AnswerInv` gives that a
response goes to a forwarded request without one; and the test of prefixes keeps
every reply to the bridge's own requests back, by the ids they were made with.

On top of `RelayInv` come the contents of messages. `RelayInstructionsComplete`
rests on `SourcesInv`: until the shadow thread is answered nothing is known of
the files; then each is being read, has been read or was skipped, and none is
being read once the start is out. `RelayInstructionBudget` rests on `BudgetInv`:
what an entry has collected is within the limits, and so is every copy that was
sent. The limit on the sum needs that adding a file to a set adds its length to
`TotalBytes` (`TotalWithout`; one that is read again adds nothing), which the library defines by a recursive function
that takes the elements out in an order of its own. Induction over data is out
of reach of the provers as a theorem with an operator for parameter; the lemmas
`TotalsAgree`, `TotalStep` and `TotalWithout` take a smallest counterexample
instead (`SmallestSet`: of some finite sets, one has none of the others as a
proper subset). Together they are `RelayInstructionsInjected`.

`RelayOwnThreads` rests on `WaitingInv`: an unanswered `thread/list` waits to be
filtered, and the App Server answers a start only while its entry is there. It
assumes `IdsApart`, that no request of the App Server's own has the id of a
`thread/start` or `thread/list` of the client's; other ids may coincide. Without
it the run `relay_id_collision` shows the opposite.

### `Bridge`

`BridgeProofs` proves every safety property of `Bridge` for every number of
processes and threads (`MaxBridgesAssumption`, `NothingAssumption`). `OneBridge`
says nothing of the files and is not inductive. `BridgeInv` adds `Found`, that a
running bridge is in the pid file or, until that is written, held by the command
that spawned it, and `CommandInv`, what a command may rely on at each step: the
pid file is empty before the spawn, names the child while `up` waits, and names
no running bridge when it is removed. No step of a bridge writes the pid file
or starts a process (`BridgeStepFrame`), so only commands can break it, and
`CommandStepInv` takes them one by one.

That only one bridge runs gives the rest. `EndpointInv`: the bridge that has
bound the endpoint has it still, and before it has bound one nothing is there,
from which `ServingReachable` and `StatusHonest` follow. `ScopeInv`: the file and
every copy of the scope say what the user chose, and have every thread saved
while no session of an earlier connection was left, the copy of such a session
included; the copy of the connection has every thread that was saved, unless
such a session has recorded one. So saving either keeps what `ScopeKept` says.

`BridgeImplements` is the refinement of `ProfileBridge`, in which a command
launches at most one bridge, at a moment when none runs, reports what is so, and
writers update one scope. A bridge runs there from its spawn to its end, its
signals, files and reconnections are not seen, and `serving` holds what can be
reached at the endpoint and the Exec port. The proof rests on `PromiseInv`: the
invariants above and `LocalsInv`, which command is at a step and what it holds
there. `session-scope` reads the scope, changes it and saves it in two steps;
that this is one `Edit` is what `ScopeInv` gives, since nobody can record while
no bridge runs. The copy of a connection is `Record`ed as one more thread, since
it contains what the file has, unless it is `stale`: a session of a lost
connection has recorded meanwhile, with the copy of that connection. Then one
`RecordStale`s over the other and the file may lose threads, which is what the
code does (`serve_multiplexed` loads a scope per connection, and
`record_owned_thread` saves the whole copy); what the user chose survives even
then.

### `Agent`

`AgentProofs` proves every safety property of `Agent` for every number of agents
(`MaxAgentsAssumption`, `NoAgentAssumption`). That two agents cannot both be past
stopping the others is not inductive. `StopInv` says why: of any two that have
listed the others, one listed the other and has not yet seen it gone, since the
later list contains the earlier agent. An agent whose list is empty is therefore
alone. `FileInv` says what that agent knows: that nothing is at the path when it
binds, that the socket and then the pid file are its own afterwards. Both need
each other: an agent alone on Linux never finds a listener to replace, so only
`victims` are ever signalled. `ExecStopped` is proved on both platforms from
`ExecInv`, that an Exec Server runs only under an agent that has not yet stopped
it.

On macOS agents do not find each other, and `ServingReachable` holds until two
have handled the files at once (`crossed`). `MacInv` says what holds till then:
who listens has the socket, the pid file names nobody or it, and whoever is on
the way to remove them waits for it to end first. The proof found the exception
that the model made before too narrow: it left out an agent that binds while
the pid file still names an older one, which is ending. A third that was killed
after it removed its socket had made room for it, and a fourth that reads the
pid file then waits for the wrong agent and removes the new one's socket. This
takes four agents; the run has two. The property as it is now was also checked
with four on macOS (6.4 million states).

### `Mux`

`MuxProofs` proves for every set of channels and every bound
(`ChannelsAssumption`, `CapacityAssumption`, `MaxStreamsAssumption`, and
`WakeAssumption`, that a channel is not a wake-up) the safety of the connection.
`WakesKept` is inductive with the types: a wake-up that finds the queue full is
lost without harm because a driver with a command to take is awake. The others
need `Holders`, that a stream within an operation has not been dropped and its
opener is still writing the header: without it an operation that ends could
give a channel that had been refused. `QueuesExact` then relates the two queues
of each end to the stages of channels; the lemmas `Queued` and `Dequeued` say
what appending and taking do to a queue without repetitions. `AnswersFinal`,
that an open is answered once, is stated by a theorem alone: no run lists it.

`MuxImplements` is the refinement: every step of the two drivers, the streams
and the loops is a step of `ChannelService` or a stutter. `HeaderInv` gives that
the accepting end knows only of channels whose opener was given a stream and has
written to it; `Holders` and `QueuesExact` that an answer meets an open that
waits for one.

### `Session`

`Session` has no constants, so TLC's answer is final; the proofs say why it is
what it is. `ChildrenStopped` is inductive with `Owned`, that who has an end of
a link is there, and `Stages`, that a session begins with its channel, once.

### `ControlSocket`

`ControlSocketProofs` proves `ClientsKept` and `PathServed` for every number of
servers and proxies (`MaxServersAssumption`, `NoSocketAssumption`,
`ProxiesAssumption`). `ClientInv` says that a client that is connected has not
come before, so that accepting one adds one to the count; `CountInv` that the
count is right from the first step to the last; `PathInv` that a server which
holds the path has it or was robbed, that a listener another server has heard
before it took the path is robbed if it still holds it, and that one about to
remove its own socket finds that, nothing, or the socket of one that counts as
robbed.

### `Install`

`InstallProofs` proves every property of `Install` for every set of versions,
shims and commands of the user. `InstallInv` says what each step of a command
may rely on: which script serves which command (`PurposeInv`); what the steps so
far have made of links and files, by the sets of steps that come after each
(`ScriptInv`); that a release is in part only after a purge that was cut short
(`PartInv`); what the profile is and was (`ProfileInv`); that a rollback which
is undone switches both links back to what the command found (`FoundInv`); and
that a command of the
user is in one place, and none where a link is about to be made
(`OriginalInv`). There is one lemma per part and per property. Whatever stops a
command keeps the invariant, because every part speaks of what was done and not
of what will be.

### `Sync`

`SyncProofs` proves `ImportedOnce`, `TurnsKept`, `RepairAligns` and
`FailureRestores` for every number of threads, providers, runs and turns
(`BoundsAssumption`). The four need each other: a repair restores the turns it
has read only because nobody added any, and an import adds no duplicate only
because a thread here is in one of its listings. `FileInv` is about the files at
any time (one per thread, every turn in one, only disturbed threads written
without a name); `ImportInv` about what a run of `sync` knows; `RolloutInv` and
`RowInv` relate what a repair has read, backed up and has yet to replace to what
is there; `ResultInv` keeps what a repair achieved until the next run. Each of
them excepts the threads of `missed` and `disturbed`, as the properties do.

### What is model-checked only

Every safety property a passing run checks is also proved. The liveness
properties are not: `RequestsForwarded`, `StartsReachServer`, `Reconnects`,
`OpensReturn`, `WorkIsDone`, `AllEnd`, `Teardown`, `Settles` and `IdleExits` need
ENABLED and are out of the prover's reach.

## What is left

In this order:

1. `RelayJsonl`, the relay without a host: the same registration and queue.
2. Writes that block: each is awaited inside the `select!` arm that makes it, so
   that a host or server that does not read stops the whole session. Queues of
   a bounded length between the parties of `Session` would show where all wait
   for all.
3. The transfer of packages with its retries and its partial files, and the
   steps of `add`, before the script in `Install`.
4. Two commands of `Sync` at once, which take no lock against each other.

Not modelled, and why: the SSH configuration, the probe, the installers and CI
are conversions or one-shot clients without state of their own; see the
components in `PROJECT.json`.
