# A verification development for Late

Late is a desktop application for people who work on network devices: it opens
terminals over serial ports, SSH and local shells, captures packets, keeps an
inventory and its logins, runs local model servers, and lets a chat model propose
commands that an operator approves. This directory holds TLA+ specifications of
the parts of Late where threads, tasks, callbacks, processes and files meet, the
TLC configurations that check them on small instances, and theorems about them
that the TLA+ proof system checks for every value of the constants.

Paths below are relative to the repository's root; `x.rs` without a directory is
in `crates/late-core/src`, `x.ts` in `apps/agent-sidecar/src`. `PROJECT.json` maps
every definition of a module to the lines it models, lists the hazards of the
code, and names, for each property, plausible bugs in the code that it notices.

    tlc -workers 2 -config serial_ports.cfg MCSerialPort.tla
    tlapm DeviceProofs.tla

## 1. The system

```
 apps/desktop (React, Electron)                      apps/agent-sidecar (Node, :7430)
   store.ts panes, lib/rpc.ts, lib/sidecar.ts --HTTP/SSE--> /chat /approve /stop /pending
        |                                                    |  tool loop, approvals, mcp client
        | WebSocket: JSON-RPC, events, binary output         | POST /rpc, 30 s timeout
        v                                                    v
 crates/late-daemon (:7420)   main.rs ws loop, rpc.rs dispatch
        |
        v
 crates/late-core   session.rs App { Inner under one lock }
        |-- serial.rs       worker thread per port, process-wide held set
        |-- ssh.rs, local_pty.rs, pty_io.rs   child process, reader and writer thread
        |-- known_hosts.rs  pins in memory and in known_hosts.toml, one .known per host
        |-- inventory.rs, connect.rs, secrets.rs, providers.rs, collections.rs, import.rs
        |-- policy.rs       permit lists in memory and one overlay file per vendor
        |-- stage.rs        drafts in files; push types them, run starts a tool
        |-- pcap.rs, remote_pcap.rs, capture.rs   recorders and the analyzer
        |-- weights.rs, inference.rs, hardware.rs   engines, downloads -> late-infer (:8010)
        `-- session_log.rs, redact.rs, sftp.rs, http_api.rs
```

### Components, their state, their operations and what makes them correct

| Component | State | Operations | What is hard | Correct means |
|---|---|---|---|---|
| Serial port worker (`serial.rs`) | the set of held paths; per port: device handles, close signal, the place of the worker | `open_serial`, `open_port` with retries, `run_port`, reopen, `release` | two opens of a path, errors after the path was reserved, adapters that come back as another node, close while waiting | one handle per device, no reservation without an owner, close ends the worker |
| Terminal sessions (`session.rs`) | session map; per session: senders, join handle, scrollback, reconnect spec; per session task: receiver, pending output | `open_*`, `attach`, ingest and coalescing, `close_session`, `reconnect`, `write` | the lock is taken in steps, not for an operation; a bounded broadcast channel that laps its reader; a join outside the lock | ordered output, `session.closed` said once and truthfully, ports given back |
| Host key trust (`known_hosts.rs`, `ssh.rs`) | pins in memory, pins in a file, one line for `ssh` per host, a scan cache | `session.open` (ssh), `known_hosts.accept`, `pinned_known_hosts_file` for sftp, capture and push | a clone of the pins is written back after scanning and spawning; cached scans; failed saves | `ssh` expects only keys that somebody allowed |
| Approval gate (`approvals.ts`, `index.ts`, `tools.ts`, loops) | waiters, always-allow set, one controller per conversation | `/chat`, `/approve`, `/stop`, gated tools | awaits between check, click and send; overlapping tools; late clicks | nothing reaches a device without its gates |
| Command policy (`policy.rs`) | a list per vendor in memory, an overlay file per vendor | `check`, `set_allow`, `reload`, absorb at start | a file torn by another writer or by a crash; wrappers, pipes, aliases | deny by default, denied verbs stay denied, memory agrees with the files |
| Staging and push (`stage.rs`, `session.rs`) | a body and a meta file per draft, the tool of a run | save, list, read, delete, push, run | a draft that is saved or removed, a list that is edited, a session that closes during a push; a tool that hangs or leaves children | nothing is typed of a draft with a denied line; no tool sees a credential |
| Daemon transport (`main.rs`) | one loop per socket, a receiver of the events, the queue of the terminal | requests, events, input and output frames | a receiver that lags, a full queue, a slow request | keys and output in order, the end of a session is heard |
| Connect and save (`connect.rs`) | key files, vault, profiles, inventory | `prepare_ssh`, `commit_ssh` | four writes, each of which can fail | no login without its secret |
| Inventory, collections, import | `inventory.toml`, profiles, collections | load, change and save by handlers at the same time | older copies written back, renames onto a folder, foreign files | a tree; what an import adds is what the file says |
| Secrets, providers, settings | vault, provider keys, settings in file and memory | load, change and save | crashes, failed writes, two saves at once | what is flagged as saved is saved; memory agrees with the file |
| Paths (`confine.rs`, `fsutil.rs`) | none | `confine`, `write_private` | links, missing tails, temporary names | nothing outside the home directory or Late's own is read |
| Session logs, redaction | log file, ordinals of the redactor | `set_logging`, ingest, `session.scrollback` | the writer is swapped while the task writes; two overlapping reads | no gap while the log is on |
| Packet capture | table of live captures, children, worker threads, opened files | start, stop, one-shot, export, query | stop against exit, two starts at once, a device that answers late | nothing records that nobody can stop; findings are true |
| Inference engines | one job record per engine under a mutex, pid file, model files, downloads | download, serve, status, stop | overlapping starts, pids used again, crashes, interrupted transfers | stopped means stopped; only whole files are served; the launch fits the cards |
| `late-infer` | the model behind one lock | `/v1` | tensors | - |
| Sidecar MCP client | sessions per server, request queue, grants | `ensureSession`, calls, close | concurrent first use | one session per server |
| Desktop clients (`store.ts`, `lib/rpc.ts`, `TerminalPane.tsx`) | socket, pending calls, the connect in flight, tabs and panes, prebuffers, the mounted terminal | open, close, disconnect, reconnect, cancel, switch tabs | continuations after the pane changed, closes announced and answered, a daemon that restarts | a pane shows a session that lives, none is forgotten, output has no gap |
| Self update, build checks, scripts, packaging, vendored candle-core | none that interleaves | - | - | - |

Calls go from the UI to the daemon and the sidecar, and from the sidecar to the
daemon. Events go the other way, over bounded broadcast channels: 64 chunks for
a serial worker, 256 for ssh and local shells, 4096 events for every socket.
Shared state inside the daemon is `Inner`, under one lock; serial ports, ssh
children, recorders and model servers live in threads and processes, ingest loops
in tasks; handlers of different connections run side by side.

## 2. The modules

| Module | Models | State and code |
|---|---|---|
| `PortLease` | what a serial port promises, with nothing of how | `owner`, `using` |
| `SerialPort` | `serial.rs` | `held` is `held_ports()`; `pc` the line a call or worker is at; `fd` the cloned handles; `closeSig` the close channel; `present` and `link` the machine |
| `SessionLifecycle` | open, attach, ingest, close, reconnect of `session.rs` | `sessions` is `Inner.sessions`; `join` is `serial_join`; `sent`/`pos` the broadcast channel as two counters; `pending` the coalescing buffer; `told` the `session.closed` events |
| `HostTrust` | the trust decision and every path that pins | `mem`, `file`, `line`, `cache` are the four places a key lives; `local` is the clone a handler works on |
| `ApprovalGate` | the sidecar between the model and the daemon | `waiters`, `always`, `runs` are the three maps; `phase` is the await a call is at |
| `CommandPolicy` | `PolicyEngine::check`, `apply_allow_list`, `absorb` as operators | the builtin lists, the wrappers (`Peel`), stages, aliases, verbs |
| `PermitList` | the overlay files and the engine: `set_allow`, `reload`, the seed at a start | `file`, `engine`, `edit` (the handler between truncating, filling and reloading) |
| `StagePush` | `stage.rs` and the push and run of `session.rs`, on top of `PermitList` | `meta` and `bodies` are the two files of a draft; `sess` the terminal and its queue; `child` the tool, its pipes and its login |
| `Confine` | `confine.rs`: resolving a path over directories, files and links | operators |
| `ImportFiles` | the readers of `import.rs` (ssh config, XML of SecureCRT, CSV) | operators over lines |
| `InventoryTree` | the edits of `inventory.rs` | operators over a tree; `UpsertDevice`, `RenameFolder`, `DeleteFolder`.. return the new one or `Conflict` |
| `FileStores` | every handler that loads, changes and saves one of Late's files, `write_private`, `connect.rs` | `disk` the files, `tmp` what is being written beside them, `mem` the settings, `call` what a handler holds |
| `GpuPlan` | `hardware.rs` and the launch: detection, split, share of memory, the model picked | operators over a machine; `Library` is the weight library |
| `GgufFiles` | names of repositories and files, which file a spec means, where it lands, what a start finds | operators over names taken apart at `--` and `-` |
| `EngineJobs` | `weights.rs`, `inference.rs`: download, serve, status, stop of llama-server, Ollama and vLLM | `job` the record, `holder` its mutex, `procs` and `pidfile` the processes, `fetch` the download thread, `up` the compose threads, `box` the container |
| `PcapDecode` | `pcap.rs`: reading a file frame by frame, findings, queries, filters | `reader` is the analyzer: the stored packets, the counters, the findings |
| `PacketCapture` | `pcap.rs`, `remote_pcap.rs` and the captures of `session.rs` | `live` is `live_caps`; `child`, `worker` the recorders; `file` what is on this disk, `flash` on the device; `opened` is `pcaps` |
| `SessionStream` | `main.rs`'s loop per socket, `write`, scrollback, logs, redacted reads | `events` the broadcast ring, `ws` a loop, `input` the queue of the terminal, `logs`, `redactor`, `reader` |
| `PaneSessions` | the panes of `store.ts`, `lib/rpc.ts`, the hydration of `TerminalPane.tsx`, and behind them one connection of the daemon | `ui` tabs, panes and the two sets of session ids; `pending` the awaited calls; `pre` the prebuffer; `ui.term` the mounted terminal; `life`, `ring`, `busy` the daemon as a client sees it |

`MC*` modules hold the definitions the configurations name; `*Proofs` modules the
theorems.

**Composition.** `SessionLifecycle` takes its ports from `PortLease` (its actions
are `Acquire`, `StartUse`, `StopUse` and `Release` of an instance), and
`SerialPort` is shown to implement `PortLease`, so the two compose by the lease.
`StagePush` extends `PermitList`, which extends `CommandPolicy`: a push is checked
by the engine while the permit list is edited on disk. `FileStores` extends
`InventoryTree`, `Confine` and `ImportFiles`, `EngineJobs` extends `GpuPlan` and
`GgufFiles`, `PacketCapture` extends `PcapDecode`: the operators say what a step
computes and the module when it happens.

**Granularity.** One action is what runs without another thread, task or process
being able to see the difference: in `session.rs`, `weights.rs` and `inference.rs`
a section under the lock, in `serial.rs` an operation on the device or the held
set, in the file stores one file operation, in the sidecar what runs between two
awaits. Where an operation takes several sections it takes several actions, with
the caller's place in between (`cpc`, `pc`, `phase`).

**Mutants.** Definitions marked as a mutant state one with a mistake. No
specification uses them.

**Properties** are conjunctions of named parts, each with a comment of its own at
its definition (`RunsAsPlanned == RunsOnlyStripped /\ RunsWithLogin`).

### SerialPort

`Reserve` is the first half of `open_serial`: it looks up the canonical path and
reserves it under the mutex. `OpenOk`, `OpenBusy` and `OpenErr` are one attempt
of `open_port`, shared by the first open and by the reopening worker as in the
code, `CloneOk` and `CloneErr` the `try_clone` after it, `Abort` the error path.
The worker goes round `TopClose`/`TopGo`, runs the port (`RunClose`, `RunLost`)
and leaves by `DropHandles` and `ReleaseHeld`, in this order. `Unplug` and `Plug`
are the machine: an adapter may come back on another node and links follow it.
The key is resolved once, at `Reserve`; each open resolves the path again. The
operating system's exclusive lock is not relied on: an open of a present device
may succeed, be busy or fail.

### SessionLifecycle

`OpenPty`, `OpenQuiet` and `OpenSerial` are the `open_*` functions up to the
worker's start; `Attach` inserts the session and spawns the ingest task;
`SetJoin` stores the join handle afterwards. `Unmap`, `Signal` and `JoinWorker`
are the three parts of `close_session`: under the lock, after it, and the
blocking join. `Reconnect` clones the spec and goes through the same three, then
opens again, which can fail (`ReopenFails`). The ingest task is `Recv`, `Drain`,
`DrainEnd`, `Tick` and after the loop `FinalFlush`, `DecideDropped` and
`TellDropped`. The broadcast channel is the pair `sent`, `pos`: a receiver more
than `RingCap` behind has lagged, which ends the loop in `recv` and skips to the
oldest chunk in `try_recv`.

### HostTrust

`OpenSsh` clones the pins, `Scan` and `Rescan` probe the host, `Decide` is
`check_any` with the flags of the call, `WriteLine` writes the one-line file that
`ssh` will insist on, `Spawn` starts `ssh`, `Publish` makes the clone the memory
map and the file. `OtherSsh` starts from the file and never publishes.
`AcceptHostKey`, `AcceptProbe` and `AcceptPin` are `known_hosts.accept`. `Fails`
stands for every error return and undoes nothing, as the code does. `Restart`
loads the file. `permitted` is a history variable: the keys a client allowed for
a host, by accepting the fingerprint or by a flag on an open. Of a changed host
that is opened with `replace_host_key` both the key that is pinned and the key
`ssh` is told count as allowed, since the flag names no fingerprint.

### ApprovalGate

`Chat`, `Stop`, `StopAll` and `Approve` are the HTTP handlers; `Round` is an
answer of the model with tool calls, `StartCall` and `OtherTool` the dispatch,
`EndTurn` the `finally`. A gated call goes `Check` (in the daemon) - `ReplyReuse`
or `ReplyAsk` - `AwaitGate` - `Approve` - `Deliver`. Calls to the daemon may be
lost (`Lose`) or given up while still executing (`Return` without it). The permit
list is edited at any time (`EditPermit`). `Overlapping` are the turns whose loop
runs the tools of a round at the same time.

### CommandPolicy, PermitList, StagePush

A command is its parts between pipes, each a sequence of words; `Parts[w]` says
which words are found inside another, since the code searches for denied words
as text. `Check` peels wrappers (`do`, `sudo`..), looks every stage up in the deny
and the allow list and follows the aliases of the builtin list. `SetAllow`
computes the new list, `Truncate` and `Fill` are the two halves of `fs::write`,
`Reload` reads all files and gives up at the first that does not parse. `Stop` at
any moment may leave a torn file; `Boot` seeds and absorbs.

In `StagePush` a save is `Save` (strip, then the body file) and `SaveMeta`, a
delete `RemoveBody` and `RemoveMeta`. A push of a CLI draft is `StartCli`,
`CheckLine` for every line and then `TypeLine` for every line; one of another
format is `Plan`, `Spawn`, `Poll` until the tool exits or `Timeout` kills it, and
`Join`, which waits for the pipes too. Closing, printing, editing the list,
clearing the vault happen in between.

### FileStores

`call[c]` is a handler: what it read, what it will write, what is left to do.
`Read`, `WriteBeside`, `RenameFile` and `Publish` are the file operations of a
handler, in that order; `Fail` is an error at any of them, `Restart` a stop of the
daemon, which keeps `disk` and leftovers in `tmp`. `Connect`, `PrepareLogin` and
`CommitOrder` are `connect.rs`: key, vault, profile, inventory. `Import` takes a
path a client names through `Confine` and the file through `ImportFiles`.

### GpuPlan, GgufFiles, EngineJobs

A behaviour follows one engine on one machine with one setting. A start of a
native server is `Claim` (under the mutex), `Spawn`, `Record` (the pid file) and
`Keep`, each after the lock was dropped; `Stop` kills what is recorded or answers
to the recorded pid; `OthersStart` gives a free pid to an unrelated process. The
download thread goes `list`, `get`, `open`, `bytes`, `rename`, `verify`. A start of
vLLM is `ClaimBox` and a thread `UpRuns`, `UpPosts`, `UpSettles`; a stop
`DownRuns`, `DownPosts`. `word` remembers what was asked for last; `excused` that
calls overlapped or that a step failed unseen, where the code promises nothing.

### PcapDecode, PacketCapture

A frame keeps what the dissector looks at: link type, ethertypes met in turn, how
far the kept bytes reach, flags, ports, what the payload looks like. `ReadFrame`
counts, dissects, looks for repeated segments and changed hardware addresses, and
keeps the packet below the cap; `EndOfFile` sorts and cuts the findings.

A local capture tries dumpcap and tcpdump (`Try`, `TryRecords`, `TryTimesOut`); one
over ssh a stream (`StreamIsPcap`, `StreamFails`), then a thread that drives the
command line (`WorkerReady`, `WaitStop`, `WorkerExports`). `StopPcap` removes the
capture from the table, tells or kills its recorder and joins it; `OpenPcap` opens
what the file then holds. `file[c].of` says which capture the packets are of.

### SessionStream

The task: `IngestChunk`, `Tick`, `Taken`, `EmitSessionData`, `AppendLog`, and
`Dropped` at the end. A socket: `WsUpgrade`, `LoopReceives` (a key, whose `Write`
may wait for room, or a slow request), `LoopServes` (an event or what lag has left
of it), `LoopEnds`. A log: `StartLog` writes scrollback first, `StopLog`. A
redacted read: `CopyScrollback` clones scrollback and the redactor under the lock,
`Redact` goes over the copy chunk by chunk on the clone, without the lock, and
`RedactedScrollback` stores the clone back.

### PaneSessions

A click is an action: `OpenSession`, `OpenLocal`, `CancelInFlightConnect`,
`ClosePane`, `CloseTab`, `DisconnectPane`, `ReconnectPane`, `ActivateTab`. What
follows the `await` is `Returned`, taken in the step that settles the call: an
answer (`Answered`), its timer (`Timeout`), or, in `Refused`, the end of the socket
or a connect that fails. When the socket ends (`OnClose`), what follows the calls it
rejects runs before any click or timer (`Rejecting`), in an order left open: it
depends on how many awaits lie between a call and what waits for it. `Mount` is the effect of
`TerminalPane` for the visible tab, with its choice between prebuffer and
scrollback; `Data` and `Closed` are the events. The daemon is `Request`, `Respond`
and `SendEvent` of one `ws_loop`, which answers a request before it sends another
event, and `Crash`. `unclaimed` and `crossed` remember the sessions the page gave
up: history variables of the exceptions that `NobodyForgotten` states.

## 3. The runs

Distinct states are as TLC counts them, after symmetry where there is one.

| Run | States | Bounds | Shows |
|---|---|---|---|
| `serial_ports` | 15 k | 2 nodes, 2 calls, 2 attempts, no links, fair | `DevicesHeld`: no device open twice or outside the held set. `HeldHasOneHolder`: every reservation has one that will remove it. `ImplementsLease`: the refinement of `PortLease`. `CallsEnd`: opens return, a closed worker ends |
| `session` | 150 k | 1 session, 1 port, 2 callers, 6 chunks, channel of 2, coalescing at 1 and 3, fair | `EventsAgree`: `closed` is said once, when the session left the map. `PortsAreKept`: a leased port has somebody who can stop it; a join frees it. `OutputOrdered`. `NothingStaysBehind`: pending output is flushed and the end announced (`PendingIsShown`, `EndIsTold`). `ClosesEnd`: a close returns |
| `trust_safety` | 620 k | 1 host, 2 keys, 2 handlers, failed saves, restarts | `KeysPermitted`: nothing but allowed keys is pinned or expected. `PlainOpenUsesPin` |
| `gate` | 1.6 M | 2 conversations, 2 turns (one overlapping its tools), 2 calls, 2 kinds of command, fair | `SentWasGated`, `CancelHolds` (rejected stays unsent, and only by its own conversation), `PromptsAgree`, `AbortEndsTurn` |
| `permit` | 22 k | 2 vendors, 3 lists, 2 editors, 3 edits, torn files, restarts | `EngineIsFile`: when no call runs memory is what the files say. `ListDecides`: what is denied stays so in every wrapping, until it is on a saved list; what is listed is allowed |
| `push` | 140 k | 1 draft, 2 bodies (one with a credential, one with holes), 2 formats, 2 calls, 1 edit, queue of 1, fair | `TypedIsPermitted`: a denied line types nothing, lines are typed in order and pass the policy when all that operators ever put on lists is lifted from it. `ListedIsReadable`. `RunsAsPlanned`: no credential in a run, and a login. `PushesEnd` |
| `stores` | 600 k | 2 handlers, 3 devices, 2 profiles, 2 calls, 1 failure or restart, links out of the home and into Late's | `InventoryKept`, `LoginsWhole`, `SettingsKept` (a rename publishes its own file, memory and file agree on the settings), `ImportsHold` |
| `engines` | 3.7 M | 2 connections, 3 engines, 2 pids, 3 calls, 1 fault, 2 births, 2 machines, a repository of 3 files | `ServersOwned`: only own processes are killed, none escapes, stopped stays down. `DownloadsWhole`: what is on disk is whole, a start finds what was downloaded. `LaunchSound`: the launch fits the cards |
| `capture` | 730 k | 2 captures of 3 kinds, 2 stops, 2 platforms; files of up to 4 of 20 frames, caps of 1 to 3, fair | `RecordersHeld`, `CapturesApart`, `FindingsTrue`, `CapturesEnd` |
| `transport` | 1.3 M | 2 sockets, 2 readers, 3 chunks, 3 keys, 3 secrets, rings of 1 and 2, fair | `OutputKept`, `KeysInOrder`, `LogComplete`, `NumbersStableAlone`, `EndReachesSockets` |
| `engines_stay_live` | - | as `engines`, vLLM only | a counterexample, section 4 |
| `panes` | 1.98 M | 2 sessions, 3 clicks that call, 1 switch of tabs, 2 chunks, 1 restart or timeout, a prebuffer of 1, fair | `PanesTrue`: panes show what lives or is about to be marked, nothing runs unseen but where the code gives it up. `ScreensTrue`: a terminal paints output without a gap. `AwaitsEnd`: what is awaited ends without a timer |

**Why the bounds are enough to be interesting.** Two calls on two nodes are
two openers of one device, an opener against the worker that is leaving it, and
a node that disappears under one of them. A channel of two with six chunks laps
its reader during the drain and in the loop, fills the coalescing buffer to both
thresholds, and leaves chunks pending at the end. Two handlers on one host with
two keys are every pair of open, accept and sftp, and a pin that changes under a
clone. Two calls in two turns are overlapping prompts within a turn and across
conversations, and a turn that aborts another. Two editors of two lists with
three edits tear a file under a reload and repair it. Two calls on a draft are
every pair of save, delete, push and run. Two handlers of the stores are every
pair of load and save of one file, a fault at every step of either. Three calls to
an engine are start, start, stop and stop between claim and keep; two pids with two
births let a pid come back as another process. Four frames are a segment, its
repetition and two that reach the caps of what is stored and looked at. Rings of
one and two lap with three chunks. Three clicks open, reconnect and close one pane,
or open two and hide one, with a restart between any two messages; two chunks are one
in the scrollback and one behind it, and overflow a prebuffer of one.

**Deadlock** is checked in `serial_ports`, `session`, `trust_safety` and `gate`,
where the environment always has a step. The other modules count calls, edits,
keys or frames up to a bound and stop there, or follow captures that are each
asked for once; their liveness properties say what must not be left waiting.

**Symmetry** is used only in runs without temporal properties (`trust_safety`,
`stores`, `engines`), over identities that no definition orders; keys are ordered
by preference and have none.

### Fairness

* `SerialPort`: the calling thread and the worker thread are scheduled. `RunClose`
  is fair because `run_port` reads with a 50 ms timeout and looks for close on
  every turn; `OpenBusy` is bounded by `ATTEMPTS`. `RunLost`, plugging, and the
  close itself are not fair.
* `SessionLifecycle`: handlers, ingest tasks and, once signalled, the worker. No
  fairness for requests, output (`Produce`) or the remote end (`PtyEof`).
* `ApprovalGate`: the loop dispatches what the model asked for; an aborted loop
  leaves at the head of its next round; calls to the daemon end by their 30 s
  timeout. No fairness for the operator, the model or the daemon.
* `StagePush`: the steps of a push, among them `Timeout`, because `run_timed`
  polls with a deadline. Neither the tool nor who holds its pipes is fair: that
  is the exception `PushesEnd` states.
* `PacketCapture`: handlers and worker threads are scheduled; every wait of theirs
  for a child or for the device has a timeout in the code. Recorders, devices and
  clients are not fair.
* `PaneSessions`: the loop of the connection, the close event of a dead socket and
  the failure of a connect. Timers, clicks, output and restarts are not fair, so
  `AwaitsEnd` does not lean on the 28 and 30 s timeouts.
* `SessionStream`: the runtime polls a socket's loop that can go on, and a client
  reads what it is sent. Nothing makes a terminal print, read or end.

## 4. Disagreements between the code and what is said of it

A run in which TLC finds a behaviour of the code that a comment of the repository
excludes.

| Run | Said | Behaviour |
|---|---|---|
| `engines_stay_live` | `inference.rs:2`: "Docker compose runs on a background thread so serial/SSH stay live." | a start while another is starting returns through `status_with` inside the block that holds the mutex of the job (`inference.rs:633`); `status_with` takes it again, and the mutex is not reentrant. The thread of that connection never comes back, nor does any later call about vLLM. `weights.rs:501`, `557`, `604` and `710` return the same way |

### Seen while modelling

Behaviours that the models contain, or that their properties state exceptions for,
and about which the repository claims nothing or which have no run of their own.

* Serial: opened through `/dev/serial/by-id/..`, unplugged and plugged in as
  another node, the worker reopens a node that was never reserved (`serial.rs:236`
  against the comment at `:9`). `HeldCoversOpen` fails as soon as `Links` is not
  empty, which is why `DevicesExclusive` assumes `Links = {}`.
* Sessions: a lagged receiver ends the loop and a running session is announced as
  dropped (`session.rs:2085`, the comment at `:2096` says EOF). A close between
  `attach` and the store of the join handle, or while another is joining, returns
  with the port still held (`session.rs:864`, `README.md:165`).
* Host keys: two opens at the same time; the second writes back a clone made
  before the first pinned its host (`session.rs:770`). Of a changed host with
  several keys the first scanned key is pinned and the preferred one is written
  for `ssh` (`ssh.rs:441`).
* Approvals: the permit list is checked before the prompt and not again after
  Approve (`tools.ts:660`, `types.ts:84`).
* Transport: the final flush finds no session, so a close loses the tail of the
  log; a data event may follow `session.closed`; a full input queue drops keys of
  `try_send` without a word; a log restarted within the same second goes on in the
  same file; ordinals of the redactor are not stable when reads overlap
  (`redact.rs:9` calls them stable per session).
* Policy: overlays are written in place (`policy.rs:386`, `466`, `505`), not by
  `write_private`.
* Captures: a recorder that ends within 50 ms is discarded before its file is
  looked at (`pcap.rs:204`); the check for a running ssh capture and the insertion
  are two critical sections; stop leaves the table before the export, so a new
  start overwrites the file on the device; a refused command leaves an older file
  to be fetched; the export of NX-OS records a fresh capture of 50 packets; Stop
  of an unknown id stops the only other one; a damaged record ends the list
  without being told; later fragments of IPv6 are dissected as TCP; nothing stops
  captures when the daemon ends.
* Captures, findings: a pure acknowledgement is shorter than a frame and is padded
  by the driver; `payload_len` counts the padding (`pcap.rs:803`), so its
  repetition is reported as a retransmission, which the name of the test at
  `pcap.rs:1377` excludes.
* Panes: Disconnect calls `session.close` (`store.ts:1066`), which takes the session and
  its reconnect spec out of the map (`session.rs:468`); `session.reconnect` looks it up
  and answers not found (`session.rs:695`), so the banner's "press Enter to reconnect"
  (`TerminalPane.tsx:379`) and the Reconnect button cannot work on that pane, while
  `README.md:167` says that Disconnect and reconnect should. A pane whose reconnect
  could not open ends the same way. A connect that was replaced, cancelled or timed out (28 s) leaves the
  session that the daemon opens for it, with no pane and nobody to close it: the
  branch that would (`store.ts:790`) is never reached, because an abort takes the
  call out of `pending` first. A pane that is closed, or taken by another connect,
  during its reconnect leaves a session unseen (`store.ts:966`). A tab that printed
  while hidden finds its prebuffer on return and does not ask for scrollback, so
  its history is gone from the screen (`TerminalPane.tsx:265` says there is no
  prebuffer then). Output queued while scrollback is fetched may be painted twice.
  After a restart of the daemon panes stay marked connected (`store.ts:1711`).
* Engines: overlapping starts leave a server nobody has recorded; a stop between
  `Claim` and `Keep` is undone; a failed `compose down` is not seen;
  `snapshot_complete` is content with one shard; a crash between the rename and
  the check of the magic bytes leaves a bad file; `starting` is never cleared when
  the thread cannot be spawned. A file of the hub's cache that is listed as ready
  (`weights.rs:1419`) cannot be started once Late's own folder holds several files of
  its repository, for a start then looks nowhere else (`weights.rs:1481`); and a start
  that names no file may take one that the user put in the folder and the repository
  does not list over the one just downloaded. Both came up in the proof of
  `DownloadsAlwaysWhole` and are exceptions that the property names.

## 5. What is proved

All proofs are checked to the last leaf; no statement is assumed but the named
assumptions on the constants, which TLC evaluates in the runs. Most fix types,
distinct null values, non-empty ranges or the order of the coalescing thresholds.
Those that say more:

* `NumbersAssumption` (`CommandPolicy`): no phrase of a builtin list begins with a
  number, so that `strip_acl_sequence`, which drops a leading number of a stage,
  takes no word of a listed phrase.
* `PushAssumption`, `ScaffoldAssumption` (`StagePush`): a filled draft is a draft,
  filling adds no credential, and no denied text occurs in the seven words Late
  writes itself around a VLAN.
* `FilesAssumption`, `FilesToImport` (`FileStores`): the files at the first start are
  whole; the paths a client may name are of names, and a file of another program is a
  list of lines of its kind, each with what its reader takes from it.
* `LinksAssumption` (`Confine`): what a link stands for has no link on it, as the system
  resolves it; `ImportAssumption` (`ImportFiles`): the host of a block that gave none is
  told from every text.
* `CardsAssumption`, `FilesAssumption` (`EngineJobs`): there are machines, the number of
  their cards and the memory of each are naturals; what lies in Late's folder and the
  hub's cache at the first start are whole GGUF files, finitely many; a repository
  lists names of files.

| Module, theorem | Says | Rests on |
|---|---|---|
| `DeviceProofs`, of `SerialPort`: `TypeCorrect`, `NoLeakedReservation` | types; every reservation has exactly one holder | `Inv`: a handle is open only in the phases between open and drop (`FdInv`) |
| `DevicesExclusive` | without links no device is open outside the held set, nor twice | `NodeInv`: the path that is opened is the one reserved |
| `SerialPortImplementsLease` | every step is a step of the lease or a stutter | `ownerBar` is a `CHOOSE` of the holder; `OwnerIsHolder` shows it is determined because holders are unique |
| `SessionLifecycleProofs`: `EventsAlwaysAgree` | `closed` once, exactly when unmapped; `dropped` at most once | the task says `dropped` last (`ToldInv`); two closers cannot both unmap |
| `PortsAlwaysKept` | a leased port can still be stopped by somebody; after a join it is free | `SessionsInv`: an id is fresh, being opened by exactly one caller, mapped, or on its way out with a close signalled or about to be; `LeaseInv` ties the lease to the worker; `JoinInv`: who holds the handle goes on only when the worker ended |
| `OutputAlwaysOrdered` | output is shown in order and never twice | `OutInv`: what was shown and what is pending lies behind `pos`; a step leaves their concatenation alone or appends a later chunk (`OutMoves`), so the drain may skip chunks but never go back |
| `ConsentProofs`, of `HostTrust`: `KeysAlwaysPermitted`, `PlainOpenKeepsPin` | nothing but allowed keys is pinned or expected | `CopiesInv`: every clone, not only memory and file, holds allowed keys only; `LinesInv`: a key is allowed before it becomes the line, and the line is only ever replaced by another such key, which is why sharing it is harmless |
| `ConsentProofs`, of `ApprovalGate`: `DualGate`, `CancelsHold`, `PromptsAlwaysAgree` | the gates hold for any number of turns, calls and commands | `CallInv`: what is known of a call at each await; `AlwaysInv`: every always-allow stems from a click of the same conversation on the same command |
| `StagePushProofs`: `EngineAlwaysIsFile` | when no call runs and every file parses, memory is what the files say, for any vendors, lists, editors and restarts | `EngineInv`: while the daemon runs, memory is what the files say, or a file is torn, or some call that began to write has its reload ahead of it |
| `ListDecidesAlways` | what is denied stays denied in every wrapping until a saved list lifts it; what is listed is let through | `PolicyInv`: the policies in memory, in the files and in every edit under way are what the builtin policy becomes by lists that were asked for, and lift nothing else (`KeptFor`, `Lifting`). `Peel`, `Check` and the absorption of a list are proved about in lemmas on `CommandPolicy` |
| `TypedIsAlwaysPermitted` | a denied line types nothing, lines are typed in order, once, and pass | `PushInv`: the lines in `checked` and those typed pass the policy with all that was ever asked for lifted (`PermittedInv`), and go on passing, for later edits only lift more; all that is typed lies before all that is still to be typed (`TypedInv`) |
| `ListedIsAlwaysReadable` | a listed draft has its body | `FilesInv`: between the two writes of a save the body is there, or a delete met the save |
| `RunsAlwaysAsPlanned` | no tool runs on a credential, or without the password it needs | `ToolInv`: what a child holds goes with the step of its call; bodies on disk are stripped (`CleanBodies`) |
| `SessionStreamProofs`: `OutputIsKept` | buffers stay below their caps; a socket is shown output in order, once, and without a gap unless it lagged | `ScrollInv`, `EventsInv`: scrollback ends with the last chunk, every chunk is pending or in exactly one event, in order; `HeardInv`: what a socket was sent are the events up to its place in the ring |
| `KeysAreInOrder` | keys of a socket reach the terminal in order, at most once | `KeysInv`: over the wire, the handler that waits, the queue and what is typed, a key lies before every later one of its socket |
| `LogIsComplete` | a log has all output since its oldest line and repeats only what was on its way when it was started | `LogInv`: what is on its way to the log is not in it already, unless the start of the log wrote it from scrollback (`held`) |
| `NumbersAreStable` | equal secrets have equal numbers over all redacted answers, unless reads overlapped or history was dropped | `ReadsInv`: at most one read is under way, and its clone extends what the answers said so far |
| `FileStoresProofs`: `StoreInvariant` | `StoreInv`: the shape of every handler and file, for any devices, profiles, callers and faults | `BesideIs`: what lies in a temporary file is the change its handler makes to the copy it holds; every change of a good copy is a good one that keeps its other entries (`Fits`), for the operators of `InventoryTree`, for `Normalized` by the rank of a part among those kept (`PlacesAre`, `KeptIs`) |
| `InventoryAlwaysKept` | the inventory is a closed tree, a rename keeps devices apart, only an older copy undoes a save | `FilesInv`, `AckedInv` with `Fits`; `MoveAll` is injective on folders once `Taken` and `IsUnder` refused the rest |
| `LoginsAlwaysWhole` | a flagged profile has its password, a device's profile exists, the vault holds what was asked for | `VaultHas` and `AuthHas` stay true once they are (`Grows`), since their exceptions do: a handler may lean on a file it read or wrote some steps ago, whatever other handlers write between |
| `SettingsAlwaysKept` | a rename publishes its writer's file; memory and file agree unless calls crossed | `SettingsInv`: one call at a time is between file and memory, and it carries what the file holds |
| `ImportsAlwaysHold` | an import reads, and a login takes for its key, what lies under the home or Late's directories with no link on the way, a key never one of Late's; an import adds what its file says | `CanonicalIsReal`: a path that was resolved resolves to itself, for no prefix of it is a link (`ConfinedIs`, `IdentityIs` follow the two checks of the path). `SshSays`, `XmlSays`: after n lines the reader holds what those lines say, and a block is complete when the next one closes it. The readers are functions over 0..n, which well-founded induction gives values (`RunExists`, `RunTyped`), and a claim about every n is the statement that a set of numbers is all of them (`UpFromZero`), so no operator parameter is needed |
| `DeviceProofs`, of `PacketCapture`: `RecordersAlwaysHeld` | whatever records is of a capture that has not ended, and a failed start leaves no file | `Fits(c)`: which states of the child, the worker, the table and the file go with each step of the handler; `StopsRun`: a stop holds a capture that was live |
| `CapturesAlwaysApart` | two ssh captures are live at once only when they overlapped, and a capture that met nobody and was not refused opens its own packets | `MetInv`: captures that are under way together have met; `OwnInv`: of a capture that met nobody, the file on the device is its own from its command to its export |
| `FindingsAlwaysTrue`, of `PcapDecode` | what the analyzer says of a file is so, for any frames and caps: cuts are told, findings are of stored packets that show what they say, filters lose none | `ReadInv`, a statement about the frames read so far: a packet is the summary of its frame (`PacketsInv`), the flows and claims remembered are those of earlier segments and ARP frames (`SeenInv`, `ArpInv`), hits are in order and of frames that were looked at (`HitsInv`), a frame is a retransmission hit exactly when it repeats (`RepeatsInv`). The capped lists are handled by `SiftedIs` and `TakeIs`; that nothing is missing while there is room counts the hits by an injection |
| `EngineJobsProofs`: `ServersAlwaysOwned` | what Late runs is what it keeps track of, for any connections, pids, repositories and cards | `AloneInv`: a start that met no other call finds nothing of Late's running, and alone holds what it starts; `RecordInv`: what the pid file and the record mean is Late's own process or one that is gone; `HolderInv`: one call holds the mutex; `DownInv`: after a stop that met nobody no thread starts the container and one stops it |
| `LaunchesAlwaysSound` | only a model that was looked at is served, on all cards only where the plan says so | `LaunchInv`: every call past its check, and every compose thread, carries such a model; `PlanIsServed`: what `VramPlan` answers is what the command line says |
| `DownloadsAlwaysWhole` | what is on disk under its own name is a whole GGUF file, what a download reports done is listed, and what is listed can be started, with the exceptions the property names | `DiskInv`: a file without the magic lies between the rename and the look of its own download only, and a download under way keeps `job.downloading`; `FetchInv`: what is fetched is what a client asked for, into the place of the file that was picked. `StartFinds`, `ListedStarts` and `OrderPicks` are lemmas on the operators of `GgufFiles` |
| `PaneSessionsProofs`: `PanesAlwaysTrue` | panes show what lives or is about to be marked, no session is in two panes, nothing runs unseen but what the page gave up, for any sessions, clicks, chunks and restarts | `PanesIInv`: a tab that is still to be made has its pane (`RoomInv`); ids of calls are unique wherever a call or its answer is (`IdsInv`); a session stays in the pane it was clicked in (`HomeInv`); a session whose answer is on its way is nowhere on the page yet (`BornInv`); what is announced as ended has ended, and a dead socket leaves nothing behind it (`DaemonInv`); an awaited close or reconnect is still on its way to the daemon or its session is gone, and one that is not awaited any more left the pane marked (`CallsInv`) |
| `ScreensAlwaysTrue` | output on screen has no gap, repeats at most once, and begins at the beginning but where the property says | `RingInv`: of a session the ring holds the chunks after the last one sent, in order; `PreInv`: the prebuffer is a run that ends with the last chunk sent; `TermInv`: while a terminal waits for its scrollback (`Waits`) its answer holds every chunk sent before it, and what it queued is a run that ends with the last one; a terminal that paints (`Paints`) shows up to that one and went back once at most |

None of the properties is inductive as it stands: `JoinFreesPort`, say, needs to
know that a worker which ended holds no lease, and that needs to know which phase
leases what.

**Only model-checked:**

* everything under fairness (`CallsEnd`, `NothingStaysBehind`, `ClosesEnd`, `AwaitsEnd`,
  `AbortEndsTurn`, `PushesEnd`, `CapturesEnd`, `EndReachesSockets`), since liveness is
  beyond the proof system's reach;
* the counterexample of section 4.

Every other property of the runs is the statement of a theorem of the table.

## 6. What is abstracted, and what is not modelled

Abstracted throughout: bytes, colours, prompts, notices, log lines and wire
formats (chunks, keys and secrets are numbered, commands are words, paths and
names are sequences of their parts); time (timeouts and tickers may fire whenever
they are enabled, the scan cache expires at any time). Session ids are v4 UUIDs and
never come twice.

Left out of modelled components:

* The desktop: split panes, two sockets that overlap (`rpc.ts:272`), typed input, and
  calls that only read or save. `PaneSessions` has at most one socket, and a tab has
  one pane.
* `session.rs`: resize and serial break, which change no state of the daemon; the
  reader and writer threads of a pty are the ends of the two channels.
* `ssh.rs`: the TCP preflight, askpass scripts and the command line of `ssh`, which
  is external: it reads the line once, when it connects.
* The sidecar: `ask_user`, directory grants, staged artifacts, prompts. The gate
  takes the verdicts of `policy.rs` as sets of commands (`Linux`, `Mutating`,
  `ClickOnly`) and the permit list, which is edited.
* `policy.rs`: the inference of a vendor from a banner is one value
  (`BannerVendor`) in `StagePush`; texts of verdicts are left out.
* `stage.rs`: the layout of rendered playbooks and scripts.
* `pcap.rs`: field offsets and names of protocols; what is decoded is a record.
* `weights.rs`, `hardware.rs`: running `nvidia-smi`, reading `/sys`, logs of engines.
* `main.rs`: token and origin, stateless comparisons. `rpc.rs` dispatches to the
  operations, each modelled in its own module.
* `redact.rs`: the patterns, regular expressions over text. `audit.rs` appends.

Not modelled:

* `late-infer`: tensors, tokenizers and templates behind one lock around
  `generate()`; `EngineJobs` sees it from outside.
* The sidecar's MCP client has state that interleaves (its hazard is listed in
  `PROJECT.json`) and is the next candidate: `ensureSession` by two callers, the
  request queue.
* Chat targets and provider keys of the sidecar, the desktop's stream parser and
  views: conversions and rendering.
* Self update, build checks, scripts, packaging and the vendored tensor library:
  no state of the running system that interleaves.
* `errors and types`: data types.

## 7. Plan

Written: the serial port and its lease, sessions, trust, approvals; permit lists
and push; file stores with inventory, import and confinement; engines; captures;
transport; panes. Next, in this order:

| Module | Models | Properties |
|---|---|---|
| `McpSession` | `mcp-client.ts`, `mcp-rpc-queue.ts` | one `initialize`, one session per server |
| `DaemonRpc` | the opening of the socket in `rpc.ts`, with overlapping sockets | pending calls are settled by their own socket |
