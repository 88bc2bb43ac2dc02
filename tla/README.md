# Verification of StarHub

StarHub is a desktop shell around an AI agent: a Node process loads a set of
plugins, and beside it runs **starhub-sidecar**, a Rust process that owns every
long-lived thing — SSH sessions, Android devices and their live picture, SFTP
transfers, the stores — and that starts a second child process, written in Go,
for databases and Docker. The plugins talk to the Rust process by JSON-RPC over
stdin and stdout, panels talk to it by WebSocket.

This directory holds TLA+ models of the Rust process, the configurations that
check them with TLC, and TLAPS proofs. `PROJECT.json` lists the components,
runs, findings, hazards and theorems, and maps every definition to the lines it
translates. Paths below are relative to `src/sidecar-rust/crates/` unless they
start with `src/`; of `starhub-domain-ssh/src/` often only the file is given.

To check one module: `tlc -workers 2 -config MCLiveServer.cfg MCLiveServer`. To
check the proofs of one: `tlapm HubProofs.tla`.

## 1. The system

### 1.1 Components

| component | state it keeps | operations | talks to |
|---|---|---|---|
| frame hub (`starhub-live/src/hub.rs`) | table of channels by id, table of one-time tokens; per Channel object: subscriber counter, closed flag, takeover flag, metadata, frame ring, input queue | open, close, issue_token, redeem, subscribe, unsubscribe, push_frame, push_input, set_takeover | called by all live parts |
| WebSocket server (`starhub-live/src/ws.rs`) | one task per connection | accept, redeem, greet, forward frames, take input and takeover messages, depart | hub; the panels |
| `ui.live_*` (`starhub-sidecar/src/methods/ui_live.rs`, `live_runtime.rs`) | none | live_open, live_token, live_close | hub, Android source |
| Android source (`starhub-live/src/android.rs`) | per source: a ScrcpySession (port, child, recycled, ready, error); an adb forward and a scrcpy-server on the machine | start, screenshot pump, scrcpy run, shutdown | hub by channel *id*; adb |
| frames (`starhub-live/src/frames.rs`) | ring of encoded frames with a byte cap | push, replay | hub |
| Android tools (`starhub-domain-android/src/exec.rs`, `adb.rs`, `manager.rs`, `keys.rs`) | device table | the assistant's tool calls | hub's takeover flag; adb |
| SSH manager (`manager.rs`) | five tables, each with a mutex: generations, sessions, write channels, abort handles, three kinds of pending prompts | connect_session, drop_session, ssh_exec_core, ssh_exec_abort_core, … | sessions; UI methods; tools |
| SSH session (`session.rs`, `auth.rs`) | connection handle and alive flag, a kept bastion shell; a mutex round the whole | login with prompts, open_shell and its reader task, exec, exec_via_bastion_pty, heartbeat, disconnect | russh; SSH manager's tables |
| SFTP start (`session.rs`, `sftp_transport.rs`) | the session that browsing keeps; per attempt: channel, evidence of a failing server | open_sftp, attempt over subsystem or executable, probe, drain | the SSH session's server |
| forwards and web gateway's listener (`session.rs`, `auth.rs`) | list of forwards with the handles of their tasks, map of remote ports, one gateway | add, remove, list, start and stop of the gateway, disconnect; accept loops, tasks of connections, pumps | the SSH connection |
| web gateway (`web_gateway.rs`) | the last upstream | serve a request: recover the prefix, fetch, rewrite links, redirects and bodies | browsers; forwarded channels |
| SSH tools (`tools.rs`) and UI methods (`starhub-sidecar/src/methods/ui_ssh.rs`) | none | ensure_ssh_session, exec_with_reconnect; ssh_connect, ssh_disconnect, ssh_get_sessions, ssh_kb_response, ssh_bastion_response | SSH manager |
| SFTP transfers (`sftp/transfer.rs`, `ops.rs`) | table of tasks and its order, table of controls (cancel and pause tokens), worker tasks | create, pause, resume, retry, cancel, clear, prune | SSH sessions |
| client of the Go process (`starhub-domain-db/src/go_sidecar.rs`) | start lock, sender slot, child slot, pending table; per process a queue, a writer and a reader | call, start, validate, write loop, read loop, stop | the Go process |
| database and docker tools (`starhub-domain-db/src/executors.rs`, `starhub-sidecar/src/methods/ui_db.rs`) | none | db_query, redis_exec, es_*, docker_*: connect, work, disconnect | the client; the pool of the Go process |
| stores with one document (`audit_store.rs`, `alert_store.rs`, `known_hosts_store.rs`, `settings_store.rs`) | a JSON file; all but the settings a cache | list, record, add, remove, save | methods, `auth.rs` |
| assets (`assets.rs`) | a file of records, written aside and renamed; a file of secrets | create, update, delete | methods, tools |
| stdio server (`main.rs`, `jsonrpc.rs`, `registry.rs`, `runtime.rs`, `bridge.rs`) | bindings of sessions to assets, pending prompts, recent executions | read, dispatch on a thread, prompt the peer, audit, notify, answer, end of input | everything above |
| session registry (`session_registry.rs`, `bindings.rs`) | attachments by asset | attach, detach (without a caller) | host events |
| Go process (`src/sidecar/`) | goroutine per request, pool of connections | register, get, remove, close; queries | drivers |
| plugins (`src/vendor/deepseek-harness/packages/starhub/`) | approval policy, assistant's turns, workbench state | tool registration, approval, forwarding | the harness; the Rust process |

### 1.2 How they interact

* **Threads.** `main.rs` starts a thread for every request. Two requests that
  arrived in one order may take effect in the other; nothing in the models
  relies on arrival order.
* **Objects and names.** A Channel object and an SshSession object live as long
  as somebody refers to them; the tables know them by name. Most hard cases
  come from an operation that started with an object and ends with a name (the
  last viewer closes *by id*, a disconnect removes *by id*, the pump looks its
  channel up *by id*, a worker's control is removed *by transfer*), when the
  name has changed hands meanwhile.
* **Critical sections.** A table's mutex is normally held for one lookup or one
  assignment. Where the code keeps it longer, across an await, the models have
  it as state (`tableHeld`, `channelsHeld`, `lock`, `startLock`).
* **Files.** The stores load, change and write in three steps; no lock spans
  them, so that what one thread writes may be older than what is on disk.
* **External programs.** adb, scrcpy-server, SSH servers, the Go process and
  networks may fail at any call, be slow, or go away.

### 1.3 What is hard, and what correctness means

* *Live view.* Viewers come and go while a channel is closed and opened again
  under the same id. A channel must be closed when its last viewer leaves, and
  not before; a token admits one connection, to the channel object it was issued
  for and not to the next one of that id; what a
  source starts on the machine must be found by the shutdown; a lagging viewer
  must not be resumed past a hole; an accepted gesture is performed once; the
  assistant keeps its hands off a device the user took over.
* *SSH.* Connects, disconnects, reconnects, prompts and commands of one session
  id overlap. The newest attempt must win, an overtaken one must leave nothing
  behind, no prompt may be answered to the wrong attempt, a command must not be
  started twice nor be tried again on the session that failed it, and the
  manager's nested locks must not close a circle.
* *Around an SSH session.* A login must be one at every hop; the start of SFTP
  must not use up the server's channels nor start an executable unasked;
  forwards must end when they are removed, whoever is just connecting; links
  through the gateway must lead where they would without it.
* *Go client.* The restart of a process races with the end of its predecessor;
  a call must be carried out once at most, and no caller may wait for nothing.
* *Transfers.* Calls race with a worker's end and its successor; what is
  reported complete must be.
* *Stores.* Overlapping calls, failing writes and restarts between two files.
* *Stdio server.* A tool call acts on its session's binding while others change
  it; a call that asks the peer back must not stop the answers.

Each such case is a hazard in `PROJECT.json`, at its line, with the properties
that would notice it going wrong or a note that says why none does.

## 2. Modules

| module | models | extends |
|---|---|---|
| `FrameHub` | state and critical sections of `hub.rs` | — |
| `LiveServer` | `ws.rs` and `ui.live_*` over the hub | `FrameHub` |
| `LiveSource` | source tasks of `android.rs` over the hub | `FrameHub` |
| `LiveTakeover` | input queue, takeover flag, tool calls | `FrameHub` |
| `LiveFrames` | ring, broadcast, viewer's canvas | — |
| `SshTables` | the tables of `SshManager` | — |
| `SshConnect` | connect, prompts, shells, disconnect | `SshTables` |
| `SshExec` | commands, bastion ptys, drop and retry, abort, listing | `SshConnect` |
| `SshAuth` | login at jump host and target with one or two factors | — |
| `SftpStart` | attempts, probe and fallback of an SFTP session | — |
| `Forwards` | port forwards, the gateway's listener, their tasks | — |
| `WebGateway` | a tab's requests through the gateway beside a direct tab | — |
| `Transfer` | task table, controls, workers, offsets of SFTP transfers | — |
| `CallService` | abstract: what the client of the Go process promises | — |
| `GoClient` | the client, its tasks, the process and its restarts | instantiates `CallService` |
| `DbTools` | tool calls as sequences of calls, the pool of connections | `GoClient` |
| `JsonStore` | audit log, alert rules, known hosts, settings | — |
| `AssetStore` | records and secrets of assets | — |
| `Sidecar` | stdio server, dispatch, bindings, traces of tool calls | — |

Theorems are in `HubProofs`, `SourceProofs`, `SshConnectProofs`,
`ExecProofs` (which extends `SshConnectProofs`), `SessionProofs` (login, SFTP
start, forwards and web gateway), `GoClientProofs` (client and database tools),
`TransferProofs` and `SidecarProofs` (stdio server, one-document stores and
assets). `HubProofs` is about `LiveServer` and `LiveTakeover`, `SourceProofs` about
`LiveSource` and `LiveFrames`. Modules that are extended together keep their names
apart: the takeover has `TakeoverInit`, `LoopStep` and `OpenDevice` where the source
has `Init`, `PumpStep` and `Open`, the frames have `FramesNext` and `GoLive`.

`FrameHub` and `SshTables` have no next-state relation: their operators are the
critical sections of the code, one each, which the modules above compose with
the threads that run them. An action of a composed module is what one thread
does between two locks or awaits. `MC*` modules add symmetry sets and values of
constants. Four of them, `MCLiveSource`, `MCLivePumps`, `MCStores` and `MCSession`,
put modules that share no state side by side, or two views of one device, and take
one of them (a *part*) per behaviour, so that the run explores the sum of their
states and not the product. What is fair is assumed of the part that was taken.
Operators marked *Mutant* in a comment are deliberate errors that `PROJECT.json`
substitutes for the faithful action, to see the property fail.

### 2.1 Live view: state and code

| TLA+ | Rust |
|---|---|
| `channels`, `tokens` | the two maps in `FrameHub` |
| a handle in `Handles`, with `chanId`, `subscribers`, `closed` | an `Arc<Channel>` and its fields; the counter counts modulo `UsizeMod` like the `AtomicUsize` |
| `rpc[p]` | a thread inside `live_open`, `live_token` or `live_close`, at the gap between two locks |
| `conn[k]` | a `serve_connection` task and the channel it holds |
| `issuedFor[t]`, `loose` | history: the object a token was issued for; the tokens whose channel was closed in a gap between two locks |
| `pump[h]`, `scrcpy[h]`, `session[h]` | `live_pump`, `scrcpy_run`, `ScrcpySession` of the source started for that object; in `LiveTakeover` the pump is `loop[h]` |
| `forward[h]`, `process[h]` | what exists on the machine, known to nobody but adb and the system |
| `queue[h]`, `takeover[h]` | the input mpsc and the takeover flag of the object |
| `ring`, `bytes`, `cast`, `viewer[v].pos` | `PacketRing`, the tokio broadcast, the receiver's position |

`FrameHub::close` is two steps because it takes its two mutexes one after the
other; so are `issue_token` and `redeem`. `CloseChannel` is separate from
`Leave` because `unsubscribe` releases everything before `close` begins. The
scrcpy-server is started (`ScrcpySpawn`) before the session records it
(`ScrcpyRecord`): a shutdown in between finds no child.

In `LiveSource` tokens and viewers are left out, in `LiveServer` sources, in
`LiveTakeover` both: each keeps the hub's table, through which they interact.
A frame is its number and its kind. adb calls may succeed or fail at will and
end, by their timeouts. What the panel can show is read off
`StarHubLivePanel.tsx` (a description is needed before a delta or key frame).

### 2.2 SSH: state and code

| TLA+ | Rust |
|---|---|
| `attempts`, `sessions`, `channels`, `pending` | the maps of `SshManager`; `pending` is its three prompt maps, indexed by kind |
| `link[c]` | the handle and alive flag of the `SshSession` made by call `c`: never connected, up, lost unnoticed, dead |
| `lock[c]` | the tokio mutex round that session, when a command holds it |
| `tableHeld`, `channelsHeld` | `sessions` locked by `drop_session`, `channels` locked by `ssh_get_sessions`, across an await |
| `conn[c]` | `connect_session` call `c`, its generation and where it is |
| `shell[c]` | the reader task `open_shell` starts |
| `disc[d]` | a `ui.ssh_disconnect` call, its guard and its target |
| `call[t]` | `ensure_ssh_session`, `exec_with_reconnect` and `ssh_exec_core` of one tool call; `failed` is the session its first try failed on |
| `aborts` | the keys of `exec_aborts` |
| `kept[c]` | whether session `c` keeps a bastion shell for the next command |
| `listing[l]` | `ui.ssh_get_sessions` |

`call[t].starts` and `disc[d].before` are history: no action's guard reads them.
That `failed` names a session is the code's "this is the second try"; which one it
names is history.

`connect_session` awaits the whole login under one time limit of 370 seconds
(`session.rs:293`, `:342`). When it fires while a keyboard-interactive prompt is asked,
the future is dropped and with it the receiver, not the sender in `pending_kb`
(`CutOff`, place `"cut"`); somebody may still answer it, or another connect or a
disconnect of that id take it out. A host key's prompt is withdrawn
(`CutWithdrawn`). `Tunnelled` are the connects to a target behind a jump host, which
that limit does not cover.

Where the model is coarser than the code:

* The generation is looked at right after the network is done in
  `ConnectSucceeds`; a session that is not current then was never seen by
  anybody else.
* `Store` takes the generation's mutex and waits for the session table's with
  it; only the wait is not modelled. It holds no other lock, so the wait cannot
  close a circle, but it makes other takers of the generation wait longer.
* Other users of a session's lock (`ui.ssh_exec`, SFTP, port forwards) are left
  out, like the session registry's and SFTP's part of a disconnect. They lock a
  session with no table locked.
* A command's output is one of: came to an end, failed, cut by timeout, abort or
  end of channel; and whether its text happens to contain the words by which
  `is_connection_level_failure` recognises a connection failure.
* The kept shell of a dead session is not used: `Start` needs the link up.
* A jump host's own session and the choice of authentication method are inside
  `ConnectSucceeds` and `ConnectFails`; `SshAuth` takes them apart.
* `Forwards` maps a remote port under the number that was asked for; the code uses
  the one that `tcpip_forward` returns, as a `u16` (`session.rs:1956-1965`). That the
  two are the same is assumed: the library is not in the repository.

### 2.3 Around an SSH session: state and code

| TLA+ | Rust |
|---|---|
| `hop`, `at`, `left[h]`, `remaining`, `mfaUsed` | where `connect_and_auth` is, what the server at `h` still waits for, what its last answer named (`SshAuth`) |
| `auth[h]`, `right[h]` | the credentials presented at `h` (`auth` and the jump host's `jump_auth`), and those that are right there |
| `needs[h]`, `mute` | the server's policy, servers that name no method: chosen once, never changed |
| `phase`, `request`, `evidence`, `cached` | `open_sftp_with_info` and `start_sftp_attempt`: how far, what was asked for, `has_remote_failure`, `browse_sftp` (`SftpStart`) |
| `table`, `gateway`, `maps` | `port_forwards`, `web_gateway`, `remote_forwards` (`Forwards`) |
| `loop[i]`, `conn[c]`, `pumps`, `recorded[i]`, `cut` | accept loops, connection tasks, the two copy tasks of each, the handles `abort_all` finds, aborted tasks |
| `listens`, `op` | the server's listening ports, the remote operation that awaits it |
| `stage`, `ask`, `ref`, `addr`, `last`, `relay` | one request: where it is, its address and Referer, the page behind the tab, `last_upstream`, how a body was passed on (`WebGateway`) |
| `base` | what the page's links are resolved against, through the gateway and directly: the root of the site that `inject_base` puts in, or the page's own base |
| `want`, `how` | history: where the same tab would be without the gateway, and what the way here went by |

An address is the sequence of its segments, so that joining, rewriting and
stripping a prefix are operators on sequences. The segments are members of
`Words`; of the paths that sites use, `GatewayAssumption` says that no segment but
the last is empty, `PrefixAssumption` that none begins with the gateway's prefix
once its dots are gone. `Walked` is the
walk over segments that a browser makes of every address before it requests it
(`Dots`, RFC 3986) and `resolve_relative_path` of a relative Location; they differ
in what they drop. The browser's walk takes in the gateway's prefix, which it
cannot tell from the path: a link that goes up from the root of its site
(`Climbs`) climbs out of the prefix, and such links are lost (`Named`). A page that
has its own `<base>` keeps it, rewritten as a link (`BaseOf`). A redirect that
carries a page is the last upstream (`AnswerRedirect`), like any other page. The
frontend with the address bar is not in the repository; typed addresses are taken
without dot segments.
Operations of a session are one at a time (they borrow it mutably); the tasks they
spawned are not. A task ends at its next await after its abort, so abort and end
are two steps.

### 2.4 Transfers: state and code

| TLA+ | Rust |
|---|---|
| `task[i]`, `order` | `TransferTask` and `task_order`: status, offset, current file |
| `controls[i]`, `flags` | the entry of the control table, by the number of the run it belongs to, and the tokens that were cancelled |
| `worker[i]` | the workers spawned for `i`, oldest first, each with its file, offset and target |
| `written[i][f]` | blocks of a file the target has, without a gap from the start |
| `late` | blocks of downloads that tokio's file has taken but a background thread has not written, or could not |
| `call[u]` | a create, pause, resume, retry, cancel or clear between two of its locks |

A file is a number of blocks. A block of an upload is read and written in one step;
one of a download is handed to tokio's file, which answers before it is written
(`ops.rs:384-391`), so that its offset may be recorded while it still `Lands` or
`IsLost`; the worker's next call on that file waits for it and reports its error.
Progress is recorded or not (`try_lock` fails at will). `Prune` is the loop of
`prune_terminal_tasks`, with the bound that shrinks while it runs.

### 2.5 Client of the Go process: state and code

| TLA+ | Rust and Go |
|---|---|
| `slot`, `child`, `startLock`, `pending` | the fields of `GoSidecar` |
| `pc[r]`, `target[r]`, `result[r]` | `call_with_timeout` of request `r` and its one-shot channel; the validation of process `p` is a request named after it |
| `wire` | every message on its way: queued, in the pipe, taken up, answered |
| `proc[p]`, `writer[p]`, `reader[p]` | the child process and the two tasks of it |
| `runs[c]` | history: how often a goroutine of the Go process took up `c` |
| `tool[t]`, `open[p]` | a tool call's place between its three calls; the pool of `src/sidecar/pool/manager.go` in process `p` |

`CallService` is the abstract specification: a call is idle, asked, ended well
or badly; it may be carried out once while it is asked or after it failed, and
ends well only after that. `GoClient!Promise` instantiates it with
`phase <- Phase`, read off `pc`; `AtMostOnce` says that the client implements it.

### 2.6 Stores and stdio server: state and code

| TLA+ | Rust |
|---|---|
| `store` | which of the four stores `JsonStore` is in this behaviour |
| `file`, `broken`, `cache`, `loaded` | the document on disk, whether it parses, the one in memory |
| `at[o]`, `doc[o]` | a call between load, change and the two halves of a write in place |
| `main`, `aside`, `body[f]`, `held[c]` | the file behind each of the two names of an asset document, contents by file, the file a writer has open (`AssetStore`) |
| `keys`, `torn` | the file of secrets; files that hold no document |
| `Others` | calls that write other keys into the file of secrets (`set_secret`, `delete_secret`) |
| `stdin`, `written`, `open`, `up` | the pipe and its ends (`Sidecar`) |
| `pc[f]`, `outcome[t]`, `acted[t]` | the thread of a frame |
| `bound`, `audit`, `told`, `recent` | `bindings`, audit rows, domain events, `recent_execs` |
| `before[f]` | history: the bindings answered before `f` was sent |

`clashed`, `overlap`, `crashed` and `down` are history, too: they name the calls
that overlapped another one, and restarts, so that the properties can say what
holds in their absence.

A write may fail before the file is opened, or after that has emptied it, with
nothing or a part of the document in it (`FillFails`, `FillKeysFails`,
`FillAsideFails`: the disk is full); its call is then at `"cut"`. The stdio server's
loop also ends at a line that is not UTF-8 or a pipe that cannot be read (`Misread`,
`main.rs:297-302`). A tool that nothing is bound for fails, or succeeds with a hint
if it is one of the databases' (`Unbound`); the row of a call may not be stored, and
may cost others theirs (`Audit`).

## 3. Runs

Deadlock is checked except where calls may rightly come to an end. No run
checks a type invariant: types are proved (section 5) or were checked while a
model was written.

| run | question | instance | distinct states |
|---|---|---|---|
| `MCLiveServer` | do table, counters and tokens agree, whom does a token admit to what, and does the last viewer's departure close? | two of everything; counter modulo 5 | 185 649 |
| `MCLiveSource` | source: is all that it leaves on the machine on record until it is recycled, is a channel that says scrcpy fed; frames: is there a gap in what a viewer reads? | one id, two channel objects, one opener; six frames, ring of five bytes, buffer of three, one viewer | 1 803 126 |
| `MCLivePumps` | source: do pumps end when their id stays closed; takeover: are gestures performed once, does a lasting takeover silence the assistant? | two objects; two openers, no scrcpy-server; one panel, one call, two gestures | 70 015 |
| `MCSshConnect` | generations, leftovers, prompts, and does every call return? | one id, two connects, one of them behind a jump host, one disconnect, two kinds of prompt | 291 852 |
| `MCSshExec` | which session a retry goes to, leftovers of ptys, hang-ups under a command | one bastion id, two connects, two calls, one listing | 906 345 |
| `MCSshExecAbort` | does an aborted command end? | one connect, one call, one listing | **violated** |
| `MCSshExecTwice` | is a command repeated only if it has not started? | two connects, one call | **violated** |
| `MCTransfer` | one worker, whole uploads, statuses that follow | an upload of an empty file and one of two blocks, started twice; a download of one block; two calls at a time; one retained entry | 492 515 |
| `MCDbTools` | the client's tables, its promise, the end of tool calls, leftover connections | one tool call of three calls, one panel's call, two processes, a queue for one | 199 249 |
| `MCStores` | what stays after overlapping calls, failed writes and restarts | three rows and a removal, two rows kept; two upserts, one removal of two assets, one call about another key | 1 281 032 |
| `MCSidecar` | bindings, answers | one tool call that asks back, two bindings | 351 256 |
| `MCSession` | login, SFTP start, forwards, links through the gateway | see below | 304 862 |

### 3.1 Why the bounds are enough to be interesting

* Two channel objects for one id are one close and reopen, which is where names
  and objects part; a third object repeats the second's role. Two ids let a
  token be presented at the wrong one. Two connections are a last viewer and one
  that comes meanwhile; a counter modulo 5 wraps below zero and is never
  reached from above, as the assumption `Cardinality(Conns) < UsizeMod` says.
* A ring of five bytes, with frames of one, two and six, overflows, drops
  several frames for one, and meets a frame larger than the ring. A buffer of
  three frames lags within six.
* Two connects are an old and a new attempt; with one disconnect every order of
  guard, removal and registration occurs; one of the two is behind a jump host
  (`Tunnelled`), where waiting has no limit. `MCSshExec` needs two sessions for a
  retry on another session, two calls for one that waits for the other's lock
  inside a drop, and the listing for the channel table's lock.
* A transfer that is started twice (`MaxRuns`) has an old worker beside a new
  one; a second transfer and one retained entry make `Prune` drop one while
  calls are under way. An empty file and one of two blocks let a worker be
  stopped before, inside and between files; a download of one block is enough for
  that block to land, to be lost, or to outlive its worker. The two users are
  symmetric; a call about the download has no other beside it, and the workers of the
  two do not move files at once (`Alone`): they meet in the table only.
* Two processes are one and its successor; a queue for one request fills with
  the validation. The tool is of the family with a disconnect on failure
  (`es_*`); the others leave out steps of it.
* Three rows with two kept make the audit log trim; a removal shows that a row
  that is to go goes. Two writers of assets share the temporary name; a call about
  another key shares the file of secrets with them. Any write may fail, once or often.
* Two bindings are the current one and its successor, to different assets
  (`MCInit`), and one call that asks back and may be kept waiting.
* `MCSession`, part by part: every credential at every kind of server, with and
  without a jump host, where the user passes what passes at the target, or
  everything (`Alike`); four attempts and probes (`MaxStarts`), one more than a
  fallback takes; two forwards of all kinds with one connection, so that a
  removal meets a connection that is being set up, and a second one that shifts
  the table; two hosts, three paths from the root (plain, up and down again, and up
  beyond it to what looks like the other host) and three relative ones, three bases
  that pages have of their own, bodies up to one over the cap.

### 3.2 Liveness and its fairness

A spawned task or thread runs on, so steps a task takes by itself are weakly
fair. A client, a user, a server or the network owes nothing: `Greet`, `Leave`,
`Answer`, `ShellEnds`, `CallAsked` have no fairness. Where the code waits without a
time limit there is no fairness either, and the property names the wait:

* `PumpStep` and `LoopStep` are fair: between two looks at its channel a pump makes
  adb calls, which have a timeout each, and sleeps. scrcpy has no part in
  `MCLivePumps`: its run touches no variable a pump's loop reads.
* `LimitedStep` are the steps of a connect that do not wait, wait for a prompt's
  answer up to its own limit (`AskExpires`), or wait for a server within the 370
  seconds of `session.rs:342`. The connect and login at a target behind a jump host
  (`session.rs:390-462`) and `open_shell` (`:527-540`) have no limit: those steps are
  not fair, and `CallsReturn` says of a connect that it returns or comes to one of
  these two waits. `ExecFairSpec` has the same fairness for connects, and gives it to
  tool calls and listings; the counterexample of `MCSshExecAbort` does not depend on
  it being weak, for in its last state none of the three is enabled, ever.
* `DbTools` gives fairness to a call and to its wait for an answer, which has a
  timeout, to the tool, to the reader task and to a writer that has nothing to write
  or nobody to write to. Writing to the process's stdin (`go_sidecar.rs:330`) and
  `tx.send` into a full queue (`:499`) have no limit: `Write` is not fair, and the Go
  process owes nothing. So `ToolsEnd` has two exceptions, a queue that stays full at a
  process that runs (`WaitsForRoom`), and a start lock that is never given back
  (`WaitsForItself`, a finding).
* `Sidecar` asks nothing of a handler: `Return`, `Prompt` and `GiveUp` are not fair,
  and a call whose tool never returns is never answered (`RequestsAnswered` says that
  a request comes to its tool or is answered, and is answered once that has
  returned). The peer that is shown a prompt replies to it, unless it hung up or the
  process ended.
* `Forwards` assumes that the server answers a cancelled forward, that a dial
  ends and that an aborted task ends at its next await; `LiveServer` that a
  connection which has to close its channel does.

## 4. Findings

Two disagreements have a run of their own:

* **A listing and a bastion command stop each other for good**
  (`MCSshExecAbort`, `AbortedExecEnds`): `ssh_get_sessions` waits for a session's
  lock with the channel table locked; the bastion command holds that session's
  lock and waits for the channel table. The abort is fired and nobody hears it.
* **A command may be started twice** (`MCSshExecTwice`, `NeverRunTwice`):
  `tools.rs:35-37` and `:273-275` say that a command is tried again only when it has
  certainly not started. What decides is whether the text of the error contains
  certain words, and the texts of timeouts, aborts and failed commands contain the
  command or its output. A kept bastion shell that closes under its command is a
  second way (`KeptWasStale`), against `session.rs:1141-1142`. What does hold is
  `RetryLeavesFailed`.

The rest was met while reading and modelling. Where a property is named, its
definition stands in the module and TLC refutes it when it is put into the
configuration; the other observations are reading only, and are noted where the
model takes the code's side.

*Live view.*

* `LiveSource!NothingLeaks`: the session is recycled once, and a scrcpy run
  that is between noting a port and asking for the forward, or between starting its
  child and storing it (`android.rs:528-533`), or that spawns after the kill, leaves
  what nobody removes. `OnRecordUntilRecycled` excepts the instant before the child
  is stored.
* A token whose channel is closed in one of three gaps between two locks (of
  `issue_token`, of `redeem`, and of `close` itself) may admit to the next channel of
  that id: `LiveServer!loose` names them, `AdmittedToIssued` says that there are no
  others. The last viewer closes by id, so that it may close a successor of the
  channel it left.
* `LiveTakeover!TakeoverExcludesWrites`: the flag is read at the head of a tool
  call, a screenshot for the record follows, then the write. What does hold is
  `TakeoverSilencesCalls`.
* `LiveFrames!KeyFrameIsShown`: a late viewer's replay begins at the key frame
  and leaves out the config packet, without which the panel has no decoder
  description.

*SSH.*

* The time limit of a connect is meant to leave room for a prompt
  (`session.rs:293`: "含 MFA 360s 等待") but has 10 seconds for everything else. When
  it fires during a prompt, the attempt has failed and its sender stays in
  `pending_kb`, so that an answer to it is taken and goes nowhere.
  `PromptIsAwaited` and `FailureLeavesNothing` except these attempts (`"cut"`).
* `SshConnect!DisconnectSparesNewer`: the guard of a disconnect covers the
  generation, the write channel and the prompts, not the removal from the
  session table.
* `SshAuth!KeyThenPassword`: where a server wants a key and then a password the
  login never succeeds (`docs/superpowers/plans/2026-06-11-ssh-mfa-2fa.md:5`, `:70`
  promise it), and where the key suffices the leftover prompt waits for its time
  limit. An empty list of remaining methods is taken for success
  (`session.rs:308`), which is why `AuthIsReal` speaks of servers that name one.
* An SFTP start whose reply or request ran out of time leaves its channel open
  (`session.rs:677`, `:761`), and the probe closes its channel without a limit;
  `OnlySilenceStrays` says that nothing else does.
* Connections and pumps whose handles are pushed after the removal of their
  forward outlive it (`session.rs:147` says that removal aborts them), those of
  remote forwards have no handles at all, and their dial blocks the task that
  serves the SSH connection (`auth.rs:141`). `RemovedForwardsEnd` is what is left.
* `Forwards!ListedIsActive`: the list names forwards whose accept loop has ended
  (`session.rs:2013`); a "web" forward cannot be removed (`:1987`).
* `WebGateway!RelativeLinksLand`: the base that a page is given is the root of its
  site (`web_gateway.rs:11`), so that relative links of a page in a directory
  lead elsewhere. A page that has a base of its own is not given one (`:908`); if that
  names another site, links without a site lead there and not to it. A link that goes
  up from the root of its site climbs out of the gateway's prefix, `/../h/a` to the
  host `h`. A trailing slash is dropped (`:1132`), and an empty segment in the
  middle of a path, so that `..` after it goes up further than a browser's would (the
  models' paths have none, which the proof showed to be needed); the last upstream may be
  another tab's, or a site that only redirected (`:829`); a body that ends early
  passes for complete where its length was
  announced (chunked ones do not: `ChunkedIsNeverShort`); the cap is looked at
  after a whole chunk, whose size plus two may overflow (`:458`).

*SFTP transfers.*

* `DoneIsComplete`: a file whose size is not known is skipped as complete
  (`transfer.rs:99`, `:898`, `:1117`).
* `NoHoleAtAll`: the offset of a download is recorded when tokio's file has taken the
  block, not when it is written (`ops.rs:384-391`); if that fails or the process ends, a
  resume goes on beyond what the file holds. `NoHole` says it of uploads.
* `CancelIsFinal`: a cancel after a pause inside one file ends as paused, since
  the pause is looked at first (`transfer.rs:616` before `:626`, against `:41`).
* The prune's bound shrinks while it runs, so that 149 of 300 retained entries
  stay where `transfer.rs:215` says that the oldest are removed to the cap.

*Go client and database tools.*

* `NeverWaitsForItself`: validating a fresh process that has just died takes the
  start lock again under the start lock (`go_sidecar.rs:266`, `:479`), so that the
  restart which `:411` and `:476` promise never comes, for anybody.
* A process that runs and does not read keeps its callers for ever once the queue is
  full (`go_sidecar.rs:499`, `:330`): their time limit begins after that.
* `LeavesNothing`: the tools leave a pool connection open when their work fails
  (`executors.rs:379`).
* `QueriesAreAccepted`: a query on ClickHouse is refused by the Go side
  whatever it says, SQLite and SQL Server are connected as MySQL
  (`executors.rs:365` against `src/sidecar/` `handlers.go:243`).
* The reader of a dying process fails the calls of its successor too; it cannot
  carry one out twice (`AtMostOnce`), and the caller is told (`PendingIsAwaited`).

*Stores.*

* `JsonStore!AuditRowsKept`: `audit_store.rs:136` promises read, change and write
  under a lock; no lock spans the three, in this store or the others, and of two
  overlapping calls one may be lost. `RowsStay` says that no other row is. A write that
  fails after the file was emptied leaves a file that cannot be read until the cache,
  if there is one, writes it anew; the settings have none.
* Assets have no lock either and share one temporary file; their secrets are
  written in place, so that one failing write (`assets.rs:142`) takes all of them.
  `RecordsFindSecrets` and `CreatedStays` name what survives.
* Two instances of the known hosts store serve one file (`runtime.rs:78`,
  `main.rs:239`), each with its own cache.

*Stdio server.*

* The audit and what follows a successful tool resolve the asset again after the
  tool ran (`main.rs:162`, `bridge.rs:126`), so that a binding that changed
  meanwhile gets the row; soft errors still emit the event of a success. The row may
  not be stored, of which there is only a warning (`audit_store.rs:316-321`).
* `LinesAreHarmless`: a line that is not UTF-8 ends the loop and with it the process
  (`main.rs:297-302`), where `main.rs:9` says that malformed lines are ignored.
* The end of the input ends the process without waiting for its threads
  (`main.rs:296`); a local shell's readers are awaited without a limit
  (`ui_host.rs:92`).

## 5. Proofs

Every theorem is for any sets of ids, objects, threads, transfers, requests and
so on, under the assumptions of the modules: values that stand for "none" are not
members of the sets they are added to, counters have room, a few sets are finite.
32 of the 40 properties the runs check are proved, that is all but the liveness,
and a few the runs leave out because the proof says more.

### 5.1 Live view

`HubProofs`:

| theorem | states | rests on |
|---|---|---|
| `TypeCorrect` | `Spec => []TypeOK` | the hub's operations are typed; a counter modulo m stays below m |
| `RegistryCorrect` | `[]RegistryConsistent` | open registers and clears the flag in one critical section, close does the opposite; `AdmissionCorrect` (a connection is attached to a channel of the id its URL names) says which id is closed |
| `TokensCorrect` | `[]TokenSingleUse` | a spent token stays spent (`SpentIsForever`), and a connection takes it out of the table |
| `IssueCorrect` | `[]AdmittedToIssued` | `IssueInv`, over the registry |
| `CountCorrect` | `[]CountIsViewers` | registry, admission and types |
| `LoopExitCorrect` | `LoopExitDecides` | `CountIsViewers`, and that a set of one viewer is that viewer |

The counter's correctness is not inductive by itself: that a viewer's departure
from an *unregistered* object leaves registered counters alone needs an object
to be registered under one id only (`RegistryConsistent`), that the arithmetic
does not wrap needs the number of viewers to be finite and below the modulus
(`ServerAssumption`), and that a freshly allocated object starts with no viewer
needs admitted connections to hold objects with an id (`AdmittedAsNamed`). The
theorems are therefore layered, each using the earlier ones as invariants.

`IssueInv` follows a token that is not loose. In the table (`Filed`) it belongs to a
channel of its id that is open, or whose close is about to take it out; just redeemed
(`Redeemed`) it belongs to an open channel of the id it is looked up under, so that the
lookup finds that very object. The registry says that an open channel is the one
registered under its id.

`SourceProofs` has `RecordCorrect` (`[]OnRecordUntilRecycled`) and `HonestCorrect`
(`[]ModeIsHonest`) from one invariant: types; `Registered` (the table names
objects of its own ids); `Allocated` (openers, drains and scrcpy runs are of
objects that were given an id, and an object without one says "frames");
`Recorded` (which steps of a run come after the port was noted, and which after the
child was stored). The middle two are needed because a newly opened object must not
already have a run. Between the start of the child and its being stored nothing is
claimed of it (section 4).

Three more theorems are about what shares the hub's picture and input:

| theorem | states | rests on |
|---|---|---|
| `TakeoverTypeCorrect` | `TakeoverSpec => []TakeoverTypeOK` | `TakeoverInv` |
| `GesturesCorrect` | `[]NoGestureLost` | `TakeoverInv` |
| `FramesCorrect` | `[]NoGapWhileWatching` | `FramesInv` |

`TakeoverInv` adds two things to the types and the registry. `HoldersOpened`: who
holds a channel, or has one of its gestures accepted, holds one that was opened,
and a pump that ended leaves its channel closed for good (`ClosedForGood`), so
that nothing accepted later can wait for it. `GesturePlaces`: an accepted gesture
is in the queue of the channel that accepted it, or in its pump's hand, or
performed, or the channel is closed, and never at two of the first three.
`FramesInv` says that a viewer that watches has read the frames right before its
place, in order; a receiver that lagged and went on with the oldest frame left
would break it. It says nothing of what the ring keeps, whose byte arithmetic
folds over frames: a viewer's replay is what `GoLive` takes from it, whatever that
is.

### 5.2 SSH

`SshConnectProofs` proves all safety properties of `SshConnect`:

| theorem | states | rests on |
|---|---|---|
| `TypeCorrect` | `Spec => []TypeOK` | the operations on the tables are typed |
| `GensCorrect` | `[]GensInOrder` | `QuietSteps`: two steps touch generations, all others keep them |
| `SupersededCorrect` | `[]SupersededByName` | `GensInOrder` |
| `OwnersCorrect` | `[]TablesOwned` | the types |
| `PromptsCorrect`, `ReadersCorrect`, `FailureCorrect` | `[]PromptIsAwaited`, `[]ChannelHasReader`, `[]FailureLeavesNothing` | `TablesOwned` |
| `OrderCorrect` | `RegisteredInOrder` | `GensInOrder`, and that `Store` compares |
| `ChannelKeptCorrect` | `CurrentKeepsChannel` | `GensInOrder` and `TablesOwned` |

The strengthening has two halves. `GensInOrder`: the generations of one id are
distinct and at most the current one, an attempt that takes its channel back is
behind it, and so is the guard of a disconnect that clears one. Without it
"remove the channel of this generation" could remove somebody else's.
`TablesOwned`: what is in a table belongs there — a registered session is of a
connect that is done, a prompt is of a connect that asks it, withdraws it, or was cut
off while it asked (`"cut"`), an entry of the channel table carries the generation and
id of the connect that entered it and its shell is open, a connection belongs to
a connect that has authenticated. `FailureLeavesNothing` needs that half, since
by itself it says nothing of a connect that is about to fail. Prompts and failures
are claimed with the exception of the one prompt that an attempt leaves which its time
limit cut off; `CutOff` is among the steps, and that no other attempt leaves one is
what the theorems say.

`ExecProofs` goes on with tool commands beside those connects (`ExecSpec`):

| theorem | states | rests on |
|---|---|---|
| `InvCorrect` | `ExecSpec => []Inv` | the layers below |
| `HangCorrect` | `HangSparesRunning` | locks follow commands |
| `RetryCorrect` | `[]RetryLeavesFailed` | a session that was dropped stays out |
| `PtyCorrect` | `[]PtyLeavesNothing` | the entries of a pty |

`Inv` has three layers. `Tables`: the tables stay typed and owned while commands
drop sessions by id. `CallsOK`: a command that has a session in hand has one
whose connect is done. `LockOK`: a session's lock is held by exactly the command
that is between taking and releasing it; this needs `CallsOK`, for a lock of a
session that is still being made would be nobody's. The lemma `Moves` says of every step of
a command that it is such a move, `MoveKeeps` that a move keeps the other two,
and the theorems follow. `RetryLeavesFailed` has an invariant over `Inv`: the session
that failed a first try is done and of the command's id, and once the drop is over it
is no longer in the table; no step registers a connect that is done again
(`DoneKept`), so that the second look cannot find it. `PtyLeavesNothing` has its own invariant over `Inv`: an
entry a command makes is under its own id, it is there only while the command's
pty is, and a command that is back has none. `ChannelHasReader` and
`CurrentKeepsChannel` are not claimed of `ExecSpec`: a pty's way out removes the
write channel of its id, whoever's it is.

`SessionProofs` proves of what surrounds a session: `AuthCorrect`
(`[]AuthIsReal`, from `AuthInv`: what the client believes to be left is what is
left, at the hop it is at, and it leaves the jump host with nothing left there);
`StraysCorrect` and `FallbackCorrect` (counts of attempts, lapses and strays; an
executable is started only after a sign that the subsystem is missing);
`GatewayCorrect` (`GatewayInv`: entries of the table are distinct and made, no
handle of an accept loop is ever recorded for anybody else, so that nobody stops
the gateway's loop but its stop); `MapCorrect` (`MapInv`: at most one remote
forward per port is in the table, and it is the one the map names unless it is
just being removed).

`ChunkedCorrect` (`[]ChunkedIsNeverShort`) and `LandsCorrect` (`[]LandsWhereMeant`)
are about the web gateway, for any hosts and any paths. `LandsInv` has four
parts. `SitesOK`: while all pages came from one site, the last upstream is that
site; this holds for redirects that carry a page, too. `GatewayStages`: what is being
fetched, shown or named by a Referer is a well-formed address of the gateway, without
dot segments, and what a page's links are resolved against has none either
(`BaseOK`). `Aim`: a request that did not go astray, or if it lost its prefix its
Referer, owes to the way it was come by that its site is the one meant; after a
guess it owes that it is *near* it — the site meant, the one site there is, or a
mixture of that one's scheme and the host meant, which is where a link without a
scheme leads from there and which are all the same when the one site is the one
meant. `PathAim`: as long as nothing was guessed the path is the one meant.
Astray are relative links, whose base the gateway changes; links that climb; and links
without a site on a page whose own base names another one. A relative redirect to a
directory (`"slash"`) loses the path's last slash, and keeps the site.
The lemmas under it say what the operators do for every input: that a prefix put
before a path is read back as it was (`ProxiedAddress`, `RecoveredAddress`), also after
dots were removed from the whole, unless the path climbs, that a
link rewritten by any of the passes leads to the same site it leads to directly
(`LinkLands`, `RequestedIs`), and that a relative Location to a page is resolved as
a browser would (`RelativesAgree`). For the last, two walks over the same segments
must agree; the library's induction theorems cannot be instantiated by the provers,
so `Upward` derives the induction from the well-foundedness of `<` for a given set of
numbers, `Recursion` the existence of a function that is defined step by step, and
`WalkSteps` that `Walked` is one. This is where the assumption on paths is needed: an
empty segment in the middle is dropped by `resolve_relative_path` (`"" | "."` at
`web_gateway.rs:1152`) and kept by a browser, so that `..` after it takes away
another segment.

### 5.3 Go client and database tools

| theorem | states | rests on |
|---|---|---|
| `GoTypeCorrect` | `[]GoTypeOK` | the tasks' steps are typed |
| `RunningCorrect` | `[]RunningIsRegistered` | a request holds a sender to the process it was asked of |
| `PendingCorrect` | `[]PendingIsAwaited` | `GoTypeOK` |
| `OnceCorrect` | `AtMostOnce`: every behaviour is one of `CallService` | `OnceInv` |

The refinement reads a call's phase off `pc` and checks that initial states map to
initial states and each step to a step of `CallService` or a stutter. The step
that needs an invariant is the one in which a goroutine takes a call up: it must
not have been taken up before. `OnceInv` says of every call (`CallIsOne`) that
there is at most one message on its way for it, none before it was queued, that
the message is still to be taken up exactly if it never was, and that a call that
ended well was taken up once.

| theorem | states | rests on |
|---|---|---|
| `ToolsUseClient` | `DbTools!Spec => GoSpec` | every step of a tool or pool is a step of the client, or none |
| `ToolsTypeCorrect` | `Spec => []TypeOK` | `ToolsUseClient`, `GoTypeCorrect` |
| `SuccessCorrect` | `[]SuccessLeavesNothing` | `ToolInv`, `PoolInv` |

With `ToolsUseClient` all that is proved of the client holds while tools use it.
`ToolInv` puts a tool's calls in order: each is made once its predecessor is over,
the disconnect only on a connection that was given. `PoolInv`: a connection in a
pool is in that of a process that runs, and no disconnect of it has been carried
out there. That the disconnect of a tool that succeeded *was* carried out comes from
`OnceInv`, by way of `ToolsUseClient`.

### 5.4 Transfers

| theorem | states | rests on |
|---|---|---|
| `TransferTypeCorrect` | `[]TypeOK` | `Inv` |
| `OneWorkerCorrect` | `[]ActiveHasOneWorker` | `WorkInv` |
| `FollowsCorrect` | `StatusFollows` | `Inv` |
| `NoHoleCorrect` | `[]NoHole` | `DataInv` |
| `UploadsCorrect` | `[]UploadsAreWhole` | `DataInv` |

`WorkInv(i)` ties workers, calls and status together: at most one worker of `i`
moves, or at most one call is about to spawn one, never both; the worker's place
decides between queued and running; and an active status has one or the other.
That is what lets a resume beside a worker's end, or a retry beside a cancel,
come out with one worker. `DataInv(i)`, for uploads `i`, adds that offsets never
exceed what the target has, nor this the file's size, and that files before the
current one are whole; it needs the single worker. Of downloads no such theorem holds:
their offsets are recorded before their blocks are written (section 4).

### 5.5 Stdio server

`SidecarProofs` has `BindingsCorrect` (`[]BindingsAreCurrent`) and `TracesCorrect`
(an answered call that did not fail has told its event before; a row in the audit log is
the only one of its call, says how that ended, and comes after the event). That a call
has a row at all is not claimed, since it may not be stored or be lost. `Piped` says that
the frames in the pipe are those no thread has. `Bindings` says that a binding
that was answered is over, that the session is bound to a latest one, and that a
call acts on one that was latest when the call was sent. `Traces` says which
event, row and answer each place of a thread has left behind.

### 5.6 Stores

These proofs are in `SidecarProofs`, too.

| theorem | states | rests on |
|---|---|---|
| `StoreTypeCorrect` | `StoreSpec => []StoreTypeOK` | the steps are typed |
| `RowsCorrect` | `[]RowsStay` | `StoreOrder`, `RowInv` |
| `AssetTypeCorrect` | `AssetSpec => []AssetTypeOK` | proved together with `AssetOrder` |
| `SecretsCorrect` | `[]RecordsFindSecrets` | `AssetOrder`, `SecretsInv` |
| `CreatedCorrect` | `[]CreatedStays` | `AssetOrder`, `Carries` |

`StoreOrder`: a call that overlapped none runs alone. `RowInv` follows the row
such a call adds: it is in the call's copy, then in the file, and once the call
has succeeded in all that later calls can take the document from, the cache and
every copy (`KeptRow`), which is what lets it outlive calls that overlap each
other; an audit row may go once enough younger ones exist (`NewestKeeps`).
`FileReadable` says when the file does not parse: while it is being filled, or after a
fill that failed (`"cut"`), two overlapping ones, or a restart. A row outlives the
failing write of another call in the cache, which the next call writes anew.

`AssetOrder` says that the two names of the asset file never stand for the same file,
that a file with a name was created by a call that got that far, and that a call
which overlaps none fills the file with the temporary name. `SecretsInv` says what a
call has prepared at each of its steps: the secrets it is about to write include
those that the records in the file need *and* those the records it is about to
write need, since it may end between the two files. The file of secrets may itself be
torn, by a write under way or one that failed; the other writers of that file
(`Others`) keep every asset's secret. `Carries` is for the records
what `KeptRow` is for rows: a record made by a call that overlapped none is in every
file that can come to be the file of assets.

### 5.7 Only model-checked

* Liveness under fairness: `LastLeaverCloses`, `GesturesArePerformed`,
  `TakeoverSilencesCalls`, `PumpsEnd`, `CallsReturn`, `ToolsEnd`,
  `RequestsAnswered`, `RemovedForwardsEnd`, and `AbortedExecEnds`, which is refuted.
  The prover has no rule for fairness (`ENABLED`).
* The type of `LiveFrames`' ring and of a viewer's replay, which come out of folds
  over the frames. `NoGapWhileWatching` does not need it.

## 6. Plan

1. `JsonStore` with two instances over one file, as the known hosts have them.
   Abstract specification: one set of hosts.
2. A refinement for the hub: a channel that exists exactly while it is watched,
   as abstract specification of `LiveServer`.
3. `Transfer` composed with a session that is lost and connected again; as it is,
   a lost session is an error of any block.
4. Proofs of the safety halves of the liveness properties: that a tool call, a
   connect or a request that has not ended has somebody whose turn it is.
5. The session registry and the recording of subagents, once something calls
   them; the approval bridge and the assistant's registry among the plugins.

## 7. Not modelled

`PROJECT.json` gives the reason for each component. Parsing, encoding and SQL
(asset configuration, adb output, host events) have no state of their own; the
device and key tables of Android are set by one call at a time; the session
registry's attach and detach have no caller; the adapters of the Go process are
input and output over drivers, so that only what each accepts is modelled; panels,
plugins and scripts are not the Rust process, and the vendored upstream harness is
not this repository's own code.
