# KeeMASH: verification of the desktop

TLA+ models of the KeeMASH desktop (`desktop/`, a Tauri application: Rust in
`src-tauri/src`, React in `src`), the TLC configurations that check them on
small instances, and TLAPS proofs of the properties that matter most.

KeeMASH controls a house mesh of ESP nodes through a *root* (`node0`). The
desktop reaches the root over KeeLink (WSS, with Fabric as the newer protocol
and v1 as the older one), falls back to BLE when the network is gone, and can
use a serial port. It also monitors the computer it runs on, keeps an operator
profile with undo, runs memory and GPU policies, and updates itself.

The firmware of the root and of the nodes is not part of the repository. What
the models assume of it is marked `(external)` where it is used.

## 1. Inventory

Paths are relative to `desktop/`. *Hard* names the behaviours a test hardly
reaches; *right* what makes the component correct.

| component | state | operations | hard | right |
|---|---|---|---|---|
| KeeLink worker, `root_service.rs` | one thread per service; `LiveState` (pending map, inventory, cursors, root session), `FabricSession`, the queue of `WorkerCommand`s | `start`, `stop`, `pair_native`, `revoke`, `send`, `task_monitor`; reconnect loop; `run_wss` select loop; frame handlers; replay; BLE fallback | reconnects, root reboots, replays, late results, callers that time out while the queue is not served, stop/start | a command takes effect at most once; an answer belongs to its command; a rejected command never runs; nothing stays pending |
| Fabric data plane, `root_service.rs` | cursors per traffic class, `FabricGraphAssembler`, inventory maps | graph pages, telemetry, gaps, cursor records | pages out of order, duplicated, lost; cursors kept over a reconnect while assembly is not | the inventory is a revision the root sent; a consumed sequence is not processed twice |
| Serial service, `serial_service.rs` | `SerialInner`: the port, its stop flag, its reader, the waiter of a UART claim; the weather lease of `lib.rs` | `open`, `close`, `send`, `claim_keelink`, the reader, the heartbeat | a close or an open under a claim that waits, a reader that fails late, a lease published during a disconnect | a claim succeeds on one port; an open port has one reader; every call returns |
| Runtime profile, `runtime.rs`, `src/core/workspace.tsx` | profile with a revision, undo list, history ring, persisted store; in the window a canonical snapshot and a queue of actions | `apply_action`, `set_master_gpu`, `load`, capability checks; `dispatch`, `drain`, snapshot events | a save that fails after the store was set; answers and events that overtake each other; crashes between the two | an action applies to the profile its sender saw; what the window is told is true and durable |
| Command surface, `lib.rs` | handles of every service, tray and exit state | Tauri commands: authorise, confirm, act, record | time between authorisation and action; start and stop of services on profile changes | an action runs only while its module is enabled and its capability granted |
| Updater, `local_updater.rs` | manifest and installers of the cache, staging directory, request and marker files, helper process | check, download, publish; confirm, stage, launch the helper; wait for the parent, install, start again; clean up | calls that interleave over one cache; a handshake by files against a deadline; a crash anywhere | what is installed is what was confirmed, only after the parent has ended; an interrupted update leaves an application that starts |
| Resource monitor, `resource_monitor.rs`, `sensor-host/` | `latest` sample, `AdvancedSnapshot`, three workers, a child process with a bounded IPC queue | start, stop, enable, sample; sensor host supervision with heartbeat and back-off | a stuck or chatty host, enable/disable around a crash, stale sensors shown as current, several owners of one snapshot | stale data is not shown; one host at a time; the host is restarted |
| GPU residency, `gpu_residency.rs` | rules, applied instances, undo map, latest snapshot, rule store | apply, undo, remove a policy; periodic refresh that applies rules | the refresh works on rules it cloned earlier; candidates are built from a clone and stored later; a save that fails | an applied rule is a current rule; undo restores the process and the rule |
| Graphics runtime, `graphics_runtime.rs` | initial and selected adapter, registry preference | `set_master`, restart helper | registry written and profile not, or the reverse | preference and profile agree |
| CCC daemon control, `ccc_daemon.rs` | none of its own: a PID file and an operating-system process | inspect, start, stop, restart, forced stop | PID reuse, a daemon that dies between inspection and kill, stale markers, waits for a state that never comes | only the identified daemon is ever killed; every call returns |
| Process control, `process_control.rs` | none | close, terminate, terminate a tree | identities that change between listing and killing | only a verified identity is ended |
| Memory test, `memory_test.rs` | one status and one cancel flag for all tests, a thread per test and its workers | start, stop, status, the threads | two starts beside each other, a worker without memory among workers that run, a start that clears a stop, a stop at the deadline | tests overlap only where the check of `start` is known to let them; the verdict follows from what the workers saw |
| VRAM telemetry, HWiNFO, Afterburner, `vram_telemetry.rs`, `hwinfo_shared.rs`, `afterburner_shared.rs` | shared-memory readers, provider choice | sample | torn reads of another program's memory | plausible values only |
| Weather, `weather.rs` | cache, last good answer | fetch with retry and fallback | none: one request per call | an answer says how old it is |
| Node resync, `src/lib/nodeResync.ts` | live and synced tags, one job per tag | connection and inventory changes, retries with timers | awaits that end after their job was replaced | every live node is asked for its state once per connection, by one job |
| Climate poller, `src/lib/climatePolling.ts` | enabled, generation, running flag, timer, unsupported set | configure, refreshSoon, refresh loop | a reconnect while a cycle awaits; timers and cycles at once | one cycle at a time; an unsupported query is retried after a reconnect |
| Latency refresh, `src/lib/latencyRefresh.ts`, `nodeLatency.ts` | registered targets, attempts, one request in flight, latencies of a connection | tick, register, record | an answer of an earlier connection; eviction at 64 entries | at most one probe in flight, no node starves, no stale latency |
| Command feedback, `src/lib/commandFeedback.ts`, `src/App.tsx` | feedback per target with phases | send, confirm on a matching reply, resync, give up | replies that match an earlier command | a confirmation belongs to the command |
| Protocol, schedules, typed sensors, graphs, `src/lib` | pure functions over mesh lines | parse, format, validate | numeric edges | parse and format agree |
| Views, styles, translations, `src/components`, `src/i18n`, `src/modules`, `styles.css` | React view state | rendering | none | out of scope |
| Build and release scripts, `scripts/`, `examples/`, `gen/`, `permissions/`, `vendor/` | none | build | none | out of scope |

### How the components interact

The React side calls Tauri commands (`lib.rs`). A command is authorised against
the runtime profile, may wait for a confirmation, acts on one service and is
recorded in the audit ring. Services report through events (`root-status`,
`mesh-line`, `resources-sample`, ...). The KeeLink worker owns the connection to
the root: every caller of `RootService::send` puts a `WorkerCommand` on a queue
and waits for its own result channel. Node resync, climate poller and latency
refresh are clients of that queue; their lines come back as events. The serial
service is used by `pair_native` to claim the root over UART before a credential
is stored and the worker is woken.

## 2. Plan

Order: the parts whose failure a user notices as a lamp that switches twice or
a heater that reports a command it never got come first; then what survives a
restart; then what only the machine at hand is affected by.

| step | modules | what it is for | status |
|---|---|---|---|
| 1 | `KeeLinkControl`, `CommandPromise` | delivery of commands, and the promise it implements | checked |
| 2 | `KeeLinkControlProofs` | types, effects, the promise, writes and results for every number of commands, nodes, connections, boots | proved |
| 3 | `FabricGraph`, `FabricGraphProofs` | pages, cursors, inventory | checked, safety proved |
| 4 | `SerialService`, `SerialServiceProofs` | open, close, commands, claim, lease | checked, safety proved |
| 5 | `RuntimeProfile`, `RuntimeProfileProofs` | revisions, undo, persistence, master GPU; composes controller, store plugin and window | checked, safety proved |
| 6 | `NodeResync`, `ClimatePoller`, `NodeQueries`, `CommandFeedback`, `FrontEndProofs` | the parts of the page with timers: two clients of the queue and the marks of the controls | checked, safety proved |
| 7 | `MemoryTest`, `MemoryTestProofs` | threads of a test | checked, safety proved |
| 8 | `UpdatePipeline`, `UpdatePipelineProofs` | check, stage, helper, install over lost applications | checked, safety proved |
| 9 | `ProcessTable`, `ProcessControl`, `CccDaemon` | identity before an end; trees; the forced stop | checked, composed |
| 10 | `GpuPolicy` | rules against the refresh, undo, the rule store | checked, composed |
| 11 | `SensorHost` | supervision of the helper process | checked, composed |
| 12 | `HostServices`, `HostServicesProofs` | the services of 9 to 11 over one table of processes, one module state and one authorisation | checked, safety proved |
| 13 | `LatencyRefresh` | one probe in flight | left out (section 6) |

Every safety property a passing run checks is proved; what is left to TLC is in
section 5. Candidates for the next steps are theorems with weaker conditions
(overlapping opens, two installs at once) once the code or a document says what is
to happen then. No module here declares a recursive operator.

## 3. The models

Every module names its constants, the bounds among them, and assumes of them
only what the code guarantees. A definition stands for the function or the part
of a function `PROJECT.json` maps it to. An action is what happens between two
points at which another thread, callback or message may come in: the code
between two locks, between two channel operations, between two `await`s or
between two calls of the operating system.

Names ending in `_Mutant` are plausible faults of the definition they are named
after. No specification uses them; each of them, put in the place of its
definition, makes TLC find the property it is listed with violated.

### KeeLinkControl and CommandPromise

`root_service.rs` without its data plane. One element of `Commands` is one call
of `RootService::send`. Its life: `Send` queues it; the worker takes it
(`SendRejected` or `SendWritten` in a WSS session, `OfflineReject` or
`OfflineBle` out of one), writes it and keeps it in `pending` until a frame, a deadline or the loss
of the session resolves it (`Response`, `ResultAnswers`, `ResultMismatch`,
`Maintenance`, `DeadlinePasses`, `Disconnect`); after a reconnect `Welcome`
reconciles the pending map with the root's session and `Replay` writes what may
be repeated. `gaveUp` holds callers whose `recv_timeout` ended. The select loop
is biased (commands before frames before maintenance), which the guards of the
actions keep.

The root (external) is assumed to do what the desktop relies on: one session
number per boot, no operation id executed twice within a session, an answer on
the connection that carried the request. It may reboot at any moment, lose its
link at any moment, delay everything, number its sequences anew or resume them,
and with `MislabelsResults` put the wrong operation on a result. Time is
abstract: a deadline may pass at any moment, so every order of deadlines and
answers is covered. Certificates, identities and BLE radio are left out; a
probe that fails for any reason is `ProbeFails`.

`CommandPromise` is what a caller may rely on, without any of this: a command
takes effect at most once, an answer means that it did, a rejection that it did
not and never will, any other error leaves it open. `KeeLinkControl` implements
it with `effects <- runs` and the outcome read off the reply.

### FabricGraph

The data plane of the same worker: `HandleWelcome` with its cursor reset, the
assembler (`Malformed`, `Fitted`, `GraphAdopted`), adoption of a
complete revision as inventory and task targets, samples of routed and unrouted
nodes, one cursor per traffic class that outlives the connection, gap reports.
The root publishes revisions, splits them into pages, repeats, reboots and
resumes, which sends any of the frames it sent before that the cursors do not
refuse, in their order (`InOrder`, `FramesAt`); `RootKinds` says what one may be like: whether a resumed session starts
with the whole graph, whether a revision is sent again on one connection,
whether pages come that the desktop refuses. Payloads are node tags and their
online bit; time synchronisation and latency events are left out.

### SerialService

`SerialInner` behind its lock, and the threads that meet in it: callers of
`open` and `close` (each in the steps between which the lock is free: detach,
join, open, publish, spawn), readers, senders, the weather heartbeat, the claim
with its lines, its waiter and its retries. What a command says does not matter
to the port, so a weather lease is a `Command` like any other. The assembly of lines from bytes and the baud rate are left
out; a device line is an acknowledgement, an error or the proof.

### RuntimeProfile

The controller (`apply_action`, `set_master_gpu`, `load`), the store plugin with
its value in memory and its file, and the window's `dispatch`/`drain` queue.
Requests, replies and events are three channels, so an event may overtake an
answer. A profile is reduced to one undoable setting, one that is not, the
active workspace, a module it depends on, the master GPU and the revision; the
validations become the one that depends on the profile (the active workspace
must be an enabled module). `Stop` is a crash or an exit; the store plugin
writes its value on exit and by its own timer (`AutoSave`), which is what makes
`ProfileRefused` possible.

### NodeResync, ClimatePoller, NodeQueries, CommandFeedback

Single threaded TypeScript: an action is the code up to the next `await`, and
the model keeps the set of calls that wait. A send may settle at any moment and
in any order, timers fire at any moment after they are armed (`CommandFeedback`
counts seconds instead, since its deadlines count from the click and its timers
from the end of the send). Two fields of one name in two classes have two names
here, so that the three modules can be used together: `ended` is the field
`disposed` of the poller, `Queries` its commands, `pending` the sends of `App.tsx`.
`NodeQueries` puts the resync and the poller into one instance; they share the
connection and `RootService::send` and nothing else, so a behaviour is about one
of them (`part`).

### MemoryTest

`start` in its steps (two looks at the state, clear the flag, spawn), `stop`, the
thread of a test and its workers. All tests share one status and one flag, as in
the code. Calls of `start` and `stop` come at any moment and beside each other:
the commands are asynchronous, the page disables its button only once a status
is back and offers a start again as soon as the status is not that of a test
(ResourceMonitor.tsx:331), and nothing in `start` holds a lock from the check
(121) to the new status (158). A worker without memory raises the flag (283) and
sets the state (285) in two steps (`Lack`, `NoteLack`).

Four history variables carry the properties: `seen`, what ran when a start looked
first; `crossed`, the tests that were under way together with another one;
`lacked`, those of which a worker got no memory; `stopped`, those under way at a
stop whose flag no later start has cleared.

### UpdatePipeline

`Checks` are the callers of `local_update_check` (the scheduler of `lib.rs` and
the page), `Installs` those of `local_update_install`. Both walk through
`sync_remote_update` (`FetchManifest`, `Download`, `ReplaceInstaller`,
`PublishManifest`, any of which may fail: `SyncFails`) and `resolve_local_update`
over one cache of one manifest and the installers it names. An install goes on
with the hash and the dialog (`Confirm`), the end of the services, the staging
copy, the helper and the handshake by files: `SpawnHelper`, `PollReady`,
`ProbeHelper`, `KillHelper` on the side of the application, `ClaimRequest`,
`ReadRequest`, `OpenParent`, `MarkReady` on that of the helper, which then waits
for its parent, validates the stage again, runs the installer and starts what it
installed (`StartUpdated`), or what was there before (`Relaunch`). Each install that begins is a launch of its own (`Launches`, `Launch(i)` the latest
of caller `i`), with its request, staging directory and helper, as each has a new
request id; so an earlier helper may still leave while a later one is launched, and
the clean-up takes away the stage of an earlier application. What is installed on
the disk is kept apart from what runs. The application may be lost at any step (`Lost`) and started again by its user
(`StartAgain`), though not while a helper works.

A file is its content: a hash, a size and a version. Signatures are one bit of
the manifest, the installer's own result one choice. The release page (external)
uploads the installer first and announces it then, and may release a version a
second time under the same file name, which is what makes a cache change under a
dialog.

### HostServices, with ProcessTable, ProcessControl, CccDaemon, GpuPolicy, SensorHost

The services the Monitor module offers for the computer itself. They share the
table of processes, `monitor`, the state of the module, which `authorize` looks at
once (before any dialog), and the end of the application.

`ProcessTable` is the operating system (external) and what the code calls an
identity. A process has a number, which may be given to another one once it has
ended and no handle keeps it (`held`), an executable, a parent number and a
birth, which stands for its exact creation time; the seconds that the code compares
besides, or alone where it takes the exact time afresh (ccc_daemon.rs:690-699), are
taken to tell processes of one number apart as well. `Verified` is
`VerifiedProcessHandle`. Two history variables carry `RightProcess`: `covered`,
the births the operator or an inspection named, and `touched`, those KeeMASH ended
or wrote to. From the listing of a tree on, a process started below a listed *number*
is covered, for the code knows a parent by its number (`derive_tree_depths`,
`validate_tree_target`), whichever process has that.

- `ProcessControl`: close, terminate, terminate a tree. The tree is listed by
  parent numbers (`Depths`: the root at depth 0, every other member one below a
  member, and whoever has a member as its parent is one), each member looked at, stamped and validated, then ended from
  the leaves; the steps between which processes may come and go are steps of
  `task`. A `TerminateProcess` may be refused.
- `CccDaemon`: `call` is one management call. `ReadMarker` and `LookUp` are the two
  halves of an inspection, `Decide` and the operators after it say what each point of
  the code makes of it; the command line tool (external) does all, a part or nothing of
  what it is asked. `ForceStop` hands over to the tree of `ProcessControl`.
- `GpuPolicy`: one executable, its rule in memory, in the store plugin and in the
  file; `views` are the refreshes under way (the worker's and the window's), `policy`
  the command under way. A rule is bound to the build of its executable, which
  may be replaced. A refresh passes over processes the counters do not name
  (`PassOver`), and `validate_rule_store` may refuse one rule too many
  (`TooManyRules`), for an undo after the process was written (585). An undo reads
  the priorities for its answer after its rules were saved (`ReadBack`, 597), and
  is answered with an error, `unread`, if the process has ended by then. The keys
  of the code hold the second a process started in, those of the model (`Key`) its
  birth: a number given twice within a second is not told apart by the code and
  does not happen in the model.
- `SensorHost`: the loop of the worker that owns the host, the reader and its bounded
  queue, the worker that reads memory timings once, the samples. The host may write
  snapshots, junk, a line that is too long, nothing, or end.

`HostServices` composes them and adds `SetModule`, the crash of the application and
the processes of others. In one behaviour the operator uses one service
(`service`): the state spaces of services that do not meet are added and not
multiplied. Where they do meet they are together: the forced stop with process
control, the refreshes with the samples they wait for, every service with the table.

## 4. What TLC checks

All runs are exhaustive over their instance: TLC ends with the whole state
graph explored. Bounds are `Max...` constants and appear only in guards of the
action they bound.

| run | instance | shows |
|---|---|---|
| `KeeLinkFabric` | two Fabric commands to one owner, two connections, two boots, a root that mislabels results; 0.87 M states | each command takes effect at most once, an answer is an answer to that command, no awaited result is dropped by the cursor, nothing is written after its caller was told, nor for the first time after its caller left |
| `KeeLinkWorker` | one command through v1 and Fabric roots, BLE, pairing changes, service restarts, an owner that moves between two nodes; 0.46 M | a rejected command never runs, replays go to the same node and boot, the worker implements `CommandPromise`, nothing stays pending |
| `FabricGraph` | three graphs of two nodes on one or two pages, every kind of root, two boots, two connections, three frames a numbering; 2.4 M | routes are those of one published graph, the cursors drop what was handled and pass no sample on twice, a quiet connection is a current one |
| `SerialService` | a claim of two lines with two attempts, three calls of open and close, two connections, a failure; 76 k | one reader, a port that is read, a claim that stays on one port, every call and claim ends |
| `RuntimeProfile` | up to three actions, a change of the master GPU, a failed save, a crash or exit, four of these together; 0.58 M | no blind write, true and durable answers, a queue that empties |
| `NodeQueries` | resync: `node0` without commands, a node with one, a node with two, two retries, four changes; poller: the real query lists, five changes; 0.17 M | one run per node and bounded rounds, nothing sent to an absent node, every node that stays is refreshed or given up; exactly one polling loop, no effect of an earlier connection, every query asked again and again |
| `CommandFeedback` | two controls, two overlapping commands, sends of up to seven seconds, one disturbance; 0.36 M | a resync before giving up, marks that go |
| `MemoryTest` | two workers, two tests, started and stopped at any moment; 0.13 M | tests overlap only through the windows of the check, true verdicts that are the ones shown, a stop ends its test |
| `MemoryTestRefused` | the same, expected to fail | one test at a time (below) |
| `UpdatePipeline` | a checker and an installer with two calls each, three releases, two of one file name and one unsigned, two starts of the application; 0.37 M | a published manifest has its installer, the application quits only for a good stage, the helper obeys its parent, the application comes back |
| `HostServices` | each service with the processes it can tell apart: three numbers and five births for trees, two and three for the daemon, one number given again for a rule, three switches and two faults for the host; 0.52 M | only the process that was meant is ended or written to, policy answers are true, no stale readings, every call is answered, rules reach every process, readings come back, no host is left running |

### Why these bounds

- *KeeLink.* A command can be written once per connection, so a double effect
  needs two connections; what the root remembers ends with a boot, so it needs
  two boots; a wrong answer needs a second command. The two runs split these:
  mislabelled results need two commands, whereas moves of the owner, BLE, v1,
  pairing and restarts concern the life of each command by itself. The
  theorems of section 5 remove the bounds for all safety properties.
- *FabricGraph.* Mixtures need two pages, two revisions and two boots; a stale
  cursor needs two connections; a page of the wrong revision needs a revision
  of a different page count, hence the three graphs.
- *SerialService.* The dangerous sequence is close and open under a waiting
  claim and one more call; two lines distinguish the first from the last part.
- *RuntimeProfile.* An undo needs an action before it and shows on one after
  it; failed save, crash and master change are each needed once, and any two of
  them occur together with two actions, all three with one.
- *NodeQueries.* Four and five changes are a disconnect, a
  reconnect and what is done before, between and after them.
- *UpdatePipeline.* A cache that changes under an install needs one other caller and a
  release of the same file name; a second start of the application is what a helper,
  a clean-up or a user makes. One install, since two at once are left out (below).
- *HostServices.* A tree needs a chain of three, so that a member is neither root nor
  leaf; a number given again needs one birth more than numbers; the daemon needs a
  number beside its own; a rule is for one executable, so one number used by two
  processes one after another shows whether it reaches both. A rule may be there from an
  earlier run, so that two commands are enough to restore it by an undo. `MaxIncidents = 1`
  is one failed save, rule too many, new build, crash, refresh of the window or process
  passed over beside two commands; the worker refreshes without bound. `MaxWaits = 1` is a wait
  that goes round once and one that is over. The queue of the host holds one line, as full
  or empty is all the worker can tell.
- *CommandFeedback, MemoryTest.* Two overlapping commands at one control and at
  two; a test and the one beside, before or after it, each with two workers, one of
  which may end or lack memory while the other runs. The safety properties are
  proved for any number of both (section 5).

Deadlock checking is off where the program may rightly come to rest: the bounds
are used up, or nothing is left to do. It stays on in both KeeLink runs, where the
worker's loop always has a next step, or a stopped service can be started again.

### Fairness

- *KeeLink.* The worker's thread runs, its waits are bounded (`WorkerProgress`),
  the maintenance tick is reached (`Maintenance`: the select loop polls it last,
  so that the socket must not stay readable for ever), and clocks advance
  (`DeadlinePasses`). Nothing is assumed of callers, link or root.
- *SerialService.* Each thread inside `open`, `close` and a claim goes on when it
  can, a reader that was told to stop does (its reads time out). Not assumed:
  that the device ever answers, that anyone opens a port.
- *RuntimeProfile.* The main thread runs the commands that wait, and the window
  handles what reaches it. Not assumed: that a process starts again.
- *NodeQueries, CommandFeedback.* `RootService::send` returns within
  its timeout, so a send settles; timers fire; in `ClimatePoller` a burst ends by
  the clock. Users, connections and inventories are free.
- *UpdatePipeline.* Threads and the helper run on, an operation that does not succeed
  fails, the dialog is answered, the deadline of the handshake passes, a process told
  to end does. A helper that is not ready may hang for ever, and nobody has to start
  the application again: `AppComesBack` rests on the helper alone.
- *HostServices.* Threads of a call run, dialogs are answered, waits are over after
  their time, the worker of GPU residency refreshes again and again and samples are taken
  while the module is in use, a host that is well writes lines, and a missing heartbeat
  is noticed. A bounded wait for a tool ends: of `wait_with_output` (ccc_daemon.rs:843)
  that is so unless a grandchild keeps the pipe of a tool that was killed. The counters
  go on naming the processes a rule is for (passing one over is bounded). Nothing is assumed of the daemon, its tool, the window or other processes.
- *MemoryTest.* A start that cleared the flag and the threads of a test go on. The
  deadline is not assumed to pass: `StopEnds` is about a stop that does not wait
  for it. Nobody has to start or stop anything.

### Disagreements between the code and what is said of it

Two configurations are expected to fail; they state what the repository says.

- `ProfileRefused` (`RefusedIsForgotten`): README.md:15 promises "transactional
  revisioned profiles". `persist_profile` puts the candidate into the store
  (runtime.rs:516) before it saves (517). When the save fails the action is
  refused and the controller keeps its profile, but the store plugin writes the
  candidate later, and the next start loads it.

- `MemoryTestRefused` (`OneTestAtATime`): memory_test.rs:122 refuses a second test
  with "A memory test is already running". The check (121) only looks at the state,
  twice, and the state is set at 158. Two starts beside each other both pass; so does
  one whose first look sees an allocating test and whose second sees it running, and one
  that comes after a worker without memory has set the state to "error" (285) while the
  others run. Both tests then share one flag and one status: what the second start
  clears at 157 may be the stop of the first test, which runs on to its deadline, and
  a test that was cut short may end as passed. `OverlapOnlyThroughWindows` says that
  there is no other way, `VerdictIsTrue` and `StopEnds` what holds in spite of it.

One more disagreement is known and has no run:

- README.md:17-18 says the weather lease is cleared "on orderly disconnect or exit".
  Before an update the port is closed without `mixer.weather:off` (lib.rs:314) and
  `exit(0)` (337) skips the exit handler. On a disconnect a heartbeat may publish the
  lease again between the off (82) and the close (83).

Seen while modelling, within reach of a constant but not promised otherwise by
anything in the repository, hence no run of their own:

- `OverlappingCalls = TRUE`: two overlapping `open`s publish two readers and keep
  one handle; a `close` that joins the other never returns.
- An undo of a GPU policy answers with an error when the process ends between the save
  of the rules and the last read of its priorities (gpu_residency.rs:597), though it was
  carried out and cannot be repeated; one that `validate_rule_store` refuses leaves the
  process written (585).
- Commands of others pass between the lines of a claim that outlives its port,
  although `send` refuses them as long as the port is the same.
- An undo restores the master GPU in the profile; the registry keeps the later
  choice.
- A failed send marks whatever command is shown at its control by then; a change
  of the language cancels the timers of the marks under way.
- A root that resumes with nothing but what is behind the cursors leaves the desktop
  with the inventory of an older revision, when the connection was lost between
  two pages; `QuietMeansCurrent` is about a root that sends its graph after
  every WELCOME.
- A revision repeated on one connection after it was completed makes the assembler
  index an empty vector: the worker thread panics (`WorkerPanics`), and its slot
  stays occupied, so that `start` does nothing.
- Two installs at once, possible because a check that ends clears the busy flag of the
  page (App.tsx:255), give two helpers that wait for one parent and both install.
- An error of `env::current_exe` (lib.rs:322) ends an install after the services were
  stopped: they stay stopped (`NoExecutable`). A launch that fails after the helper
  claimed its request leaves the claimed file behind. "deferred update helper cleanup
  until next launch" (local_updater.rs:641) has no code on the next launch.
- `cleanup_marker_if_matches` looks for the process and removes the file in two steps
  (ccc_daemon.rs:755, 761): a daemon started in between under that number loses its PID file.
- A stop whose last inspection still shows the daemon running counts as a success
  (ccc_daemon.rs:888). The dialog of a stop or restart names a number the call does not use
  (lib.rs:902).
- A process whose dead parent's number the root of a tree was given is listed as its
  descendant (process_control.rs:368) and ended with it.
- A failed save of a rule leaves it in the store plugin, as with the profile. The roll
  back of the process may overwrite what a refresh wrote to it meanwhile. A refresh that
  cloned a rule before an undo may write it once more afterwards, and a changed rule is not
  written to the processes that got the old one.
- Switching the module off counts as a crash of the sensor host: the next host is
  started 15 to 60 seconds after it is switched on again. Memory timings read before the
  first snapshot keep no nanoseconds.

## 5. What is proved

TLAPS proves the following for every value of the constants, under the named
assumptions of the modules and the conditions of the last column.

| theorem | in | statement | condition |
|---|---|---|---|
| `TypeCorrect` | `KeeLinkControlProofs` | `Spec => []TypeOK` | |
| `EffectsCorrect` | | `Spec => []EffectInv` | |
| `EffectAtMostOnce` | | `Spec => []AtMostOneEffect` | |
| `RejectedHasNoEffect` | | `Spec => []RejectedNeverRuns` | |
| `AnswerHasEffect` | | `Spec => []AnsweredRan` | |
| `PromiseKept` | | `Spec => KeepsPromise` | |
| `ReplaysFaithful` | | `Spec => []ReplaysAreFaithful` | |
| `NothingWrittenLate` | | `Spec => NoLateWrite` | |
| `NoResultIsSwallowed` | | `Spec => []NoResultSwallowed` | |
| `FabricInvariant` | `FabricGraphProofs` | `Spec => []Inv` | |
| `InventoryPublished` | | `Spec => []InventoryIsPublished` | |
| `CursorsExact` | | `Spec => []CursorsAreExact` | |
| `QuietCurrent` | | `Spec => []QuietMeansCurrent` | |
| `AppliedToWhatWasSeen` | `RuntimeProfileProofs` | `Spec => []NoBlindWrite` | |
| `ToldTheTruth` | | `Spec => []AnswersAreTrue` | |
| `RoundsAreInOrder` | `FrontEndProofs` | `Spec => []RoundsInOrder` | |
| `AbsentIsNotAsked` | | `Spec => NoSendToAbsent` | |
| `AlwaysOneLoop` | | `PollerSpec => []OneLoop` | |
| `StaleHasNoEffect` | | `PollerSpec => NoStaleEffect` | |
| `ResyncedBeforeGivingUp` | | `MarksSpec => []ResyncBeforeGivingUp` | |
| `PortIsAlwaysRead` | `SerialServiceProofs` | `Spec => []PortIsRead` | `~OverlappingCalls` |
| `ClaimsAreOfOnePort` | | `Spec => []ClaimOnOnePort` | `~OverlappingCalls` |
| `OverlapsAreExplained` | `MemoryTestProofs` | `Spec => OverlapOnlyThroughWindows` | |
| `VerdictsAreTrue` | | `Spec => []VerdictIsTrue` | |
| `ServicesInvariant` | `HostServicesProofs` | `Spec => []Inv` | |
| `RightProcessHolds` | | `Spec => []RightProcess` | |
| `PolicyAnswersHold` | | `Spec => []PolicyAnswersTrue` | |
| `NoStaleReadingHolds` | | `Spec => []NoStaleReading` | |
| `ManifestsHaveInstallers` | `UpdatePipelineProofs` | `Spec => []PublishedIsCached` | |
| `QuitsForGood` | | `Spec => []QuitsForGoodUpdate` | `OneInstall` |
| `HelperObeys` | | `Spec => []HelperObeysParent` | `OneInstall` |

The conditions concern the callers, and hold of the values the runs give the
constants. `~OverlappingCalls`: calls of `open` and `close` come one after another,
as the connection page sends them. `OneInstall`: there is one caller of
`local_update_install` (any number of checks, and of installs one after another).
Without the first the properties are false (section 4). Two installs at once are possible (section 4, App.tsx:255) and left out of
the model (section 6): one helper may then start the application while another still
serves one that runs, and the model has one running application. Nothing in the
repository says what is to happen. `ManifestsHaveInstallers` needs no such condition.

The other assumptions are those of the modules, as weak as the code justifies:

- `KeeLinkControl`: `NoMac` is no node and the control messages are no commands.
- `FabricGraph`: `NoMac` is no node, a graph is a map of nodes, a revision has at
  least one page, and a root is of one of the kinds `RootKind` lists.
- `RuntimeProfile`: there is a layout, a taste and an adapter.
- `NodeResync`: the tags are finitely many, each with a number of commands.
- `ClimatePoller`: the two cycles are sequences of commands that are not empty.
- `CommandFeedback`: a command has a control, and a send takes at most seven seconds:
  `RootService::send` waits `COMMAND_TIMEOUT` (5 s) and two more (root_service.rs:590).
- `HostServices`: process numbers are finitely many, the shell has none of them, `None`
  is no process, the first tables hold processes, and priorities are strings.
- `UpdatePipeline`: a caller checks or installs, versions are numbers, and a signed
  manifest states the size of the installer with its digest (the digest has no collision).
- Bounds are natural numbers.

### The root worker

None of the properties is inductive. `EffectInv` adds what each step relies on:

- `QueueInv`: a queued command, or one not yet asked for, is untouched (no write, no
  entry in the pending map, no reply, no effect) and queued once. Without it a command
  could be rejected off the queue after its effect.
- `PendingInv`: pending commands are unanswered, belong to a session of the root
  that is not in the future, and what is on the wire agrees with them on whether it
  is an operation. Without it a replay could cross a boot, or two kinds of write meet.
- `SessionInv`: a live connection belongs to the root's present session, and so does
  a WELCOME under way on it. It is what makes the comparison of sessions in `Welcome`
  mean something.
- `ReplayInv`: a command that ran can only reach the root again as an operation it
  remembers. This is the heart of `AtMostOneEffect`.
- `FrameInv`: results and responses under way tell of effects that happened; it
  carries `AnsweredRan` over the link.

The proof has a lemma for each group of actions. Most of them fall under a few
shapes proved once: steps that only resolve commands (`Resolving`, `ResolveStep`),
steps that leave the commands alone, writes, and steps of the root. The lemmas on
sequences say what taking the head of a queue and appending to it do to its
elements.

`PromiseKept` is the refinement: under `EffectInv` every step maps to a step of
`CommandPromise` or to a stutter. A step executes one command at most (`OneRun`)
and changes a reply only from `none` (`RepliesFinal`).

`ReplaysFaithful` needs `WriteInv`: what is in the pending map was written as it is
there, on no later connection, and on an earlier one if it is to be replayed.
`NothingWrittenLate` needs `LateInv` as well: after WELCOME nobody in the queue has
given up, because the queue is drained first.

`NoResultIsSwallowed` needs `ResultInv`: HELLO comes first on a connection, one
WELCOME answers it before any result, results are numbered in order up to the
root's last number, and all of them after the cursor there is or, before WELCOME
is read, the one there will be. The last part is what makes keeping the cursor
over a reconnect safe when the root numbers anew.

### The data plane

`FabricGraphProofs` is about the same worker's cursors and pages; its invariant is a
conjunction of six parts beside the types, each proved from those before it.

- `LinkInv`: without a connection nothing is on the wire; a HELLO that waits tells the
  root the session, numbering and cursors the worker still has; a WELCOME comes first and
  finds no pages stored; every data frame has the numbering the worker will have when it
  takes the frame (`LinkEpoch`), which is the root's while it serves.
- `OrderInv`: frames of a class are numbered upwards, on the wire and in the root's log,
  and no cursor runs ahead of the root.
- `CursorInv`, `EmittedInv`: a frame that the cursor will refuse was dealt with, a cursor
  stands at a frame that was, a sample handed on is behind its cursor. They imply
  `CursorsAreExact`.
- `HistInv`: pages that bear one revision come from one published graph. It says that
  *some* history, a graph for every revision, agrees with the wire and the
  assembler; after a reboot that need not be the root's, which counts anew while
  pages of the boot before are still on the wire. With `Assemble` (the pages of a
  graph put together are the graph) it implies `InventoryIsPublished`.
- `FreshInv`: from a root that sends its graph after every WELCOME each page of its
  revision is still to be sent, on the wire, in its slot or adopted. At a quiet
  moment the first two are empty and a slot that stays would be the last missing
  one, hence `QuietMeansCurrent`.

Lemma `Kinds` sorts the steps into nine kinds (connections that begin and end,
welcomes, frames that are taken, resumptions, restarts, idle steps, reboots, frames that are
sent), so that each part is proved kind by kind rather than action by action.

### The other components

- `RuntimeProfileProofs`: every snapshot under way is of an earlier revision or is
  the present profile (`SnapshotInv`), which makes comparing revisions as good as
  comparing profiles, also over a restart with the default snapshot; the window and
  the controller speak of one action at a time, the head of the queue (`TalkInv`,
  `OneTalk`), and actions are numbered in order (`PendingInv`).
- `FrontEndProofs`, node resync: tokens are used once (`TokenInv`), a job has an armed
  timer or a run that works for it and not both, and what was sent is the rounds
  before and the part of the present one (`RoundInv`).
- `FrontEndProofs`, climate poller: `running` stands for the one cycle and `timer` for
  the one armed timer, never both, and one of the two while the poller is on
  (`LoopInv`); what is skipped was found in this generation (`SkippedInv`). That `ToSend`
  leaves the end of a cycle rests on the smallest element of a set of numbers
  (`MinIsMember`, by well-foundedness).
- `FrontEndProofs`, command feedback: ids are given once and no two controls show
  one (`MarkInv`); a send and the mark of its id are of one command, and of one age
  while the mark waits for it (`SendInv`); timers are of the mark that is shown
  (`TimerInv`). A timer armed at the end of a send of at most seven seconds fires
  between the ages of 4 and 11 (`ResyncInv`), so that it asks; and the
  last timer has a first one eight seconds before it, unless the status was asked for
  (`GiveUpInv`).
- `SerialServiceProofs`: a running reader is that of the latest opening, and whoever has
  to wait for it has its handle (`ReaderInv`); a line comes from the connection it
  arrives on, and a claim hears of one connection, the latest while it waits
  (`WireInv`, `SourceInv`).
- `MemoryTestProofs`: two tests under way are both crossed, and what a start saw
  running although the state was another had lacked memory or was crossed
  (`CrossInv`). Of a test that is not crossed the status tells the truth, so a look
  finds it, and it is the one launched last (`StatusInv`); the flag was raised for it
  and a thread of it ends for a reason (`CancelInv`, `WorkerInv`).
- `HostServicesProofs`: a number may be given to any process, so the invariant speaks of
  starts. What a request, an inspection, a refresh, an undo entry or a command
  remembers of a process is covered (`TaskInv`, `CallInv`, `ViewInv`, `UndoInv`,
  `CommandInv`). Members of a tree are known by their parents' numbers only: whoever has
  a member's number and its expected parent's number is covered as well (`Below`),
  which the steps of the table keep (`Moves`). `VerdictInv` relates the answer to memory,
  store and file, also between the save of an undo and its answer, `StaleInv` the readings to the state of the worker. The proof corrected
  the model: with coverage by parent process instead of parent number `RightProcess`
  was false from six births on, beyond the bound of the run (section 3 and the
  tree of a dead parent in section 4).
- `UpdatePipelineProofs`: the cache has an invariant of its own (`CacheInv`): a call
  that goes on with a manifest has a signed one, the content it renames was uploaded under
  that name, and before it publishes the installer is there; no call, however they
  interleave, takes an installer away. For the launches (`LaunchInv`): one under way has
  a good stage made by the application that runs, one to come has no helper (`StageInv`);
  a helper that works belongs to its caller's latest launch, runs beside its parent
  only while that waits or quits for it, and installs only when none runs
  (`HelperInv`); the application ends for a good and ready stage (`QuitInv`); what is
  cleaned up is of an earlier application (`CleanInv`).

TLC checked each inductive invariant and every theorem's property on the instances
of section 4 before they were proved.

### Model-checked only

The twelve liveness properties (`PendingResolves`, `EveryCallEnds`, `QueueDrains`,
`EveryNodeSettles`, `EverythingPolled`, `MarksEnd`, `StopEnds`, `AppComesBack`,
`CallsFinish`, `EveryProcessReached`, `ReadingsComeBack`, `HostsFollow`), since neither
fairness nor `ENABLED` is within the prover's reach; and the runs that find a
disagreement, which state what is false.

## 6. What is not modelled, and why

- Shared-memory telemetry, weather, DXGI and sensor readings: reads of memory or
  services of others, decoded at once, without state worth a property.
- Protocol, schedules, typed sensors, graph layouts (`src/lib`): pure functions,
  well covered by the unit tests beside them; candidates for operators checked against
  reference definitions.
- Views, styles, translations, build and release scripts.
- Latency refresh: one request at a time by its own flag, a list of targets and a
  bounded map, covered by its unit tests.
- Two installs at once, and an application its user starts while a helper works: nothing
  in the repository promises an answer, and the page offers neither in ordinary use.
- Inside modelled components: certificates, identities and BLE radio of the root
  worker; envelopes, time synchronisation and latency events of the data plane; bytes
  and baud rates of the serial port; agents, grants and the history ring of the
  profile; test patterns, WHEA queries and throughput of the memory test; hashes,
  signatures and paths of the updater; window handles of `process.close`; counters and
  adapters of the GPU snapshot; the classification of sensors and the lengths of
  waits.
