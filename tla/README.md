# A TLA+ development for tmux-remote

tmux-remote lets a phone or a terminal attach to tmux sessions on another
machine over Nabto Edge. The *agent* runs beside tmux; *clients* (an iOS app
and a command line tool) connect to it. This directory models the agent's
concurrent core, its home directory (device key and users) and the iOS app's
connection manager, terminal screen and prompt overlay in TLA+, model-checks them with TLC on
small instances, and proves their central invariants with TLAPS for every value
of the constants.

Paths below are relative to `src/`; `agent/src/tmuxremote_x.c` is written `x.c`,
and `X.swift` is a file under `clients/ios/TmuxRemote/`.

## 1. The system

### Components

| Component | State it keeps | Operations |
|---|---|---|
| Prompt lifecycle (`prompt_lifecycle.c`, `prompt.c`, `prompt_detector.c`) | the active prompt instance and its revision, the absence counter, the identity resolved last | process one snapshot, resolve an instance, copy the active one; each emits PRESENT, UPDATE and GONE events |
| Control streams (`control_stream.c`) | list of reference counted stream objects with `closing`, `needsPromptSync`, `needsSessionSync`; the session list sent last | accept, read `pattern_resolve`, send prompt events, synchronise sessions and prompts, purge, stop, join, deinit |
| Data streams (`stream.c`) | list of stream objects with a PTY, a tmux client process, four threads, `closing` and `closeStarted` | accept, set up, two byte pumps, close once, cleanup thread, stop, deinit |
| Session map (`session.c`) | 8 slots: connection → session name and size | set, get, update size, remove |
| CoAP handler (`coap_handler.c`) | request queue, worker thread, `stopping`, `activeCallbacks` | listen, callback, enqueue, worker loop, stop, deinit |
| CoAP endpoints (`coap_attach.c`, `coap_create.c`, `coap_resize.c`, `coap_sessions.c`, `coap_status.c`) | none of their own | one request handler each |
| Start and shutdown (`main.c`) | the device, the listeners | start, wait for a signal, shut down in a fixed order |
| Prompt detection (`terminal_state.c`, `prompt_rules.c`, `pattern_config.c`) | a VT screen, compiled rules | feed bytes, snapshot, match, load patterns |
| Prompt protocol (`prompt_protocol.c`) | none | encode three messages, decode one |
| IAM and users (`iam.c`, `init.c`) | user state in memory and in `iam_state.json`, one pending state | pair, save by a worker, `--init`, `--add-user`, `--remove-user` |
| Device key (`keychain.c`) | the private key in a file or a keychain, the preference | load or create, move between the two |
| tmux interface (`tmux.c`), banner, device info | none | run tmux, parse its output, print |
| iOS connection manager (`ConnectionManager.swift`, `NabtoService.swift`) | per device: the cached connection, the pending connect, the control stream and its generation, the state shown | connect, disconnect, cancel, reconnect attempt, pair and adopt, handle CLOSED, read the control stream |
| iOS terminal screen (`TerminalScreen.swift`, `NabtoService.swift`) | the screen's flags (connected once, reconnecting, error shown), the data stream, the reconnect context and task | open, connect and attach, reconnect in a loop with backoff, give up, go to the background and return, leave |
| iOS pattern engine (`PatternEngine.swift`, `TerminalScreen.swift`) | the active match, whether it is hidden, a delayed GONE, two suppressions | apply PRESENT, UPDATE, GONE; dismiss, restore, answer, reset |
| iOS views and stores | user interface, bookmarks, resume | |
| CLI client (`clients/cli`) | saved devices | pair, list, attach |

### How they interact

All Nabto callbacks run on one thread, the *core*; it also completes every read
and write of the other threads. A data stream's PTY reader feeds the detector,
whose lifecycle emits events under the detector's mutex; the events are written
to all control streams of the same connection. A control stream's reader
delivers `pattern_resolve` to the detector of the data stream, under
`activeStreamsMutex`. One monitor thread polls the tmux sessions every two
seconds, sends them, brings new control streams up to date with the active
prompt, and purges dead streams. `POST /terminal/attach` stores the session in
the map, and the next data stream of the connection takes it from there. `main`
stops listeners, the device, and then each component's threads in turn.

The home directory is shared by processes: `--init`, `--move-device-key`,
`--add-user` and `--remove-user` read and rewrite `device.json`, the key and
`iam_state.json` while an agent may be starting or running on them.

In the app everything runs on the main actor and interleaves at its awaits. The
connection manager keeps one connection per device and a control stream on it;
prompt events from that stream go to the pattern engine of the open terminal.
The terminal asks the manager for the connection before every call, keeps its
data stream in `NabtoService`, and is told of its end, and of a change of the
device's state, by callbacks that may start a reconnect loop.

### What is hard

Lifetimes (objects freed by whichever thread comes last, threads joined by
threads they may be waiting for), four kinds of mutex held across blocking
writes, condition variables, two senders of the same prompt, stale entries in
the session map, allocation failures in the middle of an operation, and the
shutdown order. In the home directory: writes that are cut short, a move in
several steps, two processes on one file. In the app: tasks that go on after
they were cancelled, events that arrive after the connection they are about was
replaced, timers that race what they wait for. `PROJECT.json` lists each hazard
at its line.

### What makes each component correct

* Lifecycle: a consumer that applies the events shows what the agent holds; no
  overlay outlives its prompt; the prompt answered last stays quiet while it is
  still on the screen; a different prompt is never hidden by it.
* Control streams: exact reference counts, no use of a freed stream, every open
  stream learns the prompt and the sessions, a shutdown ends and ends clean.
* Data streams: an object is cleaned up once, freed when nothing can touch it,
  and always freed in the end; a stream attaches to the session asked for last.
* Session map: one entry per connection (that slots are given back is not stated:
  see "Reachable, not stated").
* CoAP handler: every request is answered once, an endpoint never goes deaf, no
  wakeup is lost, and nothing is used after it was destroyed.
* Key storage: the registered key is never destroyed, whatever fails or crashes,
  and a start never presents another one. Unless a write of the config or of the
  migrated key file was cut short, the next start finds it; otherwise it refuses.
* Users: an agent that was stopped has saved every pairing; a user who was
  removed stays out of every agent started later.
* iOS connection manager: one connect at a time, which always ends; the control
  stream is the cached connection's; the state shown agrees with the cache, except
  after a pairing that failed beside a cached connection.
* iOS pattern engine: an overlay agrees with the agent once the events have
  arrived and goes away with its prompt; a prompt that has not gone before on this
  connection, and reads like none that was answered, is shown.
* iOS terminal screen: behind a "Reconnecting..." overlay there is a loop that is
  alive and will take it away; what a screen started ends with it.
* Detection, CLI client: see the plan.

## 2. Modules

| Module | Models | Notes |
|---|---|---|
| `PromptEvents` | the abstract event stream an overlay consumer may see | specification only |
| `PromptLifecycle` | `prompt_lifecycle.c`, driven by `prompt_detector.c` | implements `PromptEvents` |
| `PromptLifecycleProofs` | | seven theorems |
| `ControlStream` | `control_stream.c`, the resolve and copy paths of `stream.c` and `prompt_detector.c`, the shutdown of `main.c` | |
| `ControlStreamProofs` | | four theorems |
| `SessionMap` | `session.c` as operators on the table | extended by `DataStream` |
| `DataStream` | `stream.c`, `coap_attach.c`, the shutdown of `main.c` | |
| `DataStreamProofs` | | four theorems |
| `CoapHandler` | `coap_handler.c` | |
| `CoapHandlerProofs` | | three theorems |
| `DeviceKey` | `keychain.c`, the key's part of `init.c` and of the start in `main.c` | |
| `AgentHome` | `iam.c`, the users' part of `init.c` | extends `DeviceKey`: the whole home directory |
| `AgentHomeProofs` | | eight theorems about `DeviceKey` and the home, the refinement of `DeviceKey` one of them |
| `ConnectionManager` | `ConnectionManager.swift`, pairing and reconnect attempts of `NabtoService.swift` | one device |
| `ConnectionManagerProofs` | | four theorems |
| `PatternEngine` | `PatternEngine.swift`, the event callback and reset of `TerminalScreen.swift`, the two senders of prompt events in `stream.c` and `control_stream.c` | extends `PromptEvents`: the app composed with the abstract agent |
| `PatternEngineProofs` | | one theorem |
| `TerminalScreen` | `TerminalScreen.swift`, connect, attach, stream and reconnect loop of `NabtoService.swift` | screens of one device, one after another |
| `TerminalScreenProofs` | | two theorems |
| `MC*` | symmetry sets, a view and constant values for TLC | |

A definition that a mutant replaces is preceded by the mutant, named in its
comment; mutants are not part of the specifications.

### PromptLifecycle

`active` is `has_active` with the instance, a candidate and a revision;
`absence` is `absence_snapshots`; `resolvedId` joins `suppress_resolved` and
`resolved_instance_id`. A candidate stands for everything the rules extract
from a snapshot; `InstanceId` is `build_instance_id`, an arbitrary function, so
that candidates with the same identity and different content (the UPDATE path,
or a hash collision) are covered. `lifecycle_process` is split into one action
per path (`PresentFirst`, `StayIdle`, `CountAbsence`, `Redraw`, `Revise`,
`Replace`); `AllocOutcomes` says whether its two allocations may fail. `gone`
and `shown` are the events of the last operation. `view`, `unseen`, `quiet` and
`lost` are history variables: a consumer's overlay, how long each identity has
not been seen, a resolved identity that never left the screen, and the overlay
an allocation failure in the UPDATE path orphans.

### ControlStream

Five kinds of threads with a program counter each; the mutexes
`activeStreamsMutex` (A), the detector's (D), `streamListMutex` (L) and one
`writeMutex` per stream (W). A step ends where a thread takes a mutex it may
wait for, starts or ends a blocking write, joins, or releases a reference. The
prompt is active or not, the session list is a version number, frames are
their kind, and all control streams belong to the connection of the one data
stream. A write completes only while the core is idle, and fails on a dead
connection. `overlay` and `known` are what the clients were last told.
The UPDATE event takes the same path as PRESENT and is not distinguished.
`StopDataStreams` covers `tmuxremote_stream_listener_stop` and the flag that
`tmuxremote_control_stream_listener_stop` sets first.

A thread that joins itself (`control_stream_release_impl` called by the
stream's own reader) gets EDEADLK, frees its object and goes on; the value it
then reads from it is a nondeterministic choice.

### DataStream

Each stream is a record with a program counter per thread (`core`, `setup`,
`pty`, `input`, `clean`), the flags of the object, and the state of its tmux
client. `CloseOnce` is `start_stream_close_once`, `Cleanup` is
`cleanup_active_stream`. Every fork, thread and future may fail when
`ResourcesFail`; such failures are bounded to a running agent. A PTY read ends
when the tmux client is gone, not when another thread closes the descriptor.
`wait_stream_future`'s 250 ms slices and 15 s limit are a write or read that
may fail at any time and must fail once the stream is closing or the connection
is down. `wanted` and `due` are history: the session of the last attach that
was answered 2.01, and the connections whose attach no stream has used.

### CoapHandler

One endpoint. A critical section under `queueMutex` is one step; the queue is
the set of queued requests ordered by ticket; a thread in `pthread_cond_wait`
waits for a signal (or a spurious wakeup of the worker). `nabto_device_stop` is
taken to let no callback start and to return once the SDK has handed the last
one over, which is how `main.c` relies on it.

### DeviceKey and AgentHome

Two processes, the *tool* (one command) and the *agent*, with a program counter
each; every file or keychain operation is one step that succeeds, fails, or is
cut short by the death of the process. `write_file` writes in place, so a file
that was being written may be left `Torn`. `config` is `device.json` reduced to
its key preference, `key` what the namespaced file, the legacy file and the
keychain slot hold. `Begin` to `End` follow `tmuxremote_do_init`,
`tmuxremote_do_move_device_key` and `run_agent`; a keychain that cannot be read
counts as an empty one, as in the code. `device` is history: the key whose
fingerprint `--init` has printed. `fate` is history too: it leaves `"sound"`
when a keychain read fails on a key that is there, or when two processes overlap
in a start or a command; the properties of the key then say nothing.

`AgentHome` adds `iam_state.json` (`iam`), what a command is about to write
(`job`), and the running agent's copy with its save worker (`mem`, `pending`,
`saver`, `saving`, `stop`). A user is absent, invited or paired. Its actions
conjoin those of `DeviceKey` where one code path does both (`InitUsers`,
`AgentLoads`, `ExitAgent`).

### ConnectionManager

One device, because nothing in the manager relates two. A connect task, the
connection it makes and that connection's control stream task carry one name.
An action is what the main actor runs between two awaits; the SDK's steps
(`Connected`, `ConnectFails`, `Lost`) come at any time. `cancelled` is separate
from the task's progress, since Swift's cancellation only sets a flag and runs
the handlers that are installed. `gen` is `controlGenerations`, named by the
connection it was bumped for. `HandleConnectionClosed` knows only the device, so
it drops whatever is cached by then. Callers hold a bookmark by value, so they
may connect a device that was deleted meanwhile, but none that was never paired
(`BookmarkHeld`); and any number of pairings may be under way, since Cancel in
`PairingView` leaves their tasks running. `overruled` is history: the connection
that was cached when a pairing failed, after which the state reads disconnected.
A connection that was lost and one that was stopped are both `"closed"`, and
`.offline` is not told apart from `.reconnecting`. The reconnect loop appears here as the calls
it makes (`Reconnect`, `SetDeviceState`, `Disconnect`); `TerminalScreen` has its
inside.

### PatternEngine

The agent's side is `PromptEvents` itself, the specification `PromptLifecycle`
implements, with each operation's events put on the `wire` in order, and the
monitor's copy of the active prompt (`SyncCopy`, `SyncSend`). The app's clock is
abstracted to the moments when the minimum visibility and the two suppressions
are over. `spent` and `stray` are history: identities that have gone or read
like an answered prompt, and whether the connection has seen one of the three
events after which app and agent may disagree (an instance dropped without
GONE, a copy that was overtaken, an event applied between the reset and the end
of the old stream). A reconnect starts both afresh, but keeps what is left in
the app. Left out are the time before the monitor has listed a new control
stream, whose events the agent writes to nobody, and a control stream that ends
alone, while its connection stays up (`ConnectionManager.swift:336-341`): after
that the app hears nothing more, and an overlay stays until the next connection.

### TerminalScreen

Screens are opened one at a time; a task is the `connectAndAttach` of a screen or
a reconnect loop, and `at` says at which await it is. `Enter` is a call of
`connection(for:)`: it answers at once if there is a connection, otherwise the
task waits (`answer` is `"wait"`) for the one connect there is, and is answered
`"ok"`, `"failed"`, or `"cut"` when someone drops that connect. The manager is
reduced to that promise (`conn`, `state`). `Errors` lists what an await can
throw; Swift's cancellation stops no call of the SDK, so a cancelled loop (one
that is not `loopTask`) goes on until it looks. `Proceed` is what
`connectAndAttach` looks at between its steps, `Wanted` the test the loop makes,
`Teardown` what `dismissToDevices` and `onDisappear` both do, `StartLoop` the part
of `attemptReconnect` that replaces the task; the new loop takes the first number
that is free. States the code does not tell apart (connecting, reconnecting,
offline) are `"other"`, and `Noticed` reduces further to what `onChange` looks
for. `stray` is history: screens whose attach was answered while the app was in
the background (see *Reachable, not stated*). The session a bookmark remembers
is left out: nothing here reads it. So is a connect task that was cancelled
before it had begun and still sets the state to connecting; `ConnectionManager`
has it. `GoInactive` is an interruption that does not reach the background; the
way back from there counts as background until the app is active.

## 3. Runs

| Run | Instance | Properties | Shows |
|---|---|---|---|
| `lifecycle` | 3 candidates, two of one identity, a third identity no candidate has; absence limit 2 (the code's value); revisions ≤ 3; allocations fail | `TypeOK`, `ViewMatchesActive`, `OverlayIsFresh`, `ResolvedStaysQuiet`, `DistinctPromptIsShown`, `GoneIsEarned`, `ImplementsEvents` | the lifecycle's promises, and that it implements `PromptEvents` |
| `control_sends` | 2 streams, one prompt, everything enabled | `TypeOK`, `RefsAreExact`, `NoUseAfterFree` | lifetimes under every interleaving of senders, monitor, disconnects and shutdown |
| `control_delivery` | 1 stream, a prompt that comes and goes, one change of the session list, a shutdown | `CleanExit`, `PromptReachesClients`, `SessionsReachClients`, `ShutdownEnds` | delivery and termination for clients that resolve nothing |
| `control_callbacks` | 1 stream | `CallbacksDoNotBlock` is violated | finding 1 |
| `data_stream` | 1 stream, 2 connections, 2 sessions, failures, shutdown | `TypeOK`, `OneEntryPerConnection`, `FreedAlone`, `RightSession`, `StreamsAreReleased` | cleaned up once, freed alone, attached to the right session; no thread or tmux client left behind |
| `attach_target` | 1 connection, 1 stream | `AttachTargetKept` is violated | finding 2 |
| `coap_handler` | 3 requests | `TypeOK`, `NoUseAfterDestroy`, `ListenerStaysArmed`, `RequestsAreAnswered`, `StopEnds` | the endpoint's whole life |
| `agent_home` | 2 keys, 2 users, with a keychain | `HTypeOK`, `KeyNeverLost`, `SameIdentity`, `SavedOnExit`, `RevokedStayOut` | commands, starts, pairings, failures and crashes in any order |
| `ios_connections` | 3 connects, two of which may be pairings | `TypeOK`, `SerializedConnect`, `ControlFollowsCache`, `StateIsHonest`, `ConnectEnds` | cancellation, loss, late events, overlapping pairings, connects of a deleted device |
| `ios_overlay` | 3 candidates with 2 identities, 2 revisions, 2 events under way | `OverlayAgrees`, `OverlayGoesAway`, `NewPromptIsShown` | the overlay against the agent's events |
| `ios_terminal` | 1 screen, 2 loops of 1 attempt, retries, 2 tasks at a time | `TypeOK`, `OverlayHasLoop`, `ReconnectSettles` | a cancelled loop that is still running beside its successor, a first connect retried beside a loop, losses, late answers, background and return |
| `orphan_loop` | 2 screens with sessions of their own, 2 loops | `OrphansStayAway` is violated | finding 3 |

### Bounds

* `MaxRevision = 3`: a revision only grows by one and is compared for nothing;
  three distinguish first, second and later ones.
* `MaxFeeds`, `MaxSessionChanges` (1 or 2): a prompt that comes and goes, a list
  that changes once while a stream is at any point of its life.
* Two control streams give one thread that holds a stream another one is
  releasing. Delivery is checked with one stream: the flags, targets and copies
  a client depends on are per stream, and the safety run has two of them.
* One data stream and two connections: stream objects share only the session
  map, the list and main, and the proofs cover any number of them. `MaxSlots`
  (2) stands for the code's 8: two slots are what a second entry for the same
  connection needs. A table that is full is left to the proofs, which take any
  number of connections and slots.
* In `DataStream` allocations and futures fail only while main runs (`MayFail`): a
  close future that cannot be made during the shutdown is left out.
* Three requests: one handled, one queued, one in the callback.
* Two keys: the registered one and one that would be generated in its place. Two
  users: the owner `--init` invites and one who is added and removed.
* Three connects of one device: one that was replaced, the one that replaced it,
  and a third after a loss; or two pairings (`Pairable`), of which one succeeds
  and one fails, and a connect beside them.
* `ios_overlay`: two candidates that share an identity give the UPDATE path, the
  third is a different prompt; two events under way hold a GONE and the PRESENT
  that replaces it, or an event and the monitor's copy.
* `NLoops = 2`: the loop that counts, and one that was cancelled and has not
  noticed. `MaxTasks = 2`: the two loops, or one of them beside a first connect
  that is under way or retried; at the bound, what would start another task
  waits. `MaxAttempts = 1` stands for the handful of attempts that fit into the
  code's 30 s with its backoff; the proofs hold for any number. One screen
  suffices for its own overlay, since a second one is opened only when the first
  is gone; two are needed for the orphan of finding 3.
* `MaxSlots` and `MAX_CONTROL_STREAMS` (8): a ninth control stream, which the
  code's snapshots leave out, is not reached.

The symmetry sets are used in runs without liveness only. `SafetyView` in
`MCControlStream` hides what no step and no invariant of that run reads: the
clients, the flags of freed streams, targets of threads that are not busy, and
the frame of senders other than the monitor.

`agent_home` is explored while `fate` is `"sound"` (constraint `SoundOnly`): no
home becomes sound again, and the key properties say nothing of others.
`ios_terminal` is explored while no screen is stray (constraint `NotStray`): a
stray screen stays one, `OverlayHasLoop` and `ReconnectSettles` hold of it by
definition, and so a behaviour that leaves the constraint violates neither.

Deadlock is not checked where main returns and everything stops; in
`ControlStream` the agent can also block for good (see *Reachable, not stated*),
which the liveness properties are there to detect.

### Fairness

* `ControlStream`: weak fairness for every thread, for the completion of a
  write on a live connection and the failure of a read on a dead one. Strong
  fairness for the core and the senders that want L: the monitor is the only
  thread that takes L again and again, and it sleeps without it for up to two
  seconds in every round (`control_stream.c:490-502`). Nothing obliges a client
  to send, resolve or hang up, tmux to change, or main to stop.
* `DataStream`: weak fairness for the core's callbacks and each thread; a
  blocked read ends because `wait_stream_future` aborts it 250 ms after
  `closing` is set. Not for the tmux client, the clients or main.
* `ConnectionManager`: the main actor runs every job that is queued, and a
  connect ends, at the latest when its ten second timer stops it
  (`ConnectionManager.swift:155`). Nothing obliges anyone to call it, or a
  connection to be lost.
* `PatternEngine`: the control stream delivers, timers fire, and a reconnect that
  was begun drops the old stream. Not the agent, the user or a loss.
* `TerminalScreen`: the main actor runs the jobs of a task that is under way, and
  the SDK answers, a connect at the latest after its ten seconds. Not the user,
  the app's phases, a loss, or the notice of a changed state.
* `CoapHandler`: the SDK delivers a request that was sent to an armed listener
  (strong, as other requests may be delivered before it), and each thread that
  can run does.

## 4. Findings

1. `control_callbacks`. DESIGN.md:588-590 forbids blocking in Nabto callbacks.
   `stream_callback` and `stream_closed` take `activeStreamsMutex`, which
   `tmuxremote_stream_resolve_prompt_for_ref` holds while its `pattern_gone` is
   written, a write only the core can complete.
2. `attach_target`. DESIGN.md:46 says that attach sets the target of the next
   stream; the cleanup of the previous stream, which removes the map entry of
   the connection, may come in between.
3. `orphan_loop`. `NabtoServiceDisconnectTests.swift:6-8` is about a reconnect
   task that "kept interfering with subsequent connection attempts". A cancelled
   loop whose attach is answered 404 still calls `onGiveUp` (`NabtoService.swift:343-347`),
   and the teardown of the old screen takes context, callbacks and stream from
   the one that is open by then.

### Reachable, not stated

States the models reach and that no run is about; the properties are stated so
that they do not depend on them. The first three disagree with what the
repository says.

* `activeStreamsMutex` is destroyed while control readers, which lock it to
  resolve, are still to be joined (`destroyedA` with a reader at `"wantA"`); the
  comment at `main.c:526-529` orders the joins before the destruction, and
  forgets these readers.
* A connection that attached and was lost before it opened a stream keeps its
  slot of the session map for the life of the agent (`coap_attach.c:144`), where
  README.md:205 promises 8 concurrent connections.
* A screen that is left while `openStream` awaits the SDK finds no stream to
  close; the open then ends, and the stream is kept and read
  (`NabtoService.swift:252`), where `NabtoServiceDisconnectTests.swift:4` says
  that "no orphaned tasks or callbacks survive".
* A reader that resolves and holds the last reference of its own stream frees
  it and reads it again (`control_stream.c:44-54`, `:308`). `NoUseAfterFree`
  speaks of all other threads, and `CleanExit` is checked with clients that
  resolve nothing.
* The monitor joins a reader while it holds L (`control_stream.c:478`). If the
  core is waiting for L in `stream_accepted` it cannot complete that reader's
  read. `ShutdownEnds` is checked with one stream.
* With data stream callbacks, the core may wait for A while the monitor holds A
  and waits for D, held by a PTY reader whose write the core must complete.
* The monitor's copy of the prompt may be written after the GONE of the PTY
  reader (`control_stream.c:461`), and the overlay stays. `OverlayAgrees` and
  the two liveness properties except such a connection (`stray`).
* A PRESENT of the same instance within 1.5 s of its GONE is ignored, and a GONE
  that is delayed for the minimum visibility still clears the overlay
  (`PatternEngine.swift:40`): a transient gone, which DESIGN.md:344 says the
  guard window covers up, is made final. `NewPromptIsShown` is about prompts
  that have not gone before.
* The engine is reset when the data stream is lost, the old control stream ends
  later (`TerminalScreen.swift:431`): an event in between leaves an overlay.
* `--remove-user` says the user "will no longer be able to connect"
  (`init.c:509`); an agent that is running keeps admitting them and its next
  save writes them back. `RevokedStayOut` is about agents started afterwards.
* The lifecycle remembers one resolved prompt. If the client resolves A, then B,
  while A stays on the screen, or resolves A while another prompt is active, A is
  presented once more: `ResolvedStaysQuiet` excepts answers that were overtaken.
* A copy of the legacy key that is cut short leaves a torn key file, which hides
  the legacy one at every later start (`keychain.c:100-102`): the agent refuses to
  start until somebody removes the file.
* Two pairings of one device overlap: one caches its connection, the other fails
  and sets the state to disconnected beside it (`NabtoService.swift:158`). With a
  bookmark that was deleted while its caller slept (`DeviceListView.swift:377-381`)
  the same happens beside a connect, a device without a bookmark stays connected,
  and a pairing that succeeds caches its connection beside a pending connect,
  which then takes its place.
* A connect task that is cancelled before it has begun still sets the state to
  connecting (`ConnectionManager.swift:110`), and nothing resets it when it fails;
  nor does a pairing that cannot connect.
* A CLOSED event of an old connection drops the new one, alive, from the cache
  (`ConnectionManager.swift:414`), and a connection that is lost before its
  event receiver is added stays cached as connected.
* A first connect whose attach is answered while the app is in the background
  has a session although its connection was dropped: on the return no loop
  replaces the one that was cut off without a word, and the overlay stays.
  `OverlayHasLoop` and `ReconnectSettles` except such a screen (`stray`).
* Background and return during the first connect, before
  `initialConnectionDone`, start no loop (`TerminalScreen.swift:198`): the terminal
  stays dead until the user acts.
* A keychain that is locked at a start makes the agent generate another key
  (`keychain.c:354`), and an `--init` that died half-way leaves a home in which
  it is refused.
* `tmuxremote_stream_listener_deinit` kills the tmux client before it joins the
  setup thread; one that forks in between leaves main in `waitpid`.
* DESIGN.md:437 speaks of 8 absence snapshots, `prompt_lifecycle.h:10` of 2. The
  proofs hold for every positive number.

## 5. Proofs

All theorems hold for every value of the constants that satisfies the named
assumptions of the modules.

* **PromptLifecycle** (`LifecycleAssumption`: `InstanceId` is a function into
  `Ids`, the null values are no prompts, limits are positive). The inductive
  invariant is `TypeOK /\ LifecycleInv`. `OverlayIsFresh` and
  `ResolvedStaysQuiet` are not inductive: that the active prompt is fresh after
  a snapshot that misses it needs that `absence` is exactly its age, and that a
  resolved prompt stays quiet needs that an answer which was not overtaken is the
  suppressed identity and that the active one is never suppressed. `Invariance` proves it, one
  step per path; the invariants, the action properties `DistinctPromptIsShown`
  and `GoneIsEarned`, and the refinement of `PromptEvents` follow.
* **CoapHandler** (`NoRequest` is no request). The inductive invariant is
  `TypeOK /\ HandlerInv`: each request in flight is owned by exactly the thread
  that holds it and has not been freed (`RequestsOwned`), and main's position
  tells what the callback and the worker can still be doing, `activeCallbacks`
  counting the callback inside (`ShutdownPhases`). From it, `NoUseAfterDestroy`,
  `ListenerStaysArmed` and that no request is freed twice.
* **DataStream** (`MaxSlots` is positive, `NoEntry` is no entry). The session
  map has one entry per connection, for any number of slots, streams and
  connections: `SessionSet` and `SessionRemove` keep it, nothing else writes it.
  With that, each entry is what its connection asked for last (`TargetsInv`),
  from which `RightSession` follows, since only `stream_accepted` starts a setup
  thread. `FreedAlone` is not inductive: that no thread is left when an object
  is freed needs to know which threads can exist at which point of its life. The
  invariant `ObjectInv` of one object says so: the readers exist only after the
  setup thread got that far, a child has a pid that can be waited for, once the
  core has cleaned up nobody can start a close any more, and the cleanup thread
  and main never work on the same object. Each step changes one object
  (`BecomesSound`), so the proof goes through the threads one by one.
* **ConnectionManager** (`None` is no connection). `TypeOK`, `SerializedConnect`,
  `ControlFollowsCache` and `StateIsHonest` are inductive together (`IInv`), with
  any number of pairings and connects in any order; the proof has one case per
  action.
* **ControlStream** (`ControlAssumption`; that `Streams` is a finite set is what
  cardinality needs). `RefsAreExact` says that a count is the number of holders,
  plus one while the object is in the list or on its way there. It is inductive
  only in the company of what decides who can hold what: the position of each
  thread and what it has in hand there (`Labels`, `SendInv`, `MonitorInv`,
  `MainInv`), and that a stream that is freed, or whose reader is being joined,
  has count zero (`FreeInv`). `IInv` is their conjunction. The lemma `Counting`
  does the arithmetic once: a step in which one thread gains or loses its hold
  keeps the count exact if the count moves with it; a lemma per thread (senders,
  monitor, core, readers, PTY reader, main) then goes through its actions.
  `NoUseAfterFree` follows, since whoever holds a stream has counted it. For
  `CleanExit` a second invariant (`ExitInv`) says that a stream that has lost its
  last reference is freed or being joined by someone, and that, where clients
  resolve nothing, a reader is only ever reading. `CleanShutdown` has the hypothesis `~ClientResolves`: with a client
  that resolves, main can be done while a reader has freed its own stream and
  still reads it (see *Reachable, not stated*), so the unconditional statement
  is false.
* **DeviceKey** (`KeysAssumption`, `PlatformAssumption`). Whether a step may
  overwrite a storage depends on what its process has read before, so neither
  `KeyNeverLost` nor `SameIdentity` is inductive. `KInv` adds, for every step of a
  command or a start, what it has established: `--init` runs before there is a
  registered key or an agent (`InitInv`), a copy of the legacy file overwrites
  nothing (`CopyInv`), a move has the key in both storages before it changes the
  preference and in the one the preference names before it deletes the other
  (`MoveInv`), a start looks where the registered key is and never gets to saving
  another one (`StartInv`). All this while `fate` is sound, which is also when
  the two statements speak.
* **AgentHome** (`OwnerAssumption`, `NoneAssumption`). `HomeImplementsKey`: every
  behaviour of `HSpec` is one of `KSpec`, step by step (`HomeStepIsKeyStep`), so
  both key theorems carry over to the whole home. `HInv` adds where an accepted
  pairing is until it is in the file, pending, in the worker's hands or written
  (`SaveInv`), and in how many places a revoked user must be absent: the file,
  the agent's three copies, and what a command is about to write (`RevokedInv`).
  From it `SavedOnExit` and `RevokedStayOut`.
* **PatternEngine** (`EngineAssumption`; `InstanceId` maps candidates to
  identities, which is all the hash is used for). `OverlayAgrees` speaks of the
  moment when nothing is under way. `WireInv` says what holds before: the events
  on the wire, each fitting the one before it, lead from what the app has been
  told to what the agent has active (`Leads`). `OneMore` and `OneLess` are the two
  facts about `Leads` that an event sent and an event delivered need.
* **TerminalScreen** (`ScreenAssumption`). `TypeOK` is inductive, for any number
  of screens; its last conjunct says that whoever waits for a connection waits
  for a connect that is under way. `OverlayHasLoop` needs `ScreenInv`: an open
  screen is the one the service reconnects, so nobody else ends its loop
  (`OwnerInv`); there is no stream, loop or overlay before the first connect is
  done (`FirstInv`), and the background leaves an open screen without a session
  (`SessionInv`), so that the return starts a loop in place of one that was cut
  off. `OverlayIsBacked` has the hypothesis `OneScreen`: with a second screen it is
  false, as a task left over from the first may tear down the context and the
  loop of the second (finding 3 is the case of a loop, a first connect does it
  too).

Only model-checked: every liveness property, since fairness is outside the
prover (`ConnectEnds`, `PromptReachesClients`, `SessionsReachClients`,
`ShutdownEnds`, `StreamsAreReleased`, `RequestsAreAnswered`,
`StopEnds`, `OverlayGoesAway`, `NewPromptIsShown`, `ReconnectSettles`), and the
violations.

## 6. Not modelled, and why

* Contents of frames, CBOR, formatting, logging, banners: data that no property
  of the modules above tells apart.
* The descriptor numbers of PTYs, PTY recording and resizing: see the plan.
* Memory that runs out in the monitor's encoders, and lists above 64 KiB: the
  session list is then sent to nobody and is not tried again.
* `tmuxremote_coap_handler_init`'s failures, arguments, daemonising.
* A prompt message that cannot be built (no memory, more than 8 KiB): it would
  only make a connection `stray`.
* The IAM configuration (roles and policies), names and their validation,
  `--list-users`.
* In the app: probing a cached connection, the bytes of the terminal's stream,
  creating sessions, bookmarks, resume, CBOR decoding.
* Prompt detection (`terminal_state.c`, `prompt_rules.c`, `pattern_config.c`):
  the lifecycle takes what a snapshot yields as given.
* A setup thread that outruns the assignment of `setupThreadStarted`
  (`stream.c:329`): creation and flag are one step.
* Vendored cJSON, the iOS views, the Nabto SDK itself (external: connections,
  futures and listeners appear as the code uses them).

## 7. Plan

Next, in this order:

1. `DataStream`: resize and descriptor numbers, so that a resize or a write to a
   descriptor that was closed and reused can be stated; the creation of the
   setup thread and its flag as two steps.
2. Detection as pure operators: the screen of `terminal_state.c`, rule matching
   of `prompt_rules.c`, pattern selection, against reference definitions.
3. The CLI client's attach loop.
