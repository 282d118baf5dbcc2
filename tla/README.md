# Verification of the ADB Device Farm

TLA+ models of the farm's own logic, checked with TLC on small instances and, for the main
invariants and refinements, proved with TLAPS for every value of the constants. Paths are relative to
`src/QtScrcpy/` unless they start with `docs/` or `tests/`; `core/` stands for
`QtScrcpyCore/src/device/`.

## 1. Inventory of the system

The farm drives up to hundreds of phones from one PC. Almost all services live on the GUI
thread and interleave only handler by handler; `adb` processes, automation workers, the
network scanner and the demuxer and recorder of a session have threads of their own.

| Component | State it keeps | Operations | Hard behaviour | Correct when |
|---|---|---|---|---|
| DeviceService (`farm/devices/deviceservice`) | start queue, starting set and watchdogs, live set, wishes, operator stops, retry timers | mirror, stop, restart, reconnect, disconnect, reboot; pump, launch, watchdog, retry | stale adb answers, core signals inside other handlers, timers racing commands | slots are bounded and fair, a start always ends, service and core agree, nothing runs against the operator |
| Core session: DeviceManage, Device, Server (`core/server`) | an entry per serial; the tunnel, the server process, sockets and timers of a start | connect, disconnect, push, reverse or forward, accept, connect timer, restart | ends before the start is reported, deletion at any step, failures at any step | a start is reported once and ends, tunnels are taken down, an entry goes when its session ends |
| Core session: demuxer, decoder, VideoBuffer, recorder | two frames and their lock, queued newFrame events, the recorder's packet queue | receive, offer, draw, screenshot, replay, record, close down | three threads per session, waits on close | no frame is lost for ever, no thread waits for ever, the file is whole |
| Messages and input (`core/controller`) | the bytes of the control socket, fingers and keys held on the phone | clipboard messages, keyboard and mouse with and without a key map | messages cut anywhere, timers of drags and wheels, releases that are not presses | what goes down comes up, texts arrive whole |
| DeviceRegistry | record and state per device, groups, snapshot for workers | listing upserts, setState, numbers, groups, flush, sorting and lists | groups change rows behind the flush, crashes between two writes | what the operator set is saved, no member of a group that is gone |
| DeviceDiscoveryService, NetworkScanner | online set, connect queue, sweep and its sockets | listings, `adb connect`, sweeps by timer and by hand, mDNS | two threads, cancellation crossing the end, single-shot timers | a sweep ends once, the queue is served, the next sweep comes |
| AdbExecutor (`farm/adb`) | command queue, running set, shared semaphore, cap | run, runSync, cap change, cancelAll, stop | three kinds of threads, permits put back outside the lock, callbacks that ask for more | no permit lost, no wakeup lost, one answer per command |
| ConnectionIdAllocator | leases, ids and ports in use, rotation hint | acquire, release, setPortRange | pool exhausted, ports held by others, wrap of the hint | leases unique, ports rotate |
| WorkflowEngine / AutomationRun, TaskExecutor | per-device progress, workers, pause and stop flags | start, pause, resume, stop, retry, delete, shutdown | deletion under running workers, retry under stopped ones | every device settles, no use after delete, a stop reaches every worker |
| Interpreter, nodes, conditions, documents of workflows | graph, stack of loops, variables | walk, act, wait, compare, edit, validate | nested loops, calls, waits with cancellation, values of mixed types | a program runs as it is drawn, a node answers a port it has, a wait ends |
| Workflow editor and Automations page | document, undo stack, drag, clipboard; current workflow, open questions | edit, undo, paste; open, save, delete, AI answers, panel of runs | questions with events arriving under them | undo gives back what was there, no edit is dropped unasked |
| BatchJob / JobManager, DeviceCommands | item states, shared token, recording marks | start, pause, resume, cancel, retry, chains of commands | stale completions, a token shared with items in flight | each item settles once, a job ends once, one recording per phone |
| Scheduler | schedules, next runs, active runs, cooldowns | tick, events, runNow, edits, boot | missed runs, crash between fire and save, overlap | no occurrence served twice, intervals kept, no overlap |
| KeepAwakeManager, DeviceHealthMonitor | status, round robin, edges of the battery | policy changes, ticks, answers | late answers, devices that come and go | the status told is true, nobody waits for ever, events take turns |
| Storage (`farm/storage`) | the file, its version, connections of threads | open, migrate, seed, close, back up | crash in a migration, a second process, failing commits | whoever opens it finds every table |
| Device wall, phone windows, group control | tiles, order, selection, host, followers, fingers down | filter, scroll, click, press, host mode | frames missed out of view, selection changing under a press | tiles in view are fresh, fingers come up, none is told twice |
| Logs | files, crash marker, activity entries | write, rotate, post, show | the program ending in a rotation, posts from workers | the log is unbroken, a crash is told |
| AppContext, settings, performance, mock, parsers, image/OCR/AI helpers, other pages, audio, vendored code | settings, samples, widgets | - | - | not modelled, section 8 |

How they interact: the UI, the Scheduler and the automation issue commands to
DeviceService and AdbExecutor. Discovery polls `adb devices` through AdbExecutor, writes
the registry and signals appeared/disappeared to DeviceService. DeviceService takes a
lease from ConnectionIdAllocator, starts the core through DeviceManage and hears of it
through signals, which Qt delivers synchronously, often in the middle of the handler that
caused them. Automation workers call `runSync` and share the executor's permits.
`PROJECT.json` lists each component with its status, and under "hazards" what in this code
is hard to test, at its line.

## 2. Modules

State machines, checked by the runs of section 3:

| Module | What it is |
|---|---|
| `MirrorService` | DeviceService with the core's entry, the registry state and the discovery callbacks it depends on |
| `StartSlots` | abstract: what DeviceService promises about start slots (`Slots`) |
| `CoreEntry` | abstract: the life of a serial's entry in the core; `CoreSession` implements it (`EntrySpec`) and `MirrorService` uses the core only in this way (`CoreSpec`) |
| `ServerStart`, `VideoSession`, `CoreSession` | the start of the server; the video of a live session; both composed, from the first adb command to the last thread |
| `AdbExecutor`, `ConnectionIdAllocator` | the command runner on its three kinds of threads; leases of ids and ports |
| `WorkPool` | abstract: devices go out in list order, never more than `width`, and the pool closes by itself once |
| `AutomationEngine`, `BatchJobs` | runs on the automation lane, and jobs with their item chains; each implements `WorkPool` |
| `Scheduler` | extends `AutomationEngine`: schedules, the rows of them on disk, restarts |
| `DeviceRegistry` | devices and groups in memory and in the tables, with writes that fail and ends of the program |
| `Sweep` | abstract: what discovery counts on when it starts a sweep; `NetworkScanner` implements it (`ScansAreSweeps`) |
| `NetworkScanner`, `Discovery` | the scanner on two threads; listings, sweeps and the connect queue, over what `Sweep` promises |
| `MirrorServiceProofs`, `CoreSessionProofs`, `AdbExecutorProofs`, `ConnectionIdAllocatorProofs`, `AutomationEngineProofs`, `BatchJobsProofs`, `DeviceRegistryProofs`, `DiscoveryProofs` | the theorems (section 4) |
| `MC...` | instances for TLC |

Functional modules. Sequential code with a large state (a page, an editor, an interpreter) is
written as functions on records; the module states its properties as predicates, and
an `ASSUME` of an MC module has TLC evaluate them over bounded inputs or over everything
reachable within a number of steps:

| Module | Of | Assumptions in |
|---|---|---|
| `Interpreter` | how a worker walks a workflow, against the meaning of a structured program | `MCAutomationEngine` |
| `WorkflowScene` | the document and its validator; the editor with undo, redo, drags and the clipboard | `MCAutomationEngine` |
| `Expression`, `Nodes` | conditions and how values compare; the ports nodes answer, waits, typed texts, places | `MCAutomationEngine` |
| `AutomationsPage` | library, questions, AI answers, the panel of runs | `MCAutomationEngine` |
| `NormalInput`, `GameInput`, `VideoForms` | keyboard and mouse without a key map, and the messages of a phone; input with a key map; phone windows and group control | `MCCoreSession` |
| `DeviceWall`, `DeviceOrder` | the wall of tiles and host mode; sorting, filters, targets of a run, the import of v2.0 groups | `MCFleetParts` |
| `DeviceCare`, `Storage` | keep-awake and health; the database file | `MCFleetParts` |
| `Ipv4`, `Logs` | ranges of addresses; log files, crash marker, activity | `MCFleetParts` |

Where the code keeps a promise only under a condition, the condition is an argument of the
exploration (a careful user, a calm fleet, a set of faults), and a second assumption, named
`...Gaps`, `...Gap`, `KeysCanBeLeft` or `CarelessMice`, shows that the promise is broken without it. So the conditions
are no wider than needed, and each is a remark of section 5.

### MirrorService

A handler is atomic, as it runs on the GUI thread. The record `dev[d]` joins what the
service, the core, the registry and discovery hold for one device; `queue` is `m_queue`.
Handlers are functions on one record, named as in the code (`StopMirror`, `BeginStart`,
`LaunchCore`, `FinishStart`, `OnCoreDisconnected`, `AttemptReconnect`, ...); a signal the
core emits synchronously is a call of the handler's function at that point. Each action
ends in `Settle`, which does what each of those handlers ends with: `pump()`, as long as slots are free.

Timers and adb calls in flight are counted per device (`norm`, `dial`, `probe`, `restart`,
`reboot`, `rebootWait`, `hangup`), since the code does not tell two calls of one kind
apart. An answer comes at any time, in any order, good or bad. Timers of the operator's
world (restart 400 ms, reboot 20 s, watchdog, retry) fire at any time once armed.

The core's entry has five states: `absent`, `starting`, `zombie` (the server process ended
before the start was reported), `live`, and `null` (the Device was deleted, its entry was
not removed). What the core does between them is `CoreSession`; that the service sees no more
of it than `CoreEntry` has, and uses it no other way, is `CoreSpec`.

### CoreSession

`ServerStart` has the steps of `Server` and the part of `Device` that reacts to them: one record
`srv`, a handler for every result of the two adb processes, the sockets and the timers, the
automatic restart in forward mode and a deletion of the Device at any point. `VideoSession` has the
three threads of a live session: `Decode`, `Offer`, `Announce` of the demuxer thread; `TakeEvent`,
`StartDrawing`, `Unlock`, `Save` of the GUI thread; `Record`, `Recording` of the recorder; and
`ClosingDown`, in which `disconnectDevice` waits for them. In `CoreSession` the GUI thread runs one
handler at a time, so nothing happens to the server inside `disconnectDevice`.

### AdbExecutor

A step is what a thread does between two looks at shared state, so a release that decides
under `m_mutex` and gives the permit back after the unlock is two (`Retire`, `Release`),
and an `enqueue` on the executor thread is three (`Enqueue`, `Push`, `Kick`). On the GUI
thread `enqueue` is one step (`Ask`): only that thread sets `m_stopping` or ends the
executor, and the push itself is under the lock.

| Code | Actions |
|---|---|
| `run` / `enqueue` | `Ask` (GUI), `Enqueue`, `Push`, `Kick` (a callback on the executor thread) |
| `pump`, `launch` | `Pump`, `Launch` |
| `finish`, `releaseSlot`, `deliver` | `Finish`, `Retire`, `Release`, `Deliver`, then `Pump` |
| `setMaxConcurrency` | `SetCap` |
| `runSync` | `Call`, `Acquire`, `SyncEnds`, `SyncReleases`, `SyncKicks` |
| `stop`, `cancelAll`, `cancel` | `BeginStop`, `Drain`, `AnswerDrained`, `PostKill`, `EndStarted`, `PostDelete`, `EndStop`; `TakeEvent` handles the kill and the deletion, `Quit` ends the thread |
| `CancellationToken::cancel` | `Revoke` |

Pumps posted one after the other do what one does and are kept as one event. An answer
counts as given when it is delivered: run on the spot without a receiver, posted to the
receiver's thread with one (a receiver that has gone gets none, as the code intends).
`FailedToStart` is deferred by the code to the event loop, so `Finish` happens only between
events. The thread runs from the start: `AppContext::initialize` starts it.
A restart of the stopped executor is entered (`at = "restarted"`) and not followed: from
there on two threads overwrite `m_thread` and `m_worker` without a lock.

### ConnectionIdAllocator

Every operation is under the mutex and one step. A draw of an id is the choice of an unused
one; an acquire that fails changes nothing. `Rebind` is another program binding or freeing
a port. `since` is a history variable: the ports granted since a port last was granted or
not free.

### AutomationEngine, BatchJobs, Scheduler

Commands and the handling of reports are handlers of the GUI thread, written as functions on
what the engine keeps. The workers are lane threads: `PickUp` takes a task of the lane, `Looks` and
`Resumes` are what a worker does at the flags between two nodes, `Ends` posts its one report,
`EngineNext` handles a report. A deleted run whose workers still hold it is kept until the last
report (`DeleteWhenIdle`); a worker's pointer to a run that is gone is what `WorkersKeepTheirRun`
forbids. `Shutdown` waits three seconds for the lane, hence a worker may be left behind.

A job's item function is a chain of commands; of each link `BatchJobs` keeps whether it
observes the token and which answers end the chain. `Scheduler` adds a clock, the schedules in
memory (`sched`) and on disk (`disk`) and `Restart`, an end of the program at any point with a boot after
it; its history variable `started` says which occurrences were served.

### DeviceRegistry, Discovery, NetworkScanner

Two persisted fields of a device are kept, its group and its number, with the dirty set and the
tables. Every write is one that may be refused (`failed`); nothing is promised after that, and
`EveryWriteTaken` ends the exploration there. `Discovery` has the state each endpoint has in the
registry, the connect queue with its fan-out (a setting that changes under way), and a sweep as `Sweep` promises it;
`NetworkScanner` shows that the two threads with their posted calls keep that promise.

## 3. Runs

| Run | Instance | What it shows |
|---|---|---|
| `mirror_lifecycle` | one WiFi phone, two of every command on it, listed as device, unauthorized, in any other state or gone, normalisation on (the default), reconnects (limit 1), reboot; 857,644 states | `StartsAreWatched`, `SessionsAgree`, `StopIsKept`: the service's sets, the core and the operator's Stop never contradict one another; `LeasesAreKept`: only a second `wm size` answer takes the lease of a session; `CoreSpec`: the core is used as it permits |
| `mirror_slots` | three phones, limit 1 or 2 and changing, stop, restart, ports running out, normalisation off; 32,058 states | `SlotsSpec`: the service refines the bounded first-come line; `StartsEnd`, `QueueDrains`: a hung phone never blocks the queue |
| `stop_undone` | one phone, a restart and a stop | violated `StopAlwaysKept`: the 400 ms timer of a Restart starts a device the operator has stopped since |
| `lease_lost` | one phone, stop and restart, normalisation on | violated `SessionsAreLeased`: two `wm size` answers launch a start twice, and the second releases the lease of the core that is starting |
| `core_session` | one start and its restart, four packets, a recording whose file may not open and whose writes may fail, deletion at any point; 547,987 states | `TunnelsAreTaken`, `FramesReachTheScreen`, `RecordingIsComplete`; `EntrySpec` refines `CoreEntry`; `CoreSettles`: every start and every end comes to rest |
| `frames_block` | a screenshot before the first frame | violated `OffersReturn`: `peekRenderedFrame` returns with the mutex locked and the decoder waits for ever |
| `adb_commands` | three commands (one asked for by a callback, one with a token), one worker, cap 1-2 changed twice, stop at any moment; 201,508 states | `PermitsConserved`, `NoLostWakeup`, `Accounted`; under `FairSpec` `CommandsAreAnswered`, `SyncCallsReturn` |
| `fleet_parts` | three components that share nothing, one of them moving at a time: three devices on four ranges of two or three ports from 1 or 2; two devices and two groups with every operation, flush, crash and shutdown; a sweep of three hosts with two sockets, cancellation anywhere; 232,797 states | `LeasesUnique`, `PortsTakeTurns`: no port is granted twice while another stays available; `RegistryIsSaved`, `MembersHaveTheirGroup`; `ScansAreSweeps` (refines `Sweep`, with the liveness of its end); with it the assumptions on the wall, lists, keep-awake, health, the file, ranges and logs |
| `automation` | two runs of two phones, width 1, two threads, three commands, one run kept; 106,387 states | `WorkersKeepTheirRun`, `WorkersAreCounted`, `RunsArePools` (refines `WorkPool`), `StopReachesWorkers`, `RunsEnd`; with it the assumptions on workflows |
| `scheduler` | an interval, a single and an event schedule on one phone, a horizon of 4, one restart; 301,625 states | `OccurrencesAreServedOnce`, `IntervalsAreKept`, `OverlapsAreStopping`: when a schedule goes on to a next run, the workers still out of the last have been told to stop |
| `batch` | two jobs (recordings at width 2, wallpapers at width 1, a push, a direct call) on two phones, two commands per job; 680,865 states | `ItemsAreOut`, `RecordingIsExclusive`, `JobsArePools` (refines `WorkPool`), `JobsEnd` |
| `discovery` | two hosts, one or two connects at a time as the setting changes; 51,924 states | `DiscoveryNeverStalls`: an endpoint waits only while the answer of a connect is due, and the next automatic sweep always comes |

The findings in `PROJECT.json` quote what `frames_block`, `stop_undone` and `lease_lost` contradict.
Every property of a passing run is shown to fail for a mutated definition ("mutants"); the
mutated forms stand in the modules as "Faulty variant".

### Bounds, and why they are enough

- `CommandBound` counts operator commands. Two suffice for each pair that meets (stop
  during restart, reboot during reconnect), three for stop, retry and delete of a run; the
  listings, answers and timers between them are not bounded. `mirror_lifecycle` leaves out the row
  `offline`: like `unauthorized` it clears the recorded adb state and overwrites a Reconnecting,
  and the state Offline it sets is reached by `gone`. The violation runs have only the two commands they need.
- `FlightBound` caps calls of one kind in flight per device. Two are needed to confuse two
  starts.
- One phone is enough for what a device does by itself (its record is only touched by its own
  handlers and by `pump`); three phones on one or two slots give overtaking, idle slots and
  limits lowered under way.
- `ChangeBound` 2 allows a shrink that is undone or deepened; `CallBound` 1 bounds the calls
  of one worker. Three commands exceed the cap of 1 and of 2. Commands are finitely many, so
  starvation by an endless stream is not looked at: semaphore and queue make no promise of it.
- Two and three ports with three devices reach the exhausted pool, and ranges that overlap
  the leases that outlive a change of the range.
- `MaxPackets` 4 fills both frames and the recorder's look-ahead twice; `MaxRestarts` 1 is the
  code's own limit (an `ASSUME` of `MCCoreSession`); one connect per session, as the entry of a second is `CoreEntry`'s.
- Two phones at width 1 make one wait behind the other; `MaxKept` and `MaxJobs` 1 make the trimming
  of finished runs and jobs happen.
- A horizon of 4 holds two occurrences of an interval of 2, a missed one and one after a restart.
- With normalisation on, `SlotsSpec` fails (an answer of an earlier start launches the later one,
  section 5), so `mirror_slots` runs with normalisation off and says nothing of that case, which is
  `lease_lost`; `mirror_lifecycle` has it on.
- `fleet_parts` has one component move at a time: they share no variable, so that every property sees
  the behaviours it would see alone. What it shows of the registry ends with the first refused write.
- Two hosts under a limit of one or two make an endpoint wait, go on waiting when the setting is raised
  (`applySettings` does not pump) and leave both connecting when it is lowered. That somebody waits while more are
  connecting than the limit allows takes a third host, and is covered by the proof.
- The functional modules name their bounds as arguments: numbers of steps, sizes of programs,
  levels and thresholds stand at the assumptions. Four edits on a history of two trim it and contain every pair of
  an edit and its undo with others between them; walls of three tiles with one in view have one in each
  priority; expressions are one clause with every sign, and three clauses joined by each mix of `&&` and `||`.

`CHECK_DEADLOCK FALSE` stands where the program may end or the bounded commands are used up;
each cfg says which.

### Fairness

- `MirrorService!FairSpec` assumes only that an armed start watchdog, a QTimer on the GUI
  thread, fires.
- `AdbExecutor!FairSpec`: the executor thread and the workers run and processes
  end, which the watchdog timer of `launch` and the time limit of `runSync` see to.
- `AutomationEngine!FairSpec`: posted reports and deletions are handled, a free lane thread picks up a
  task, a worker looks at its flags, and (strong fairness, since a pause may come between) a worker
  ends: `executeWorkflow` gives up after 20000 nodes, and every node has a time limit (`Nodes!WaitsEnd`).
- `BatchJobs!FairBatchSpec`: AdbExecutor answers every command (`CommandsAreAnswered`), the
  media lane ends its work, and posted results are handled.
- `CoreSession!FairSpec`: adb processes end, timers fire, threads run; the frame's mutex is fair
  to the decoder in the sense of strong fairness.
- `NetworkScanner!Spec`: both threads run; sockets have a time limit of their own.

Nothing is assumed of the operator, and phones may hang.

### What the assumptions of the functional modules cover

- `Interpreter`: programs of loops, branches, calls and blocks with jumps out of them, two levels deep;
  disabled loop nodes and wiring that is no program are outside (for any wiring `ValidWorkflowsRun`
  still holds: only nodes that exist run). Pause and cancellation are `AutomationEngine`'s.
- `WorkflowScene`: keys rest while a node is held by the mouse.
- `Expression`: texts are opaque, one reference or literal per operand.
- `Nodes`: typing once and before the stop needs a GUI thread that answers within 5 s.
- `AutomationsPage`: AI answers come between questions with fresh ids, one at a time, and the database is healthy.
- `GameInput`: a careful user does not switch the key map with a key held, nor free the mouse
  with a button held; drags have some way to go.
- `NormalInput`: a key's code does not change while it is held (no Shift, Alt or Tab between), US layout excepted.
- `VideoForms`: left button only, no double clicks, nobody joins or is toggled while anything is
  held, the keyboard stays with one window.
- `DeviceWall`: host mode is entered by a double click, nothing else is touched while a button is
  held, and the host's mirror does not end in the instant its tile returns through the filter.
- `DeviceCare`: the policy changes only with no script under way, and no lock screen.
- `Storage`: faults are named (a failing read, a failing commit, a crash); a close is orderly.
- `DeviceOrder`: a filter, a group or a choice that keeps somebody; an import that is not cut short.
- `Logs`: files open, one control center at a time.

## 4. What is proved

All theorems are stated for every set of devices, commands, workers, jobs, caps and ranges, every
length of a stream and every bound that meets the named assumptions of the modules (finite sets,
positive limits, callbacks that do not share their follow-ups, port ranges inside 16 bits). `ServiceIsALine`
assumes `~Normalize` besides: with the wake-up at the start of a session switched on, as it is by default
(farmsettings.h:66), the code breaks it (the phone that is launched twice, `lease_lost`). It says nothing of that case.

**MirrorServiceProofs.** None of the invariants is inductive by itself.

- `MirrorTypeOK`, `MirrorStartsAreWatched`, `MirrorSessionsAgree`, `MirrorStopIsKept`: that the core and
  `m_mirroring` agree after a signal depends on the wish, the operator's mark and the phase of the core
  together. The invariant is `TypeOK`, for every device `Sound` (these relations in one predicate) and
  `Watched` unless `down`. As handlers are functions on one record, each gets a lemma that it keeps
  `Sound`, and `Settle` one for the pump. For `MirrorStopIsKept` a second invariant, `WInv`, has it that a stopped
  device is withdrawn (`Withdrawn`: unwanted and marked) and that only the operator or the timer of a Restart
  changes what he wants; for both settings of the normalisation.
- `QueueIsALine`: a handler runs before the pump, so what it may do there is one relation
  of the old and the new record, `Handled` (it takes no slot, it moves the core's entry as `CoreEntry` permits, ...).
  `HandlePrepared` and a lemma per action show that every action is such a handler followed by `Settle`;
  `SettleLine` says what the pump makes of that. The invariant is `QInv`: the queue and the
  queued devices are the same, each once (`Lined`), and a device waits only while every slot is taken (`NoSlotIdles`).
- `ServiceUsesTheEntry` (`CoreSpec`): a step moves each entry once at most. It needs `NoSlotIdles`: a session may end
  under a device that waits (a doubled launch leaves one), and the pump must not start it in the same step.
- `ServiceIsALine` (`SlotsSpec`): with `Leased`, by which a core that is starting belongs
  to a start under way. The step of the refinement is that the devices that begin are a prefix of the line that the
  handler left, and the rest keeps its order.

**CoreSessionProofs.** `TunnelsAreAlwaysTaken` and `SessionsLiveTheirEntry` (`EntrySpec`) have one lemma per handler of the start: it
`Keeps` a sound record, accounts for each tunnel adb has just made, by the record or by a removal, and moves the entry as
promised. `StartIsSound` says which timers, sockets and flags go with which step. `CoreSpec` and `EntrySpec` together are the
contract between the farm and the core, proved from both sides. `FramesAlwaysReachTheScreen` adds to the property what the two slots
hold while the demuxer has one (`FramesInv`). `RecordingsAreComplete` rests on `RunSound`: the packets the recorder took are those it has written,
the one in hand, then its queue. It covers the writes that fail: `m_failed` gives up the promise, and the write after the
stop, which the code only warns of (recorder.cpp:263-269), takes the last packet from it and no other. What the data of a sequence are (`DataIn`) is a recursive function, and that it exists is proved by
well-founded induction.

**AdbExecutorProofs.** `AdbTypeOK` with `HandOK` (the executor holds a command exactly in the
states between taking and answering it); `AdbNoLostWakeup`, inductive over `TypeOK` and
`HandOK`; `AdbAccounted`, over `Followed` (a follow-up is asked for only once its parent
is answered) and `Undrained` (nothing is drained before `cancelAll`); and
`AdbPermitsConserved`, which needs `Accounted` to know that a command launched is
not running already, so that the count of held permits goes up by one.

**ConnectionIdAllocatorProofs.** `LeasesAreTyped` (the hint stays in the pool, by the modulo) and
`LeasesStayUnique`, inductive together. `PortsAlwaysTakeTurns` is an action property; its invariant `Turns` puts every port that was granted
since `q` was free behind `q` in the search from the hint (`Ahead`), which a grant, a change of the range and a
port lost to another program all keep.

**AutomationEngineProofs.** `WorkersAreAlwaysCounted`, `WorkersAlwaysKeepTheirRun`, `StopsReachWorkers`. The invariant,
`AutomationInv`, speaks of pairs of a run and a device: those at work (in the lane, on a thread, in the inbox, each once) are in
progress in the engine, and until the shutdown no others are; `EngineOK` adds that a run counts its devices in progress, that a
listed run is not removed and that a doomed one counts none. A handler `Leads` from one state of the engine to another: the pairs
that end are those of the report it takes, and those that begin are handed to the lane, each once. Each part of a handler has a
lemma of that form (`DispatchLeads`, `FinishedLeads`, `StartLeads`, ...), the parts are joined by `LeadsOn`, and `Handled`
turns it into the step. On the way are lemmas about sequences: what `Kept` keeps, although it is a recursive function, and that what `start`
leaves of its list is a beginning of it (`Beginning`).

**BatchJobsProofs.** `ItemsAreAlwaysOut`, `RecordingsAreExclusive`: the invariant `BInv` has sets of one member where the properties count,
ties each call to a link its chain has and each posted result to a job that is kept. A handler of a job ends some items and
begins others, each as a new attempt (`Moves`); what that does to calls and results is one lemma (`JobKeeps`). A call of
a deleted job goes on, and still holds the recording's mark.

**DeviceRegistryProofs.** `NumbersAreFree` is the lemma about `autoNumber`: a pigeonhole, since among the first `n` numbers at most as
many are taken as devices have one. On it rests `ListingsNumberEverybody`: whatever numbers the pages have set, negative ones included, a listing
leaves nobody without a positive number and gives none that is in use. `RegistryAlwaysSaved` and `MembersAlwaysHaveTheirGroup` follow from an invariant
by which the groups in memory and in the table agree while every write was taken, and that a device outside the table has no group there.

**DiscoveryProofs.** `DiscoveryNeverStallsEver`, with `ConnectsAreBounded`, while the limit of connects changes under way: an endpoint waits
once and not while it is being connected, so that as many as leave the queue join those under way. The limit is one at the
moment connects begin (`Fits`); a limit that was lowered since leaves more, and one that was raised leaves endpoints
waiting beside room until the next answer, which always is due.

Only model-checked:

- The liveness properties `StartsEnd`, `QueueDrains`, `CommandsAreAnswered`, `SyncCallsReturn`, `RunsEnd`, `JobsEnd`,
  `CoreSettles` and the one inside `ScansAreSweeps`: they are beyond the prover.
- The refinements `RunsArePools`, `JobsArePools` and `ScansAreSweeps`: their steps are not yet proved.
- The properties of `Scheduler`, which stands on `AutomationEngine`.
- The functional modules: they explore with RECURSIVE operators, which the proof system does not take.

## 5. Remarks from modelling that no run states

What the code does and one might not expect; each was met while translating it. Where a model
can show it, an assumption named `...Gaps` (or `KeysCanBeLeft`, `CarelessMice`) does.

Devices and the core

- Two `wm size` answers launch one phone twice (`lease_lost`); the second launch finds the entry taken, releases the lease of
  the core that starts and may queue a phone whose session lives (deviceservice.cpp:343); after a watchdog the null entry refuses every later start
  (devicemanage.cpp:77); Mirror on a listed USB phone in state Error does nothing
  (deviceservice.cpp:233-234).
- The limit of connects, raised, does not start those that wait: `applySettings` does not pump
  (devicediscoveryservice.cpp:51-64), though the page says that changes apply immediately (settingspage.cpp:107, 206).
- The inspector saves any number, negative ones too (deviceinspector.cpp:98-106), and the next listing replaces them.
- The 3 s header timer may fire after `serverStoped` and use a null `m_server` (server.cpp:57).
- A recorder whose `open()` failed is started all the same and uses a null muxer (`MuxerCrash`); a last packet that cannot be
  written is only warned of, and the recording counts as complete without it; the last
  config packet is written as a frame, and a recording of one frame has an offset
  of its own (recorder.cpp:262); the comment at recorder.cpp:335 ("this will stop the stream") is not true.
- The registry's snapshot for workers is not kept in step by `renameGroup` and `deleteGroup`
  (deviceregistry.h:109); after `deleteGroup` an order number may be used twice; `saveAll` clears
  `m_dirty` before it knows the outcome; `importLegacyGroups` cut short loses members.
- An empty subset means all (deviceregistry.cpp:537, 637; workflowengine.cpp:1544;
  devicespage.cpp:730): a filter that keeps nobody shows every phone, "all online" with nobody
  online is every device, a run for an empty group targets all online phones, and "No online target
  devices" cannot be reached.
- docs/DEVICE_DISCOVERY.md:36 reserves Connecting for DeviceService; discovery sets it too
  (devicediscoveryservice.cpp:346). :39 has known endpoints "never re-`adb connect`ed", but a
  queued endpoint is not looked at again. `m_scanReportPending` may be stale (306-312, 372).
- `Range::count` wraps to 0 for all addresses (ipv4.h:39).
- Keep-awake: answers of two scripts may cross; "Display off" is never reset (keepawakemanager.cpp:214);
  Failed becomes "Awake but locked" and then "Active" without a look (212-215, though the header says
  "never assumed"); "Off" is set without looking (141-145); late answers insert a status for a
  removed device; "inherit" and `assignGroup` do not apply the policy (groupspage.cpp:331).
  Health: `m_inFlight` outlives a device removed and added again; `batteryBelow` fires with level -1
  when the threshold is raised. Both reconnect their signals on a restart, as PerfMonitor does.

adb and jobs

- adbexecutor.h:57-58 speaks of a per-serial fairness rule; the code has one FIFO queue for all
  serials and no such rule.
- A permit escapes a cap that was lowered (adbexecutor.cpp:89-90 against 211), and a callback may restart the
  executor that stops (124-125 against 188).
- A command between `pump` and `launch` when `cancelAll` looks is in neither of its lists: it is
  launched and dies with `m_worker`; its permit does not come back, and a worker blocked in
  `runSync` at that moment waits on.

Automation

- A disabled loop node, labelled "Disabled (skipped)" (workfloweditor.cpp:1093), runs its body once and
  skips `done` (workflowengine.cpp:831-840); a jump out of a loop's body leaves its frame (870, 874);
  `onFailure` "stop" behaves like "fail". docs/AUTOMATION.md:49-51 gives every node `timeoutMs`, which only
  `adb.shell` and `adb.exec` look at.
- `input.text` is typed twice when the GUI thread answers after 5 s or after a Stop (321-342);
  `app.isForeground` and `file.exists` answer "false" when their command fails (409-410, 605-607); a wait
  does not see a cancellation within `msleep(interval)`; `app.waitFor` with a timeout of 0 never looks;
  fraction 1.0 lies one pixel past the edge and pixel 1 is taken for a fraction (135-153); `adb.shell` saves its
  variable even when it fails.
- Stop of a run with devices queued and nobody running leaves `automationRunning` set (1251). "Never stack runs" (scheduler.cpp:381) looks at
  the status of the schedule's last run: its next run may overlap the workers of a stopped one, or an older run that was retried; `OverlapsAreStopping` says what is left.
- Expressions: `&&` binds tighter than `||`, expression.h says "left to right"; both split inside quotes;
  `!x == y` is not negated; an unset value compared with a number is true for `<`; `==` of numbers above
  10^12 is fuzzy (expression.cpp:155); all lists are equal; `==` of texts ignores case and `<=` does not; `<` over mixed
  values has cycles.
- Automations page: a question that is open while an AI answer comes may delete another workflow than it
  names (automationspage.cpp:421-431, 531-565) or leave `m_currentId` and the editor apart (375-398); an AI
  workflow that carries an id overwrites a stored row (aiprovider.cpp:167; the import resets ids, 456); `openWorkflow`
  marks clean whatever the save said (362-370); an unreadable row opens as an empty workflow that a
  save writes over it (324-336); closing the main window drops edits unasked (farmmainwindow.cpp:359-366).
- Editor: Delete or Undo may take a node the mouse holds (workfloweditor.cpp:432-456, 653-671); a second Start node
  cannot be deleted (446); pasting only a Start node pushes a step of undo. `MacroRecorder::record()` has no
  caller, so the recorder is never fed (docs/AUTOMATION.md:103-105, focuspanel.h:36).

Input and windows

- Key map: fingers stay when the map is switched off with a key held or within 60 ms of small
  eyes, when the mouse is freed with a button held, or after a drag shorter than 0.01 (inputconvertgame.cpp:444);
  `switchMap` pressed twice without mouse look pushes a cursor nothing restores (393-396, 703); the
  `Q_ASSERT(0)` of `sendTouchEvent` can be reached.
- Keys whose code changes with Shift, Alt or Tab while held stay down (inputconvertnormal.cpp:236-239).
- Clipboard: devicemsg.cpp:45 reads a length of 16 bits where devicemsg.h:6-7 has 4 bytes, and the text is the rest of the
  buffer (51); `setSetClipboardMsgData` leaves paste and sequence unset for an empty text (78-81), and
  `requestDeviceClipboard` sends an unset copyKey (controller.cpp:153-160); a text cut inside a surrogate pair ends in "?".
  The comment at controlmsg.cpp:36 ("2 byte") is on a `write32`.
- Phone windows: the second press of a double click is not sent; right and middle click send UP
  without DOWN, and a right double click sends BACK_OR_SCREEN_ON with UP always (videoform.cpp:676); a host that goes or is
  toggled while something is held leaves fingers and keys on the followers; `screenshot`, `showTouch` and
  `postRotate` are not told to observers; `isHost` and `getFrameSize` use a pointer before they look
  at it (groupcontroller.cpp:13, 23); `dropEvent` uses its device after a question (videoform.cpp:820-844); shortcuts swallow a
  press but not its release; the right and bottom edge are positions outside the frame.
- Wall: a double click or a right or middle release sends UP without DOWN (devicetile.cpp:396-420); targets that change
  between press and release, or a pressed tile whose mirror ends (126-136), leave fingers; a host panel
  opened before the mirror starts never registers (focuspanel.cpp:204-219); a tile that comes back through the filter shows
  the replayed frame only in some orders (devicespage.cpp:675-682, devicegrid.cpp:202-205); the followers of Control All are those of the last
  selection change (devicespage.cpp:511-515, 872-885); a change of a tile's height schedules no layout
  (devicetile.cpp:364-370); the list view maps selection by row (devicespage.cpp:566-590, 743-755).

Storage and logs

- `migrate` ignores `db.commit()` (database.cpp:323); an unreadable `schema_version` counts as 0 and
  downgrades a newer file (277-282); a crash while seeding leaves part of the commands, and a failed read or a
  second process seeds twice (repositories.cpp:309-355); `backupTo` removes its destination first and returns true
  when the checkpoint was busy (353-367); `close()` with a worker inside `connection()` leaves a connection
  registered; `save` of a removed command or template reports success; job runs, job logs and activity are never pruned;
  the row of a run stays "running" after a crash.
- A log that does not reopen after a rotation ends silently (farmlog.cpp, `rotateIfNeeded`). A second
  control center on the same data reports the first as crashed, and its clean end removes the first's marker. The
  Activity page's rows are not bounded as the log is, and entries of several threads stand in the order of their arrival.

## 6. Plan

The state machines are there, and so are the proofs of all that is not named here:

1. The steps of `RunsArePools` and `JobsArePools`, over `AutomationInv` and `BInv`, and the safety part of `ScansAreSweeps`.
2. `Scheduler`: `OccurrencesAreServedOnce`, `IntervalsAreKept`.

## 7. What the models leave out inside modelled components

- `MirrorService`: quality profiles and statistics; `connectDevice`, which nothing calls; commands on lists and
  on all devices are sequences of single ones; the `Busy` state and `DeviceRegistry::remove`; the cap on concurrent
  `adb connect`s (in `Discovery`); DM_MAX_DEVICES_NUM. The lease is a boolean there: the pool of 2000 ports exceeds the
  devices, and `PortsRunOut` stands for ports that cannot be bound.
- `CoreSession`: pixels, time stamps and durations; `getFreePort`. An adb command
  that crashes counts as failed once.
- `AdbExecutor`: metrics, arguments and output; `cancel` of one command (only `cancelAll` calls it).
- `ConnectionIdAllocator`: `setProbeBinding(false)`, which only tests use.
- `AutomationEngine`: what a worker does between two looks at its flags is `Interpreter` and `Nodes`; the rows of
  runs in the database. `BatchJobs`: names, progress, times. `Scheduler`: weekdays, months and local time, which
  are an interval here.
- `DeviceRegistry`: fields other than group and number, which are saved with them; the snapshot for workers.
  `Discovery`: the ARP table and known endpoints are hosts like the others. `NetworkScanner`: the two ways a
  socket fails.
- The pages and the editor: layout, painting, menus, wording, and dialogs beyond their answer.
- `GameInput`, `NormalInput`, `VideoForms`: positions are a few points, Android's key codes are opaque.
- `Storage`: columns and queries; the tables that are read and written row by row. `Logs`: levels, format and the hook for Qt's messages.

## 8. Not modelled, and why

- Key map files, adb output, workflow files and UI trees are parsed by stateless code the repository unit-tests;
  image matching, OCR and AI calls are libraries and services of which the models keep the outcome.
- AppContext is a fixed order of starts and stops, settings are values the models take as constants or choose
  freely, the performance monitor samples counters, and the mock provider stands in for devices in tests and demos.
- Other dialogs and pages only issue operations the models quantify over. The file handler does one `adb push` at a time.
- Audio, installers, helper apps, ffmpeg, the adb binaries and the generated tables of key codes are not the farm's own logic.
