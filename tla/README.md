# WatchCore-RT: a verification project in TLA+

WatchCore-RT is a satellite health monitor: a FreeRTOS program in C that runs
one simulated spacecraft per process (`src/src`, `src/include`), and a
TypeScript ground station that starts a constellation of those processes,
collects their telemetry and serves a dashboard (`src/web`). This directory
holds TLA+ modules translated from that code, the TLC configurations that check
them on small instances, and TLAPS proofs about them for every value of their
constants. `PROJECT.json` ties each definition to the lines it stands for, each
property to a run and to a mutant that breaks it, and each hazard of the code to
the properties that watch it.

Run a check with `tlc -workers 2 -config wd_core.cfg MCWatchdog` and a proof
with `tlapm WatchdogProofs.tla`.

## 1. Inventory

### The craft (C, one process per spacecraft)

| Part | State it keeps | Operations | Talks to |
|---|---|---|---|
| Watchdog (`watchdog.c`) | table of slots (last heartbeat, attempts, active, restart spec), mutex, lazily started timer | register, heartbeat, 1 s timer callback | monitors call it; deletes and re-creates their tasks; sets TASK_HANG and the mode |
| Monitoring tasks (`monitoring_tasks.c`) | samples, CommWatch's streak, two bus mutexes | one loop per task | heartbeat; telemetry queues; raise and clear faults |
| Event manager (`event_manager.c`) | the fault event group, the mask it saw last, the published snapshot | drain samples, react to a changed mask | state machine, recoveries |
| State machine (`system_state.c`) | `currentMode`, `s_powerSaving` | SetMode, SetPowerSaving, ProcessEvent | called by four tasks without a lock |
| Recovery tasks (`emergency_tasks.c`) | one handle per fault | spawn if none in flight; mitigate, clear the fault, delete itself | power tokens, event group |
| Power manager (`power_manager.c`) | counting semaphore of 3 tokens | acquire with 2 s timeout, release | recoveries |
| Safety manager (`safety_manager.c`) | score, `s_loadShed` | every 2 s: escalate, shed or restore load | state machine; suspends Diag and Bench |
| Flight recorder (`flight_recorder.c`) | ring of records, two counters, a mutex | Record (never blocks), Dump | every `Log_Event`; `/api/blackbox` |
| Command processor (`command_processor.c`) | message buffer, a notification, two counters | Submit (by two tasks), the loop that executes | event group, mode, log |
| Telemetry server (`telemetry_server.c`) | listening socket, four client slots, the log queue it drains | accept and dispatch, clean up, broadcast, sleep | clients, Submit, every module's snapshot |
| Fault injector (`fault_injection.c`) | a counter | submits pings and requests for diagnostics, raises faults | Submit, event group |
| Logging, data logger, diagnostics, benchmarks, power model, IPC, clock | counters, buffers | – | – |

### The ground station (TypeScript, one Node process)

| Part | State it keeps | Operations | Talks to |
|---|---|---|---|
| Process manager (`swarm.ts`, restart route of `index.ts`) | one runtime per craft: child process and status | spawn, kill, restart = kill + 800 ms timer, exit handler | the operating system |
| Ingest (`ingest.ts`) | one EventSource per craft, backoff; per craft the number of frames | open, error; a frame goes to the bus, the database, the correlation, the detector and the recovery engine, in that order; a log line to the bus and the database | a craft's port; all of the below |
| Relay (`relay.ts`) | latest frame per craft, published links | recompute on every frame | frame bus, event log |
| Recovery engine (`recovery.ts`) | per craft: last mask, time of its last change, time it has been in SAFE | clear the soft faults of a mask that stays for 12 s; ask for a benchmark after 30 s of SAFE | a craft's `/api/fault` and `/api/bench`, unawaited; the database |
| Anomaly detector (`anomaly.ts`), correlation (`correlation.ts`) | sliding windows of samples per craft | judge every sample of a frame; answer a query | database, anomaly bus |
| Database (`db.ts`), report (`report.ts`) | four tables | insert, newest rows of a craft, the report of the fleet | SQLite, synchronously: an insert that fails throws |
| Narrator (`narrate.ts`) | mode, faults and last alerts it has told of | lines for frames, logs, anomalies | the terminal |
| REST and WebSocket API (`index.ts`) | the connected dashboards | proxies to the craft; hello, every event of the bus, the statuses every second | dashboards |

### The dashboard (TypeScript, React)

| Part | State it keeps | Operations | Talks to |
|---|---|---|---|
| Live link (`connectLive` of `store.ts`) | the one socket, the reconnect delay | connect, open, message, close, reconnect timer | the WebSocket |
| Store (`store.ts`) | last frame, health and trend per craft, logs, anomalies, links | one branch of `onmessage` per kind of message | the pages |
| Pills (`detectNotifications`, `pushToast`) | last mode and faults, faults of the episode per craft; the pills and their timers | a pill for trouble, a pill when it is over; dismissal | `Toasts` |
| Scenario console (`Simulate.tsx`) | the running scenario and `cancelRef`, per mount of the page | launch, abort, inject, restart, clear all | the REST API |
| Pages and components | a selected craft | what they say of a mode, its faults, its health | the store |

### What is hard here

* **Fixed priorities and no locks.** EventMgr (3), SafetyMgr (4), the recovery
  tasks (5, then 6, then 1) and the timer task (6) share the event group, the
  mode and the handles. A recovery drops to the *lowest* priority before it
  forgets its handle and clears its fault, so everybody else may run in between.
* **A mutex that may be taken.** A heartbeat that finds the watchdog mutex busy
  is dropped; a log line that finds the recorder busy is dropped; the callback
  deletes tasks wherever they stand, also in a critical section, and reads its clock
  before it waits for the mutex.
* **Copies that age.** EventMgr reacts to a difference from what it saw last;
  SafetyMgr works on a mode and a mask it read before two log calls.
* **Processes that end late.** A restart sends a signal and arms a timer; the
  exit arrives before or after the timer, restarts overlap, and Windows lets two
  processes listen on the port of a craft.
* **Two writers, one buffer.** TelemSrv and FaultInj have the same priority and
  both submit commands to a message buffer that is made for one writer; CmdProc,
  above them, sleeps on a notification that is given after the command is in.
* **Connections that are gone but not noticed.** A client that reconnects competes
  for the four slots with its own dead connections, which the server discovers at
  its next peek or send; a failed send logs a line, which is itself broadcast.
* **Answers that promise nothing.** `/api/fault` answers ok whether or not the command
  got into the buffer; it may be refused, lost, or executed much later.
* **Requests nobody waits for.** The clear of the recovery engine is sent and
  forgotten: it may arrive when its fault has gone and come back. Its clock measures
  how long the *whole mask* has been the same, not one fault.
* **A handler that may stop half-way.** Every row is written synchronously in the
  middle of the handler of a frame; a statement that fails leaves what comes before
  it done and what comes after it undone, in the windows, the tables and on the bus.
* **Awaits that fail.** A step of a scenario awaits its calls together or in turn;
  one that throws leaves the others adrift or unsent. The page may be left, and
  opened again, while its scenario runs.
* **A page that connects more than once.** React's StrictMode runs the effect twice,
  sockets are refused or cut with messages under way, timers open new ones, and the
  pills must still tell one story of each craft.
* **Limits.** Three tokens, three restarts, a ring of 32 records, counters of 32
  bits, queues and a message buffer that drop when full.

What makes each part correct is stated as properties in section 4; the hazards
found, each at its line, are listed in `PROJECT.json`.

## 2. Modules

```
  Watchdog <- MCWatchdog, WatchdogProofs

  CraftState <- EmergencyTasks <- EventManager \
  CraftState <---------------- SafetyManager   -> FaultManagement <- MCFaultManagement,
  PowerBudget (abstract) ...INSTANCE in ......./                     FaultManagementProofs

  Swarm \
  Relay  -> GroundStation <- MCGroundStation, GroundStationProofs

  CommandProcessor \
  ClientSlots       -> TelemetryServer <- MCTelemetryServer, TelemetryServerProofs

  FlightRecorder <- MCFlightRecorder, FlightRecorderProofs

  RestApi <- Recovery \
  RestApi <- Simulate  -> MissionLoop <- MCMissionLoop, MissionLoopProofs

  Anomaly <- Correlation, Narrator \
  Database                          -> Ingest <- MCIngest, IngestProofs

  Notifications <- DashboardStore \
  Views                            -> LiveLink <- MCLiveLink, LiveLinkProofs
```

**Watchdog** models `watchdog.c`, the loops that feed it and the operator's
freeze and unfreeze. Time is discrete, one unit a second. `Advance` moves the
clock only when no task can run and the callback is done; within one instant the
tasks interleave freely, because a heartbeat that starts just before a tick is
preempted half way. `BeatLock` / `BeatRecord` / `BeatSkip` are the take with
timeout 0, the update with the give, and the dropped beat; `Sleep` is
`vTaskDelayUntil`, whose next wake time is counted from the previous one, so an
unfrozen task runs late and then early again. The callback is `ScanRead` (it reads
the clock), `ScanStart` (it gets the mutex) or `ScanGiveUp` (it does not), `ScanSlot`
and `ScanEnd`: it walks over the slots, blocking in `Log_Event` between them, and
`Restart`, `LogOnly` and `Abandon` are its three branches. A beat recorded between
`ScanRead` and `ScanStart` may be later than the clock that was read; `ahead` has the
slots of those, whose unsigned difference wraps around and looks like a long silence.
`Freeze` may happen at any point, the critical section included; `lockFrozen` remembers
whether that has happened, because the promises of detection and accuracy end there.
A restart that cannot create its task is not modelled: the
malloc-failed hook of `main.c` never returns.

**CraftState** declares what the fault-handling tasks share, and the scheduler:
`CanRun(p)` holds when no task above priority p is ready, and every action of a
task at priority p has it as a guard. With `LogContended`, a task inside
`Log_Event` counts as blocked and lower priorities run. `TargetMode` is
`StateMachine_ProcessEvent`. **EmergencyTasks** is a recovery's whole life,
`RecStart` to `RecClear`, one action between any two points at which another
task can see a difference. **EventManager** and **SafetyManager** are one loop
each, cut at the same kind of points; `ev.last` is `lastBits`, `sm.faults` and
`sm.mode` are the copies SafetyMgr made at the start of its cycle.
**FaultManagement** composes them with the watchdog's two writes, the commands
and the battery, which it takes as a level against the thresholds of
`config.h`. **PowerBudget** is the abstract specification of the tokens: at most
so many users at once.

**CommandProcessor** is `CommandProcessor_Submit` and the loop of CmdProc. A send
reads the head (`SubmitBegin`), copies and publishes (`SubmitEnd`), and its caller
then notifies (`SubmitNotify`); what the bytes may be after two sends have
overlapped is `Result`. None of these steps happens while CmdProc, which has the
higher priority, is ready. `Suspend` and `Resume` are those of the API, of any task by
its name: CmdProc, FaultInj in the middle of a send, or TelemSrv itself, which is then the
last thing it does, since only TelemSrv takes requests. `Resume` includes what FreeRTOS does
to a task that was waiting when it was suspended: its wait ends without a notification. (The
freeze of a monitor is in Watchdog.)
**ClientSlots** is the backlog, the slots and the log queue; a connection is a
client and whether that client is still there, which the server learns at `CleanUp`
or at a failed send of `Broadcast`. **TelemetryServer** is the loop of TelemSrv over
both: `AcceptStream`, `AcceptFault`, `AcceptSuspend` and `AcceptOther` are the
requests it dispatches on, then `CleanSlots`, `BroadcastFrame`, `BroadcastLog` until
the queue is empty, and the delay.

**FlightRecorder** splits a record into two fields filled one after the other, so
that a record seen half way would show, and lets a writer be deleted at every
point. `head` and `total` wrap at `Wrap`.

**Swarm** is `swarm.ts` with the restart route. The flag `killed` of a Node child
process is modelled by the state of the process: a delivered signal sets it, an
exit does not. **Relay** is `relay.ts`; a frame is the condition it shows, and
`HealthOf` gives the number `healthOf` computes for it; the loop of `recompute` is the
recursive function `BestOfFirst`, as that of `analyzeFrame` is `FoundUpTo`. **GroundStation** adds
the ports and the feed of `ingest.ts`. Process ends, port releases and reconnects
are separate steps, and a connection made while two processes listen reaches
either of them.

**RestApi** is the way of a command from the dashboard through the proxies of
`index.ts` to a craft: a request in flight is a record that says who waits for it,
and `Commanded` is what its execution does to the faults of the craft.
**Recovery** is `recoveryLoop`, one step for each frame, with its two memories kept
as ages; a row that is refused ends it behind the first clear. **Simulate** is the
console: `Script` has the four scenarios, `BeginStep` / `CallReturns` / `CallThrows` /
`Wake` are what `runScenario` does at its awaits, and a mount of the page has a
`running` and a `cancelRef` of its own, while its loop goes on when the page is left.
**MissionLoop** closes the loop: faults come and go on the craft, frames show them to
the engine, and a request is executed at any time after it was sent (`Reach`), answered
without being executed (`Miss`: the craft is not there and the proxy says 500, or the
command buffer refuses or loses the command and the craft says ok), answered before it is
executed (`Late`: CmdProc is suspended), or it throws (`Reject`). A frame may also be
broadcast and stored half-way and never get to the engine (`FrameDropped`).

**Anomaly** is `analyzeFrame`. Samples are whole tenths and a z-score is compared by
its square, so that every judgement is exact. **Correlation** keeps the samples of
a craft; `Strong` asks whether the square of a coefficient reaches 0.36 without
computing it. **Database** has the tables, the inserts and the queries with their
ORDER BY and LIMIT, and the report made of them; the answer to a query is stated by
the place a row has in it (`UpTo`), of rows with the same key the last one first. **Narrator** says which lines a
message makes it print. **Ingest** composes them into the handler of `ingest.ts`:
`FrameArrives` is the whole handler but for the recovery engine, which is called last
and has MissionLoop; the database takes any number of the rows of a handler, and when
it does not take all of them the handler ends there.

**Notifications** is `detectNotifications` with `pushToast`, the timers and the
button of a pill. **DashboardStore** is the rest of the store, an action for every
branch of `onmessage`. **Views** is what the pages say of a frame: the words and
colours of a mode (five places decide for themselves), the ribbon, the halo, the
badges, the figures of the fleet. **LiveLink** puts the sockets in between: the
fan-out to those that are served, `Accept` with its hello, `Cut` with a prefix of the
messages still arriving, `Refuse`, and connectLive as called by the effect (`Mount`,
twice) and by the timer (`Reconnect`).

## 3. Assumptions

Named ASSUMEs, in the module that declares the constants; each is evaluated by
every run of that module.

* `WatchdogAssumption`, `CraftAssumption`, `EnvironmentAssumption`,
  `CommandAssumption`, `SlotsAssumption`, `ServerAssumption`,
  `RecorderAssumption`, `SwarmAssumption`, `RelayAssumption`,
  `GroundAssumption`, `RestAssumption`, `RecoveryAssumption`, `MissionAssumption`,
  `CorrelationAssumption`, `DatabaseAssumption`, `IngestAssumption`, `LiveAssumption`:
  types, that names differ (of craft, metrics, mounts and who else waits for a call),
  that lists have room for an entry, and that the craft of a fleet are finitely many.
* `SomebodyBeats`: some unregistered task beats at start-up, which starts the
  lazy timer. SafetyMgr does, before every monitor.
* `RecorderAssumption` includes `Wrap % Capacity = 0`: 2^32 is a multiple of 32.
* `AnomalyAssumption` relates the constants of the detector: one outlier after
  `Warmup` equal samples can reach the limit of a HIGH anomaly. With n equal samples
  before it, an outlier has a z-score of n / sqrt(n + 1); the code's 12 samples give
  3.33 for its limit of 3.0. It also asks that a window be longer than the warm-up
  (60 and 12 in the code).
* `InsightIsSeen` (MCIngest) compares `Insight` with a reference over all short
  series of samples: what is said to drain the battery does move against it.
No theorem has a hypothesis of its own: what is proved is proved for all constants that
satisfy these assumptions.

## 4. Runs

| Run | Instance | Result |
|---|---|---|
| `wd_core` | CpuMon (1 s, no restart spec), HeapMon (5 s), PwrMgr (2 s) unregistered; timeout 7, one restart, one lost beat in a row, a freeze of HeapMon at any point | `MutexConsistent`, `JudgedForCause`, `DetectionBound`, `RestartBudget`, `FrozenIsHandled`, `WatchGoesOn` hold |
| `fm_core` | HIGH_TEMP, COMM_TIMEOUT and TASK_HANG, one token, contended log, faults that come back at once, a watchdog | `SingleMitigation`, `TokensConserved`, `PowerBudgetKept` hold |
| `fm_settle` | LOW_BATTERY from the sensor, TASK_HANG from the watchdog, which writes mode and bits at any moment; contended log, escalation at 2, load shedding, faults that come back at once | `FaultsRecover` holds |
| `fm_mild` | LOW_BATTERY from the sensor, an uncontended log, no watchdog | `NeverUnderstated` violated |
| `gs_core` | three craft, one of which is restarted twice and dies once; all conditions but "serious" | `OneProcess`, `StatusTruthful`, `KillIsFollowed`, `HealthiestRelays`, `TelemetryReturns` hold |
| `cs_core` | two commands of TelemSrv and one of FaultInj, room for two; each of the three tasks suspended and resumed anywhere; one client, one slot, one departure, a log queue of one line | `ExecutedInOrder`, `NoLostWakeup`, `SlotsConsistent`, `ClientIsServed`, `CommandsDrain` hold |
| `cs_race` | both writers with a command each, room for two, a client that stays | `AcceptedIsExecuted` violated |
| `fr_core` | two writers, a reader, ring of 3, counters modulo 6, 8 records | `OneInside`, `DumpIsNewest` hold |
| `rc_core` | one craft with the soft faults COMM and QUEUE, which come and go by themselves; stale after 1 unit, SAFE for too long at once; a request that is not executed or late, a failure of the database at any row, an order of the operator | `OnlyStaleCleared`, `StaleIsCleared` hold |
| `sc_core` | stress test, comms blackout and watchdog drill; the page is opened twice, two launches, one call that is not executed, late or rejected | `ScenarioEnds` holds |
| `an_core` | one craft, CPU and battery, windows of 3, warm-up of 2, four messages of three shapes and three kinds of line, one refusal, one restart, tables that start empty | `FirstMoveIsHigh`, `OnRecord`, `ReportIsFresh` hold |
| `live_core` | one craft with frames of four shapes, four broadcasts, one of another kind, one socket cut or refused, one pill closed by hand, two pills and rings of two | `ScreenIsTrue`, `FixedIsTold`, `LiveAgain` hold |

The passing runs also check the `TypeOK` of their module (`fm_core` for `fm_settle`,
`sc_core` for `rc_core`). Where a `TypeOK` has more than types, its comment says so:
that of LiveLink contains `OneConnection`, that of Ingest that the windows of a craft
stay in step.

### Bounds

* `WdTimeout = 7`, `WdTickPeriod = 1` and the periods are those of the code, in
  seconds: the fastest monitor and the slowest, one without and one with a restart spec.
  `ElapsedBound` makes a longer silence equal to the first one beyond
  every deadline. `MaxRestarts = 1` in the passing runs reaches restart, budget
  exhausted and abandonment; the code's 3 repeats the first. `SkipBound` bounds
  the beats lost in a row by one task, `FreezeBound` the freezes of one
  incarnation.
* `EscalateAt` is 3 in the code; 2 and 9 make the escalation reachable, or
  impossible, with few faults. `TokenCount = 1` makes two recoveries compete, as
  four do for the code's 3. `Instances` has two names: a recovery of the same
  fault that is about to end, and its successor; `RecForget` keeps a third out.
* `cs_core`: one client stands for the feed of the ground station, the one program
  that reconnects; leaving once, it finds the one slot taken by its own dead
  connection, as it finds the code's four taken by four. Three commands for room for
  two give two pending ones, in either order of their senders, a full buffer, a refusal
  and the wrap-around. `OvertakenOnce` bounds how often one send is overtaken. The log
  queue fills at one line. TelemSrv takes less time for a line than the others for
  a new one, so that nobody logs while it drains (`Log`); its own failed sends do.
  Deadlock is not checked there: a server that was asked to suspend itself stops, and
  when the others have nothing left to do, so does everything.
* `Capacity = 3`, `Wrap = 6`, `MaxRecords = 8`: the ring wraps twice and the
  counters once.
* Three processes per craft: the current one, a predecessor that has not ended,
  and one to come. Two requests give two timers for one kill; one death gives a
  timer for a process that is not there. Only one craft moves, the others are
  there for the relay, and the property of one craft does not depend on another.
* `rc_core`: the engine keeps a memory for each craft and none across craft, so that
  one is enough; two faults, because the clock that matters restarts when the *other*
  one changes. An age above its limit is kept as the limit plus one, which is all
  that is ever asked of it; a limit of 1 has the three cases (new, old, too old). A
  lost clear needs a second one and thus the throttle.
* `sc_core`: the stress test is the scenario with calls in turn, the blackout the one
  with calls together, the drill the one with a single call; the cascade has no other
  kind of step. Two mounts give a scenario that goes on behind a page that was left and
  a second one beside it. One call that is not executed, late or rejected, at any of the calls.
* `an_core`: warm-up 2 and window 3 reach the first judgement, the first shift of a
  window and a judgement after it within four frames; a message of four may be a line
  of the log. A report shows two rows of a table, so that a third is left out. The
  limits of a z-score are scaled so that `AnomalyAssumption` holds for the shorter
  windows.
* `live_core`: four broadcasts are trouble, more trouble, its end, and one before or
  after it that goes to another socket; one cut is any socket at any moment with any
  prefix of its queue. Craft share nothing but the list of pills; that a pill of one
  craft pushes out that of another is the case of two pills of one craft.

### Fairness

* Watchdog: weak fairness of each task's beat, of the callback and of the clock.
  A ready task keeps being ready until it runs; nothing obliges the operator.
* Fault management: strong fairness of EventMgr, SafetyMgr and each recovery.
  They are ready again and again, but a higher priority may interrupt them
  whenever they are; each task above them sleeps after every iteration, so the
  processor is theirs infinitely often. Nothing obliges operator, injector,
  sensor, battery or watchdog. `FaultsRecover` speaks of a fault that EventMgr has
  not seen yet (`f \notin ev.last`): one that comes back before EventMgr saw it gone is
  never noticed, which is what `fm_mild` shows.
* Command path and slots: weak fairness of CmdProc, which has the higher priority,
  and of a client that wants its stream; strong fairness of TelemSrv and FaultInj,
  which share a priority and are interrupted by CmdProc again and again. Nothing
  obliges anybody to request, log, suspend or resume, so that `ClientIsServed` excepts
  a suspended server and `CommandsDrain` a suspended CmdProc and a sender suspended
  between its send and its notification; a step of the server by strong
  fairness is in the order of its loop, so the requests of operators do not keep
  the accept loop busy for ever.
* Ground station: weak fairness of the timer, of the end of a signalled process,
  of binding and of the feed's connect and error. `setTimeout` fires, SIGTERM ends a
  process without a handler, the server retries its bind and the feed its
  connection for ever.
* Mission loop: weak fairness of frames, of the clock, of the return of the database,
  of the settling of a request (the craft answers and closes, or the connection breaks;
  the code sets no timeout of its own, Node's `fetch` gives up after minutes) and of
  the timers of the console. That a request settles does not mean that it is executed. Nothing obliges the craft's own faults, the operator or
  a loss. `StaleIsCleared` excepts a craft whose other faults keep
  changing, since the code's clock starts again with every change.
* Live link: weak fairness of the effect, of accepting and of the events of a socket,
  of the reconnect timer and of the timers of pills. Nothing obliges a cut, a craft
  to send, or the operator.

### What the violated runs show

* `fm_mild`: LOW_BATTERY is cleared by its recovery and raised again by a sample
  before EventMgr looks. That is no change to EventMgr, so that the fault stays set with
  no recovery; and SafetyMgr, which has seen the bit clear in between, has set a milder
  mode. Everybody has reacted, and the craft is DEGRADED where the fault calls for
  EMERGENCY.
* `cs_race`: two sends that overlap read one head and copy to one place. Both
  report success, and one command is gone or mangled, although Submit drops
  commands only "if full" (`command_processor.c:84`).

Behaviour that a reader should know of and that no run is about:

* The watchdog judges a live task hung in two ways, which `JudgedForCause` names. HeapMon
  beats every 5 s, and one beat it drops at the busy mutex makes 10 s of silence, although
  `config.h:89` calls 7 s a safe margin. And the callback reads its clock before it waits
  for the mutex (`watchdog.c:30` and 33): a beat recorded during that wait is later than
  the clock, and the unsigned difference at line 41 is close to 2^32.
* A task frozen between take and give of the heartbeat keeps the mutex; the callback
  gives up on every tick and nobody is watched any more, for as long as it stays frozen
  (`WatchGoesOn`). `JudgedForCause`, `DetectionBound` and `FrozenIsHandled` end there, by
  `lockFrozen`.
* `fm_mild` shows the shortest way to a settled mode that is too mild. The watchdog's
  RECOVERY, written over any mode, is another, and so is a SafetyMgr that waits for
  the log mutex between reading the faults and evaluating them.
* An answer of `/api/fault` is no execution: `telemetry_server.c:481` does not look at what
  Submit returned. The clears at the end of the stress test (`Simulate.tsx:76`) may be
  refused by the full buffer, lost in the race of `cs_race`, or executed when CmdProc is
  resumed, and its faults stay although every call was answered.
* `/api/suspend` takes any task by its name (`benchmarks.c:167`). TelemSrv, asked to suspend
  itself, never comes back: nobody else takes the request to resume it. FaultInj, suspended
  between its send and its notification, leaves a command pending until the next one.
* A process that ended by itself has `killed` unset, so `spawnCraft` (`swarm.ts:38`)
  takes it for a live one: a restart request for a craft that crashed does nothing.
  `TelemetryReturns` is about craft whose process lives.
* The last frame of a craft counts for ever. `relay.ts:33` says it prefers craft that are
  online, and section 17.4 of the technical report speaks of the healthiest *other* craft,
  but a craft whose process has ended is still published as a relay when its last frame was
  the best; `HealthiestRelays` is about last frames. The dashboard counts it as online
  (`Layout.tsx:79`) although the user guide (its lines 141, 257 and 284) says sending or
  alive; `ScreenIsTrue` leaves that figure out.
* When the last healthy craft goes dark, every relay ends, and `relay.ts:83` announces
  of craft still dark that they have their link back.
* The engine judges a fault by the frames it was given. When a row of a frame is refused, the
  handler ends before the engine (`ingest.ts:64-77`): a fault that was seen gone, and back,
  on the dashboard during an outage is stale for the engine all the same. And its clear is
  not awaited (`recovery.ts:59`): when it arrives late it clears a fault that has just come.
  `OnlyStaleCleared` is about frames given to the engine, at the moment a clear is sent.
* Benchmarks are ordered by the ticks of the craft (`db.ts:98`), which start again with its
  process: after a restart, or over the rows of an earlier run, the newest one may be left
  out of a report. `ReportIsFresh` claims the last one only while no craft has restarted.
* The pages that poll do not number their polls: an answer that comes late replaces a newer
  one (`Analytics.tsx:199`).
* A "fixed" pill needs a frame that is NORMAL right behind one that is bad
  (`store.ts:164`). Trouble that ends by way of RECOVERY or DEGRADED without faults
  ends without a pill, and its faults are told with the next one. `FixedIsTold` holds
  of the pills there are.

## 5. Proofs

Each proof module extends the module it is about and TLAPS, and states its
theorems for arbitrary constants under the assumptions above.

* **WatchdogProofs.** `TypeCorrect`; `MutexSafe`: `[]MutexConsistent`, from an
  invariant that ties owner, points and the state of the callback, whatever is
  frozen or deleted where. `DetectionPrompt`: `[]DetectionBound`. The bound is not
  inductive; what is (`Detection`) says how old a slot may be at each phase of the
  timer, that the scan has every slot that is too old in `hung`, and that the
  mutex is never held by somebody suspended. `JudgedWithCause`:
  `[]JudgedForCause`. Its invariant (`Accuracy`) bounds the silence of a task that is not
  frozen by its phase in the loop and the beats it has lost in a row, so that what
  exceeds the timeout without having been frozen or being `ahead` has lost beats worth
  it. `BudgetKept`: `RestartBudget`;
  what an action of the callback may do to a slot follows from what the scan has
  judged when it began (`Judged`), which stays true while it walks over the slots.
* **FaultManagementProofs.** `TypeCorrect`; `OneMitigationAtATime`:
  `[]SingleMitigation`, inductive with the types. `TokensSafe`:
  `[]TokensConserved`; the proof rests on the cardinality lemmas for adding and
  removing a holder, and on holders being exactly in the "work" phase, so that
  the capped give never drops a token. `BudgetRefined`: `Spec => PowerBudgetKept`,
  that is, every step maps to a `Start`, a `Stop` or a stutter of PowerBudget.
* **GroundStationProofs.** `TypeCorrect`. `NoSecondProcess`, `StatusIsTruthful`,
  `NoLostRestart`, from one inductive invariant: a process that is not the
  current one has been signalled or is gone, status and process agree, and every
  kill has a timer behind it. `RelaysAreHealthiest`: `[]HealthiestRelays`. The loop of
  `recompute` keeps the healthiest of the craft it has seen (`BetterIsHealthiest`), and
  what its comparison takes for no change is none (`UnchangedIsEqual`), so that
  `links = NextLinks(lastFrame)` is inductive (`LinksInv`). It is about last frames, of
  live craft and dead ones.
* **TelemetryServerProofs.** `TypeCorrect`, which contains that the buffer never
  holds more than fits; what makes it inductive (`BufferBounded`) is that all sends
  under way have read one head, and that each still has the room it saw.
  `WakeupSafe`: `[]NoLostWakeup`. `InOrder`: `[]ExecutedInOrder`; its invariant
  (`Ordered`) says that position n of the buffer holds the command accepted as
  number n + 1, and a new command spares the ones in the buffer because positions
  less than one round apart have different remainders. `SlotsSafe`:
  `[]SlotsConsistent`, from an invariant that also ties the backlog to the clients
  that ask.
* **FlightRecorderProofs.** `TypeCorrect`, and `MutexSafe`: `[]OneInside` for any
  capacity and any counter width that is a multiple of it, with a deleted owner
  kept as owner. `DumpsNewest`: `[]DumpIsNewest`. `RingInv` says that the counters are
  what they should be modulo their width, that the slot of each of the last `Capacity`
  records holds it whole (`Intact`), the oldest of them only while nobody fills its slot
  or was deleted filling it (`Clean`), that a writer leaves no field out (`Half`), and
  that a dump has copied the newest records so far (`Copied`).
* **MissionLoopProofs.** `OnlyStale`: `[]OnlyStaleCleared`, for any craft, faults,
  scenarios and limits. What is inductive (`IInv`) is `HeldAsLong`: a fault of the
  last mask has been on show in every frame given to the engine for at least as long as
  it takes the mask to be unchanged; with it the ages (`Ages`) and, so that the calls of a
  scenario are never taken for those of the engine, the mounts (`Pages`).
  `TypeCorrect`: a loop is at a step its scenario has and waits for calls of that step.
* **IngestProofs.** One invariant (`IngestInv`) for any craft, metrics, windows and
  number of refusals. `TypeCorrect`: the windows of the metrics of a craft differ by no
  more than the handlers stopped half way (`InStep`), and its rows are counted
  (`Counted`). `ToldIsOnRecord`: `[]OnRecord`; an anomaly has its row before its mark
  on the timeline and both before it is on the bus (`FrameRecorded`, `BusInv`).
  `FirstMoveCaught`: `FirstMoveIsHigh`; the sums of a window of equal samples and one
  that differs are computed (`TotalOfStep`, `SpreadOfStep`), the inequality of
  `AnomalyAssumption` makes it high (`StepIsHigh`), and the loop of `analyzeFrame`
  reaches its metric (`FoundFacts`). `ReportsAreFresh`: `[]ReportIsFresh`; the places
  of the rows of a craft in an answer are 1, 2 and so on, each once (`RanksFacts`), so
  that a row that is left out has a place behind the limit (`NoneLeftOut`), and the
  tables are in the order of the clock, and of the ticks until they begin again
  (`TimesInv`), which is why the last benchmark is claimed only until then.
* **LiveLinkProofs.** `TypeCorrect`: `[]TypeOK`, which contains that there is one
  connection or one timer that will open it. Its invariant (`LinkInv`) says that only
  the last socket lives, that it is not served before the page is loaded, and that
  without it there is a timer; `Header` ties UPLINK to it. `FixedIsToldHolds`:
  `FixedIsTold`, from `PillInv`: pills stand in the order of their ids with their
  timers under way (`Timed`), and what the store remembers of a craft is bad only if
  the operator has been told, with every fault seen since in `troubleFaults`
  (`Remembered`). `BoardInv` bounds the rings and trends. `ScreenHolds`:
  `[]ScreenIsTrue`. That the screen is up to date when no message is waiting is not
  inductive; `ScreenInv` says of a socket that is served that the last frame of each
  craft, and the last list of links, is the last message of its kind in the queue, or,
  with none there, on the screen (`CurrentInv`), and that the stamps of a queue go up
  from those on the screen (`OrderInv`). The figures of the fleet are sums over the
  craft, which the proof takes apart craft by craft (`SumFacts`).

What a recursive function computes cannot be proved by the library's induction
theorems, which the provers cannot instantiate. The loops of `recompute` and of
`analyzeFrame` and the sums over samples and craft are handled by the least element
of the set of indices at which the claim would fail (`LeastElement`, from the
well-foundedness of the natural numbers).

Every invariant and every action property of a passing run is stated by a theorem.
Model-checked only are the liveness properties (`FrozenIsHandled`, `FaultsRecover`,
`WatchGoesOn`, `ClientIsServed`, `CommandsDrain`, `TelemetryReturns`, `StaleIsCleared`,
`ScenarioEnds`, `LiveAgain`), which are out of the prover's reach, and `InsightIsSeen`,
a comparison over short series.

## 6. Not modelled

* Floating-point arithmetic: the power model's balance, the moving average of the
  detector (which is shown and never compared), the thermal and orbital simulation.
  Where a result decides a branch (the battery against its thresholds) the level is
  chosen freely; where the question can be asked of whole numbers (z-scores,
  correlations) it is.
* Wording, formatting, HTML, SQL text, charts, maps and animation. What they decide
  (which line, which row, which colour class) is modelled.
* The polling of the pages, Analytics and Monitor among them: each poll replaces what the
  one before has shown. The read-only routes are the queries of Database and Relay
  without their transport.
* Rows that earlier runs of the program have left in the tables; the model starts
  with none, and what it says of reports is said of that case.
* The suspension of tasks other than the monitors and those of the command path.
* Diagnostics, clock and benchmark measurements: they read kernel counters.
* Failed allocations: the malloc-failed hook never returns.
* What Diag and Bench do while load shedding has them suspended, other than that
  one of them may hold the log mutex (`LogContended`).
* The bytes of requests and frames: a non-blocking send that takes part of a frame.
* For now: telemetry queues and bus mutexes, `Log_Event` with its mutex, the data
  logger (next section).

## 7. Plan

1. Done: Watchdog, FaultManagement, GroundStation, FlightRecorder, the command path
   with the client slots (TelemetryServer); the ground's own loop (MissionLoop), its
   analysis (Ingest) and the dashboard (LiveLink).
2. *Log path*: `Log_Event` with its mutex, the recorder, the data logger's buffer and
   the log queue, as one module around FlightRecorder, with TelemSrv as the reader of
   `/api/blackbox` and load shedding that may suspend the owner of the log mutex.
3. *Telemetry path*: monitors, their queues and the queue set, the overflow fault,
   the bus mutexes, CommWatch's streak across a restart, the published snapshot.
4. Proofs: that the command path implements a one-writer queue until two sends
   overlap; for the liveness properties, the safety facts their arguments rest on (which
   step leads to which, and what no other step undoes).
