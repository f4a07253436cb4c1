# Formal models of echem-rig-control

TLA+ models of the control software of an electrochemistry rig: what is modelled, what TLC checks on
small instances, and what TLAPS proves for every instance. Paths below are relative to
`src/src/rig_control/` unless they start with `src/`.

## 1. The system

A desktop application drives power supplies, gas controllers, pumps, hotplates and an ESP32
controller, records what they measure, and runs recipes. Everything for one rig profile hangs off one
`ApplicationSession`.

| Component | State it keeps | Operations |
|---|---|---|
| `control/service.py` RigControlService | control mode, command history, audit failures | `execute`, begin and end recipe control, fault lock, global safe state |
| `devices/manager.py` DeviceManager | registry, one re-entrant lock per device, connection status | `operation`, connect, disconnect, `disconnect_all` |
| `recipes/execution.py` RecipeRunner | thread, cancel flag, status, result, supply modes | `validate`, `start`, `stop`, `join` |
| `recipes/model.py`, `plan.py`, `preview.py` | immutable recipe; plan as a generator | expand loops and ramps, estimate, check power supplies |
| `experiment_recording.py` ExperimentRecorder | open writer, finalising count | `start`, `stop`, `record_batch`, `record_event`, `export_excel` |
| `data/directory_writer.py` | three append-only journals, live-export future | write, fsync, export when due, close |
| `data/incremental_export.py` | SQLite cache (bins, offset, dirty, through), CSV | `update`, `snapshot` |
| `data/annotations.py`, `recovery.py` | note journal, run review | add, edit, delete, resolve; find interrupted runs |
| `polling.py` PollingService | in-flight reads, completions, failed devices, bounded results queue | `start`, `stop`, `poll_once`, scheduler loop |
| `esp32/`, `devices/esp32_*` | session, heartbeat thread, latched fault | request and reply, heartbeat, rearm, outputs |
| `src/firmware/nano_esp32_controller` | outputs, heartbeat time, tripped latch, sensor caches | loop: read line, answer, watchdog, sensors |
| drivers under `devices/` | status, cached limits and modes | safe state, setpoints, telemetry |
| `transports/` | an open port or socket | send, receive, query |
| `ui/manual_control/model.py` | CC/CV mode and limits per supply | setters, output, safe state |
| `ui/operation/` | one action in progress, readings, histories, notes | actions on a worker thread, 250 ms display refresh |
| `application_session.py`, `ui/home/` | the objects above, closed flag | create, stop services, close |
| `runtime_diagnostics.py`, `event_logging.py` | sampling thread, log file | start, stop, record |
| `ui/device_setup/`, `rig_profile*.py`, `device_factory.py` | profile files and their backups, the editor's copy | add, edit and remove devices, validate, write atomically, switch, copy |
| `app_settings*.py`, `ui/home/settings_window.py` | settings files and their backups, what is in force | load, edit, apply, save, choose |
| `instrument_settings/` | calibration histories, a snapshot of a controller | fit, accept, apply, restore, autotune |

### How the parts interact

* The operator's worker thread and the recipe thread both call `RigControlService.execute`, which
  calls the driver under the lock of that device. Polling reads each device under the same lock.
* The runner takes the mode `recipe_active`; the global safe state takes it away without telling the
  runner, which finds out when its next write is refused.
* Every command, and every event of a run, goes to the technical log **and** to the open recording;
  the runner's events raise when either fails, the service's audit swallows the failure.
* Polling hands every read to the recorder at once (no queue in between) and a snapshot per publish
  tick to the screen through a bounded queue that drops its oldest batch.
* The writer appends to journals and schedules the CSV update on a thread of its own; the cache
  remembers how far the journals were consumed.
* The ESP32 controller object sends a heartbeat every two seconds through the same line as the
  requests; the firmware drops its outputs when none arrives for fifteen seconds.

### What is hard here

Threads that read shared state without a lock and act on it later (the control mode, the open
recording); exceptions inside exception handlers and `finally` blocks; a sweep over devices in which
each may fail; two writers of the same instrument; a cache and a file updated in two transactions; a
line that may hold a reply nobody waits for; shutdown with bounded joins. `PROJECT.json` lists each
one under `hazards`, at the line where it bites, with the properties that watch it.

### What makes each component correct

* Control: an ordinary write is made only with control of the rig; control is never left behind; one
  operation per device at a time; a sweep shuts sources before outlets and attempts every device.
* Runner: a run applies its end state and says which devices it could not reach, as far as its events
  can be written (the code does not keep more, see section 3);
  Stop ends the run; the recording it opened is closed and nobody else's is.
* Polling: at most one read per device in flight, nothing read is lost to the recorder, a failure
  and its recovery are reported once each and in turn, the queue never exceeds its capacity and its
  newest batch is the newest.
* Export: whatever the crash point, the CSV after the next update is the function of the journals it
  would have been without the crash; no reading is counted twice.
* ESP32: a reply is only ever taken for the request it answers; outputs are off within the watchdog
  time of the last heartbeat and stay off until re-armed.
* Shutdown: everything is attempted, in order, and what was not reached is reported.
* Screens: what is shown (notes, graphs, an editor's step, a form's entries) is what is kept, written or
  in the instrument, whatever failed, was refused, or went on behind it; a limit is raised only with
  consent; a window that says it will close does, and not before its work.

## 2. Modules

Eleven families, each a specification built from its parts. A configuration of each run gives it its
constants; an `MC...` module does where that takes definitions, or where parts that share no state are
checked in one run.

| Family | Modules | What they model |
|---|---|---|
| Control of the rig | `ControlService` | `execute()` as three steps (authorise, wait for the device lock, driver call), control modes, device locks |
| | `RecipeRunner` | extends it with the recipe thread, one action per step of `_run`, `_execute` and `_apply_end_state` |
| | `RigControl` | composes that with the operator's worker thread, the global safe state, the fault lock and the operator's recordings; holds the specification and the properties |
| | `RigControlProofs` | theorems; the runs take a supply (source) and a back-pressure controller (outlet) |
| Polling | `Polling` | the scheduler thread of `polling.py`, its workers, and the callers of `start` and `stop` |
| | `SnapshotFeed` | abstract: what the screen may rely on |
| | `ResultsQueue`, `ResultsQueueProofs` | the queue between polling thread and screen; implements `SnapshotFeed`; theorems |
| | `PollingProofs` | theorems about `Polling` |
| | `MCPolling` | extends both: either the reads of a quick and a slow instrument, with a screen and a closing session, or the queue; they share no state |
| Live export | `RunTable` | abstract: what a reader of a run's CSV may rely on |
| | `ExportCache` | journals, SQLite cache, CSV, and the two transactions of an export |
| | `LiveExport`, `LiveExportProofs` | the recorder and writer around it: worker thread, workbooks, stopping, the end of the process; implements `RunTable`; theorems |
| ESP32 | `WatchdogBoard` | the firmware's loop and watchdog, and the serial line |
| | `ControllerLink`, `ControllerLinkProofs` | the host: bus, session, client, controller with its heartbeat threads, a sensor on the same line; theorems |
| Recipes | `RecipeOutline` | the flat Loop ... Next rows, the tree, and the edits |
| | `RecipePlan` | the plan: loops, ramps, the checks of supplies |
| | `RecipeProgram` | reference: the rows run from top to bottom, with no tree and no plan |
| | `RecipeBuilder` | the builder's window over an outline |
| Profiles | `RigProfile` | what a profile is, what Device Setup makes of it, what the factory asks of it |
| | `DeviceLibrary` | the files on disk, Device Setup, the home screen |
| Settings | `SettingsScreen` | the settings of the program: the sheet, what is in force, the files |
| | `EditorsProofs` | theorems about `DeviceLibrary` and `SettingsScreen` |
| | `MCEditors` | extends `RecipeBuilder`, `DeviceLibrary` and `SettingsScreen`, one of which is edited: they share no state |
| Closing | `Session`, `SessionProofs` | closing the session from two screens, with everything it owns in any state; theorems |
| Instruments | `Instrument` | an operation as a list of exchanges of which any may raise |
| | `Pump`, `Hotplate`, `FlowController`, `PressureController`, `Supply` | one driver each, with its instrument and its front panel; `Supply` also the manual CC/CV modes |
| | `AlicatSetup` | what an Alicat is found to be and how its columns are read from then on |
| | `AlicatBus` | several of them on one port: opening, late replies, retries, leaving |
| | `HeaterSettings` | heating controllers and the form, snapshot and autotuning of Settings |
| | `Calibrations` | calibrations between the panel, the files, polling and the metadata of runs |
| Operation | `OperationScreen` | orders, exports, reviews and closing of the window |
| | `RunNotes` | notes between the screen and the journals of runs |
| | `ChannelHistory` | what the graph of a signal is drawn from |
| | `RunHealth` | the monitor of the program's memory |
| | `RecipeEntry` | boxes with units, ramps and device cards, as the step editors show and read them |
| | `StepEditors` | the editors of a Set step, a Loop step and the end state |
| | `MCOperation`, `OperationProofs` | one of all these and of the instruments above, whichever: they share no state; theorems |

### State and actions against the code

In every module one action is one operation, or the part of one between two points where another
thread, a failure or a crash can come between. `PROJECT.json` maps each definition to its lines.

**Control of the rig**

| Variable | In the code |
|---|---|
| `mode` | `RigControlService._mode` |
| `lock` | `DeviceManager._operation_locks` (never nested by these callers, so re-entrancy plays no part) |
| `output` | what the hardware of a device was last left in: `safe`, `manual`, a recipe `step`, a recipe `end` setting |
| `call` | how far a thread is inside `execute()`; the outcome waits there until its caller looks |
| `pc`, `cancel`, `outcome` | the recipe thread, `_cancel`, the local `state` |
| `endAction`, `todo`, `remaining`, `failures` | `recipe.end_state` and the locals of `_apply_end_state` |
| `ownsRecording`, `recording` | the local `started_recording`; the recorder's writer and who opened it |
| `opc`, `otodo`, `ofailed` | the operator's worker and the locals of `enter_global_safe_state` |
| `applied`, `control`, `late` | history only: `_apply_end_state` returned; what became of this run's control; recipe writes dispatched after control was lost |

Where the code reads and then writes `_mode` (`begin_recipe_control`, `end_recipe_control`, the global
safe state) the model has two steps. Everything one thread does between two such points is one
step. A driver call succeeds, fails before the hardware reacted, or fails although it did react. Each
`_emit` of the runner may raise, at every place the code emits. `validate()` runs before a thread
exists and changes no shared state.

A recipe is any sequence of writes, waits and event-only items, ending anywhere or never (every real
plan is one of these); an assignment's value does not matter, only who wrote it; a driver call is
atomic under the lock, which the lock justifies as far as these properties can see. When a run has
been published its locals are forgotten (`Publish`), so that the history variables speak of one run.

**Polling and its queue.** Each variable names the attribute or local of `polling.py` behind it. In
`Polling` the label `pc` is the statement of `_run` the scheduler is at; one completion is looked at
per step; a worker's `put` and its `set`, the scheduler's `wait` and its `clear`, and the two halves
of `stop` are separate steps, because others run between them. `start` and the first half of `stop`
hold the lifecycle lock. `caller = "join_replaced"` is a caller whose local `thread` is no longer
`_thread`. Time is left out: what is not in flight becomes due at some moment. Readings are left out
too: what matters is whether a read succeeded and whether it brought something to hand on. What the
recorder and the event sink raise is caught, told once and changes nothing else, so it is left out.
`unhandled` is a history: sources whose successful read the recorder has not been given. In
`ResultsQueue` each call on the queue is a step, and `_enqueue_result` up to its first `put_nowait`
another.

**Live export.** `readings` and `noteLog` are the two journals, a reading being its bin and channel,
which is all its average depends on; `cache` is the SQLite file as committed (consumed offset, bins,
signals, dirty mark, `through`, sizes); `csv` its columns, the rows of each bin and whether an append
was cut short; `lock` is `BEGIN IMMEDIATE`; `export` is the step each thread's `update()` is at.
`LiveExport` adds the recorder's writer, the single worker's `queue`, the live export's outcome, what
the export lock is held for (`job`), the recording state file (`status`) and the workbook. An export
may fail, and the process may end, between any two steps; what was committed and the files stay.
`CsvKeepsPromise` is the refinement: the readings in the rows are `RunTable`'s `shown`.

**ESP32.** `board` holds `heartbeatReceived`, `watchdogTripped` and whether `WATCHDOG_TIMEOUT_MS` has
passed; `toBoard` and `toHost` are the two directions of the line, a message carrying whether it
belongs to the request the host sent last, which is all a request identifier can tell. `bus.user` has
`Esp32Bus._lock`, `ctlUser` the controller's own lock, `clients` is `_client_count`, `at` the place of
the operator's thread, the sensor's reader and each heartbeat thread. A message may be lost, a reply
come after its timeout, the board start again, and the host end.

**Recipes.** `rows` is the builder's outline and `selected` its row; `ToOutline` and `FromOutline` are
the two conversions, `Plan` the walk of `recipes/plan.py`, `RecipeProblem` the checks that let a
recipe be saved and run. `mark` ties a loop row to the Next row it came with, a history the program does not keep;
`Program` runs the rows one at a time as decision 0018 describes and is what `Plan` is compared with.

**Profiles.** `files` and `backups` are what each path and the `.bak` beside it hold, `editor` the
`ProfileEditor` of an open Device Setup, `home` the home screen's path and profile with what its
session was built from (`session`), `program` what is open, `trouble` how the last return from Device
Setup failed, a history. A profile is its roles by ID, its connections in order, and its `details`
(names, labels, intervals, acknowledgements), which no rule looks at. Of the settings of a device and
of its connection there is whether the driver takes them (`fit`; an ESP32 connection may also have
lost its controller's name). The three SCPI supplies are one driver here. A refused request changes nothing and is no
action; nor are the read-only check, its thread and what the screen says of readiness. A process that
ends in a save leaves what a failure at that step leaves, then `End`; what it leaves as `.tmp`
nobody reads. Any loadable path may be given at the start, so which one is remembered plays no part.

**Closing.** `closer` is where the Tk thread and Operation's background thread are in
`stop_feature_services()`, `shutdown()` and `close()`; `disconnecting` the thread of each device in
`disconnect_all()`; `reported` and `problems` the failures returned. Every bounded wait may end before
what it waits for. `hung` devices have a driver call that never returns. What a run and a screen
action do to devices is here only as far as closing meets it.

**Instruments.** `device` is what the instrument does, `cached` and `status` what its driver believes,
`todo` the exchanges left of the operation `doing`, `raised` those that raised in it. An exchange that
raises may have been carried out. The front panel acts between operations, that of a supply only
while its port is closed (its drivers never read a setting again, on the word of
`devices/power_supply.py`). A write to a supply that was sent is carried out, since nothing is read
back.

**Alicats.** In `AlicatSetup` `unit` is what the instrument is (its columns, whether it can describe
them, what it controls), which its front panel may change (`Reconfigure`); `probed` what detection
found, `saved` what the profile holds, `conf` the columns read on connecting, `shown` the names the
last frame was read by. In `AlicatBus` an exchange under the bus lock is one step; `unread` is the
port's input buffer, which a text request does not empty, and `coming` the replies that are late.
`alicat[d].holds` is `_connected`, the reference that is counted in `clients`.

**Heating controllers.** `entries` and `originals` are the form and what it was filled with, `registers`
what the controllers hold; any write may be refused, lost or not kept, and the re-read after it may
fail. Whether a controller is fit for autotuning (algorithm, TI, lock) is one register. **Calibrations.**
`history` and `stamp` are the file of a device and its time and size, `cache` polling's copy; Settings
asks a service of its own. `named` is what the metadata of the run says.

**Operation.** In `OperationScreen` `jobs` are the threads that run, `results` the queue the Tk timer
empties, `questions` the modal boxes that are open (the timer goes on under one that a button asked and
not under one that it asked itself). In `RunNotes` `journal` is what each run's file holds and `records`
the screen's own list; a time is the number of runs begun by then, which is all a note's bounds look
at. In `ChannelHistory` and `RunHealth` the stores are as in the code, with smaller limits; `accepted` and
`sampled` are all that was ever put in, a history.

**Step editors.** `draft` is what the dialog shows, `step` the recipe's, and `meant` a history: what the
operator typed, ticked and chose, in quantities. It is kept apart from the draft, and only an edit
that means something changes it; a change of unit or a look at the other mode does not. Numbers are counted in
parts so that each that is typed is shown exactly (the code shows six digits).

**Settings.** `sheet` is the open page with what was confirmed on it, `inForce`, `builtWith` and `working`
what the home screen, the session and an open Operation use, `disk` and `kept` the files and their
`.bak`. Settings that raise a limit and the units that the sheet does not show are told apart; all
others are as the maximum.

### Bounds

*Control*: two devices, one of each sweep class; at most `EndWrites` (2) settings per end state, the
least that has a first, a last and a failure between; one operator thread, because the window runs one
action at a time (`_run_operation_action`); every plan length, number of runs and of operator actions
is unbounded. The instances with one device add what two would make too large (the operator's
recordings) or slow (liveness). `late` is a count that the property itself bounds.

*Polling*: two sources and two callers, the least for one read to delay another and for a stop to
overlap a stop and a start. Restarts, reads and snapshots are unbounded: the queue of completions
bounds itself (`InFlightExact`). `ResultsQueue`: `Capacity` 3, so that half of it is neither nothing
nor all; `Last` 12 snapshots, enough to overflow, recover and overflow again. The proofs need neither
bound.

*Live export*: two bins of which a live export holds one back (`LastBin` 2, `Lag` 1), so that a
reading can come for a bin already in the file and a signal appear late; two channels, `MaxReadings`
2, one note created and changed or deleted (`MaxNotes` 2), one workbook asked for, one failure, and
the process ending at any moment. Two exporters is what the code has.

*ESP32*: two heartbeat threads and `MaxConnects` 2, so that one can outlive a disconnect; one sensor
(`MaxClients` 2); `Attempts` 2 as the profile's default retry; one fault, of any kind, at any moment.
The only order besides connecting is `rearm`: the others change nothing the board's watchdog or the
link can tell apart.

*Recipes*: every outline of at most five rows that edits can make, from six Set steps of a supply and
a pump, two loops, one repeat and a wait: five rows hold a loop in a loop with a step, or two loops
side by side. `MaxRampPoints` 2, so that a ramp can have too many.

*Profiles*: two devices of the operator's and a controller with two sensors, two ports, a supply's host
and two addresses; a template and two other paths, which the cfg declares symmetric; two saves, of
which either may fail, from any of three saved profiles (two Alicats on a bus, one disabled; a probe
and a pump; a controller with its sensors). No action reads a backup, so the `VIEW` leaves it out:
what is said of backups is said of the step that writes one.

*Settings*: two files, `Maxima` below, at and above the normal ceiling, three changes of a sheet and two
saves, each of which may fail at any of its steps. The `VIEW` leaves out `kept` and `saidSaved`, which no
action reads.

*Closing*: two devices, one that its `disconnect()` makes safe and one it does not; one driver that
hangs (`MaxHung` 1) where liveness is checked. In the run about leaving, no driver hangs.

*Instruments*: three temperatures and two limits, three flows, two speeds, pressures 0..3 under a
ceiling of 2, volts 0..2 and amperes 0..3 with a power limit of 4 and a wiring ceiling of 2: each
has a value below, at and above its limit. Operations are unbounded.

*Alicats*: eight orders of columns, of controllers and meters, among them the default one and one with a
column no driver names. Three devices on a port, one of which asks for a table, three attempts at a
reading and two late replies: one to be taken for another's, and one more behind it.

*Heating controllers*: two, with a target that is on or off; two polls of autotuning, one that sees it
and one that gives up. *Calibrations*: two devices, two names. *Notes*: two runs, two notes, three records and two
texts, so that a dialog can outlive its run and a note be changed and deleted. Texts and controllers are
symmetric. The `VIEW` leaves out `told`, the result shown last, which no action reads.

*The window*: one folder, three threads at once (an order, exports, a workbook). *Graphs*: 24 readings over
stores of 8 and 10, which are halved and trimmed several times; of these two are out of the
ordinary, at any place. *Memory*: 21 samples over an overview of 6, a window of 6 samples, and enough hours for
the snapshots of one to expire.

*Step editors*: four edits of any opening of two Set steps, two Loop steps and two end states, over two
supplies, a back-pressure controller and a heater without a safe state; two parts to an ampere. Ramps by
step size and step count; those by rate or setpoints, holds and names go through the same code with
other boxes and are left out.

### Fairness

*Control* (`rig_recording`): both threads keep being scheduled and driver calls return: every
transport has a read timeout. A thread waiting for a device lock is assumed not to be passed over for
ever (strong fairness of `AcquireDevice`); Python's `RLock` gives no queueing guarantee, but the other
thread is outside the lock for whole statements between two of its calls. Nothing is assumed of the
operator. A wait may take any time, and an item may follow another for ever; only the way a
pressed Stop is noticed is fair.

*Polling*: the scheduler, the callbacks of finished reads and the callers inside `stop` run on, time
passes, and whoever waits for the lifecycle lock obtains it in the end; a driver call returns unless
its source is in `Slow`. Nobody has to start or stop anything. `ResultsQueue`: a snapshot in hand gets
queued and the screen's timer keeps firing (`_poll_ui_queue` catches whatever a tick raises and
reschedules itself; decision 0007).

*Live export*: the worker and the holder of the export lock go on when they can; nobody has to record,
ask or stop.

*ESP32*: the board's loop runs; whoever waits for a reply goes on when one comes or the time is up
(every read has a timeout). The operator's and the heartbeat threads are not passed over for ever
at a lock that is free again and again; among the heartbeats that succeed some come when the status
read is due, which is every thirty seconds (strong fairness of `BeatAndLook`).

*Closing*: both closers, final exports and a poller that is not blocked go on; `AwaitExports` is
strongly fair, since the recorder notifies when the last export has ended. A run, a screen's action
and a disconnect need never end: each is waited for with a limit.

## 3. Runs

| Run | Instance | Shows |
|---|---|---|
| `rig_control` | two devices, fault lock | `OneOperationPerDevice`; `ControlHeldByLiveRun`; `AtMostOneLateWrite`; `EndStateReached`; `SourcesBeforeOutlets` |
| `rig_recording` | one device, operator's recordings, fair | a run closes the recording it opened (`RecordingEndsWithRun`) and never replaces the operator's (`RecordingNeverReplaced`); `StopEndsRun`, `GlobalSafeStateFinishes` |
| `emergency_wins` | two devices | **violated**: see below |
| `end_state_on_every_exit` | one device | **violated**: see below |
| `polling` | two sources, two callers, fair | `InFlightExact`: there is one scheduler, and no source is read twice at once or forgotten; `NoLostWakeup`; `NothingReadIsLost`; `FailuresAgree`; `QuickKeepsReporting`; `StopReturns`. Capacity 3, 12 snapshots: `SecondPutFits`, `DropsAreTold`, `NewestIsKept`, and the refinement `ScreenIsFed` with its fairness |
| `live_export` | two bins, two channels, one note, crash and failure anywhere, fair | `CacheKnowsCsv`: between transactions the file is what the cache takes it for; `CompleteIsWhole`; `WorkbookIncludesPast`; the refinement `CsvKeepsPromise`; `StoppingEnds` |
| `controller_link` | controller, sensor, two heartbeat threads, one fault, fair | `NobodyCutOff`; `BeatsWhileConnected`; `CleanDisconnectIsSafe`; `WatchdogDoesItsWork`: silence trips the board (`SilenceTrips`) and the host learns of it (`TripIsLearned`) |
| `editors` | outlines of five rows; three saved profiles, two saves that may fail; two settings files | `PlanFollowsOutline`: every loop is closed by the Next row it came with, and the plan is what the rows say; `SupplyNeverMisled`; `LibraryIsSound`: what Device Setup validated a session can be built from, after any edits; `UsesWhatIsSaved`; `NothingSavedIsLost`; `SettingsAsAgreed`: a limit is raised only as the operator agreed, and what is saved is in force |
| `session` | two devices, one hanging driver, fair | `CloseAccountsForAll`: what `close()` leaves behind it reports; `ClosingEnds` |
| `exit_leaves_safe` | two devices | **violated**: see below |
| `operation` | each of the sixteen parts of `MCOperation` | four questions asked of them. `RigIsAsShown`: what is shown of the rig is so (pump and hotplate, calibrations, columns and the shared port, the window's promise to close). `RecordIsAsShown`: so is what is shown of a record (notes, graphs, memory, step editors). `StartsWithinLimit`: nothing is started, opened or raised over its limit, whatever a front panel set meanwhile. `DoneAsTold`: what is said to be stopped, applied, saved or waited for is |
| `notes_of_the_run` | two runs, two notes | **violated**: see below |

Deadlock is checked wherever the system can always go on. In `polling` the queue stutters once its last
snapshot is shown (`Ended`); `live_export` when the run has ended and every workbook asked for is written;
`controller_link` when the host has ended and the board has tripped and answered everything;
`session` and `exit_leaves_safe` when the program has been left, or where the model stops following a
session (below).

### Four things the code says and does not keep

1. *"An emergency always wins"* (`recipes/execution.py`, `_apply_end_state`). `execute` reads the
   mode and then waits for the device. A recipe write that was allowed just before the global safe
   state took control can be dispatched after that sweep made its device safe. If the recipe leaves
   the device alone at its end, or the late write is itself its last end-state setting, it stays on, with
   every event written and no failure: `EmergencyWins` speaks of such runs only, and TLC's shortest
   trace is the second case. `AtMostOneLateWrite` shows that it is at most one write, for any rig (proved).
2. *"Finishing, Stop and failure all leave the rig in the recipe's end state"* (same file, `_run`). The
   handlers emit their event before they apply the end state; if the log or the journal cannot be
   written that `_emit` raises, the end state is skipped, and the run is published with no
   safe-state failure. The event at the end of the sweep (`execution.py:334-335`) may raise as well: every
   device has been attempted then, but the list of those that failed is lost, and the result names none.
   `EndStateReached` is what does hold: what a sweep has passed is as the end state has it or on its list
   of failures, the run reports that list if the sweep returned, and a run reported as completed has
   had one that did (proved).
3. *"This will attempt to bring every connected device to a safe state and disconnect it"*
   (`ui/home/window.py`, before the program is left). `close()` only disconnects. Supplies, pump and
   hotplate make themselves safe in `disconnect()`; an Alicat flow controller closes its port and
   its flow goes on, without a failure being shown. `CloseAccountsForAll` is what does hold.
4. *"Notes for the current run (or the last one, once stopped), by time."* (`ui/operation/model.py:1200`).
   Only `start_recording()` forgets the notes before; a recipe starts the recorder itself, so its run is
   shown with those of the run before it. A change of one of them goes into the journal of the new
   run, where it is a correction of an unknown note and ignored. `RecordIsAsShown` says what holds in a run
   the screen began.

### Observed while modelling, not a run

Each was met at the lines named and is left as an observation, because no property of a run speaks of it.

* Control and runs. A run's final `recorder.stop()` closes whatever recording is open, also one the
  operator began after stopping the run's (`recipes/execution.py:181`). A global safe state between
  `start()` and `begin_recipe_control` finds the mode idle and does not stop the run; a fault lock
  entered between test and assignment of the mode is overwritten (`control/service.py:124`).
* Polling. A failing log or recorder is among the events `_publish_events` returns, and both places of
  the scheduler discard that list (`polling.py:388,409`), so the screen is told neither that nor the recovery; only
  `poll_once` returns it, which is what `src/tests/test_polling.py:417-432` looks at.
* Export. A failed last live export makes `close()` skip the final CSV and the workbook
  (`data/directory_writer.py:245,318-321`): the stop ends and raises, and the run is not marked complete, which
  is all that `StoppingEnds` and `CompleteIsWhole` say of it. A workbook made after the process ended brings the CSV up to the last
  live export only (`data/export.py:106`, against `ui/home/window.py:372-374`).
* ESP32. After a reply that came too late every later request reads the answer to the one before
  (the client neither drains its input nor reads on), against decision 0011:23; `CleanDisconnectIsSafe`
  holds since such a request raises. A failed disconnect leaves the status degraded
  (`devices/esp32_controller.py:188`); connecting a sensor twice counts the bus twice
  (`devices/esp32_dht11.py:34`). The firmware's `applySafeState` switches one heater off, which is all
  the outputs it has; its comment says five seconds where the constant is fifteen (`.ino:43-44`).
* Recipes. The end state's settings are not seen by the supply checks (decision 0017:30), and that
  decision still speaks of running each loop twice.
* Profiles. Edits of the Guardian, EZO-HUM, RE72 and of an ESP32's heartbeat are saved without being
  validated (`ui/device_setup/profile_editor.py`), though the dialog says that changes are validated
  (`ui/device_setup/dialogs/editing.py`); the session then cannot be built, on the return from Device
  Setup and at the next start. Clearing an ESP32 connection's controller ID does the same. Removing a
  controller and discovering it again while its sensors remain makes a second connection on its port;
  editing a port, or enabling a device, is not checked against who uses the port. After a return that
  failed to read the file, the next Device Setup shows the profile before it, and its first edit
  writes that over the file.
* Closing. `polling.stop()` joins without a limit (`polling.py:177-187`), so a polled driver that hangs
  holds `close()` although `devices/manager.py:166-172` says that one cannot: `ClosingEnds` excludes
  it. `close()` sets `_closed` even with failures, and the home screen keeps that session
  (`ui/home/model.py:209-215`), whose next `close()` returns at once. A recipe can be started from its
  own window while Operation shuts down. A `connect_all` that a forced close overtakes connects
  devices, and starts polling, again.
* Instruments. A FAULTED flow controller refuses its safe state (`devices/alicat/driver.py:158-161`),
  against decision 0016:78. The pump's safe state is not read back, unlike its stop.
* Supplies. Decision 0014 says that outside High current mode the wiring ceiling is enforced; it is
  looked at only where a current is set (`ui/manual_control/model.py:124-139`), so that an output is
  switched on over a register the supply was found with. A mode change whose second write failed
  leaves the new registers with the old mode recorded; an output-on that raised after it arrived
  leaves mode changes possible under power. Writes are not read back, so a safe state sent into a dead
  connection is reported as done.
* The window and notes. A review saved while another's workbook is written is never added to its own:
  `_review_export_directory` is not looked at when that ends (`ui/operation/window.py:645-657`). Closing
  Operation discards an open review. "Close Operation anyway?" answered No after its work has ended leaves a
  close that nothing resumes (`overtaken`, which `CloseIsNotLost` excludes).
* Heating controllers. After an Apply that failed the form still compares with what it was filled with, so
  that setting a value back writes nothing; choosing another controller does not reload the form; the
  polls of autotuning follow the chooser; the safe state is not read back.
* Calibrations. Device IDs that differ in a dot or an underscore share a file
  (`instrument_settings/calibration.py`, `_path`). A second process is not kept out.
* Alicats. If the check's description is not answered, the default order is saved unchecked
  (`ui/device_setup/model.py`, `if readback is None: return`), though `verification.py` says that it is
  cross-checked; a value that coincides passes it. A meter's columns are never looked at again. A text
  request does not discard unread input (`transports/pyserial_text.py`), so a late reply shifts all after it:
  another device's is refused by its address, one's own is taken for the new one, until a table or a
  closed port drains it. A port closed by a table without an end is not reopened while another device
  holds the bus. A connect that failed leaves FAULTED, which connecting refuses.
* Graphs and memory. After a pause longer than the recent readings are kept, those waiting for their group
  are on no graph until it is complete (`Awaited`); the first reading of a run is not kept by halving. An
  overview of four or five points, which the constructor allows, drops extremes. Growth is measured from
  the oldest sample of the window only. A stop that times out is not tried again.
* Step editors. Choosing another device of the same kind keeps the ramp of the one before. In CV mode another
  supply has the hidden CC setting ticked. The "last good ramp" is that of the last rebuild, so a good
  edit after it, then made unreadable, is lost on a look at the other mode. Values are shown with six
  digits, so that OK rounds longer ones. OK drops the settings of the other mode and of devices that are not
  listed.
* Settings. The units for display are "Selectable on the settings screen" (`display_units.py:21`), and no page of
  `ui/home/settings_window.py` shows them: every Apply resets those of a file to the defaults, and Save
  writes them. A file with raised limits asks nothing when it is chosen. A refused Apply reloads the
  sheet. *Save as* beside an instrument's page writes what is in force and drops the sheet's edits.

## 4. Proofs

Every theorem is proved for all values of the constants that satisfy the assumptions named at the end
of this section; the runs above check the same definitions on one instance each. An invariant a run checks is
hardly ever inductive, so each module first states what has to be added.

**Control of the rig** (`RigControlProofs`: any set of devices, any outlets among them, any `EndWrites`).

* `TypeCorrect`: `TypeOK`, with two facts it needs (`Shape`): a thread in `execute()` has a registered
  device as its target, and a setting is left while one is being written.
* `ControlEndsWithRun` and `ControlIsBounded`: `ControlHeldByLiveRun` and `AtMostOneLateWrite`. `ControlInv` adds
  that lost control is not held, that only a run that began can lose it, and that a recipe write past
  authorisation when control is lost is the first to be late; afterwards `Allowed` refuses.
* `OperationsAreExclusive`: `OneOperationPerDevice`, from `LockHeld` (who is in the driver holds that
  device's lock).
* `EndStateIsReached`: `EndStateReached`, from `EndInv`: the devices the sweep has passed are as the end
  state asks, or on its list of failures, or the one in hand. It promises a report only of a sweep that
  returned; one whose last event raises has lost its list.
* `RecordingIsClosed`: `RecordingEndsWithRun`, from `RecordInv`: the run knows a recording as its own from
  the moment it is open until it closes it. `OperatorKeepsRecording` (an action property) follows from where
  a recording can begin.
* `SourcesAreFirst`: `SourcesBeforeOutlets`, from the order in which either sweep takes devices.

**Polling** (`PollingProofs`: any sources, any of them slow, any callers).

* `TypeCorrect`, which the others use.
* `InFlightIsExact`: `InFlightExact`, from `FlightInv`: the thread ends only when no worker reads, so that the
  next one starts from nothing in flight.
* `WakeupsAreKept`: `NoLostWakeup`, from `WakeInv`: from the moment the scheduler found the queue empty (or saw
  no request to stop), whatever comes will set the flag or has set it.
* `ReadingsAreHandedOn`: `NothingReadIsLost`, from which completions `unhandled` may be among.
  `FailuresAlwaysAgree`: `FailuresAgree`, inductive with the types.

**The results queue** (`ResultsQueueProofs`: any capacity, any number of snapshots).

* `TypeCorrect`, and `SecondPutAlwaysFits`: `SecondPutFits`, inductive with the types.
* `NewestIsAlwaysKept`: `NewestIsKept`, from `NewestLast` (the newest snapshot is the last in the queue,
  or shown).
* `DropsAreAlwaysTold`: `DropsAreTold`, inductive with the types.
* `QueueImplementsFeed`: every step is a step of `SnapshotFeed` or none, from `InOrder` (what is queued is
  newer than what is shown, in order).

**Live export** (`LiveExportProofs`: any finite set of channels, any bins, notes, readings, failures and requests).

* `Recorder` has the types, that the cache has counted exactly the readings before its offset (`BinsInv`), and
  that there is one live export and one workbook at a time, on the queue or at work (`TaskInv`).
* `WorkbooksIncludeThePast`: `WorkbookIncludesPast`, from `AskInv`: what was asked for passes from the journal to
  the cache and from there to the workbook.
* `CacheAlwaysKnows`: `CacheKnowsCsv`, from `LockInv` and `CsvInv`: a cache that asks for no rebuild (`Clean`) saved
  the size of the table it takes the CSV for, and a file of whatever size agrees with that table as far as
  it was committed; between the two transactions, the file is the table that is about to be
  committed. That the size is then enough to tell is the lemma `SizeTells`: a file that agrees with a
  table as far as that goes, and has its size, has no row more.
* `CompleteRunsAreWhole`: `CompleteIsWhole`, from `StopInv` (nothing is recorded once the stop has begun, and the
  final export runs alone) and `WholeInv` (what it left is whole, and later exports change nothing).
* `CsvImplementsRunTable`: `CsvKeepsPromise`, the refinement of `RunTable`, which is safety only: the initial
  states map to initial ones and each step to a step or none. It needs all of the above and
  `RowInv`: a row stands once, claims no more than was counted, and past what was committed only in bins
  that later readings settled.

**ESP32** (`ControllerLinkProofs`: any heartbeat threads, attempts, faults, clients and connections).

* `PortServesItsUsers`: `NobodyCutOff`, from `BusInv`: who opens the session has the bus for the whole of it, and
  the controller has acquired the bus exactly where `connect()` and `disconnect()` take it to have.
* `HeartbeatsGoOn`: `BeatsWhileConnected`, from `BeatInv`, which says it for commands under way too.
* `CleanDisconnectsAreSafe`: `CleanDisconnectIsSafe`, from `SafeInv`: while the host leaves, the only
  request that is the latest is the safe state, and an answer to it means that the outputs were made safe.
* `TypeCorrect`, of both ends and the line.

**Closing** (`SessionProofs`: any devices, any of them safe on disconnect, any drivers that hang).

* `TypeCorrect`; and `ClosingAccounts`: `CloseAccountsForAll`, which speaks of the step that ends `close()`. `IInv`
  follows the order of `close()`: past the run it is off or a problem is noted (`RunInv`), so for the recording
  and polling; of the devices passed, those still connected are reported or being joined (`WalkInv`).

**Profiles and settings** (`EditorsProofs`: any devices, ports, hosts, addresses, sensors, files and saved
profiles; any files and values of settings).

* `SavedProfilesAreSound`: `LibraryIsSound`. `LibraryInv` says that every profile held anywhere (a file, the
  home screen, Device Setup) is sound: its parts have their types, every device's connection is listed once
  (`Wired`), and what Device Setup validates can be built (`Fitting`). One lemma for each edit says that it
  makes a sound profile of one; `NameIsFree`, that the name given to a new connection is not in use, is the pigeonhole
  principle on the names tried.
* `WhatRunsIsSaved`: `UsesWhatIsSaved`, and `ProfilesAreKept`: the action property `NothingSavedIsLost`, from the
  same invariant.
* `SettingsAreAsAgreed`: `RaisedAsAgreed` always, and the action property `SettingsAsAgreed`. `SettingsInv` adds that
  what is ticked on an open sheet was agreed to or is confirmed on that sheet.

**Instruments, Operation and Settings** (`OperationProofs`: any temperatures, limits, flows, pressures, ceilings and
ratings; any controllers, calibrations, devices on a port, frames and names). `MCOperation` is one of sixteen parts, which
share no state; `Steps` says that a step is a step of that part or leaves it alone. `OperationInv` has the invariant of
each part, proved by a lemma of its own (`PumpStep`, `PlateStep`, ...), which also gives what the step may not do.

* `RigAlwaysAsShown`: `RigIsAsShown`.
  * `PumpInv`: which exchanges can be left of an operation, and that a direction is still to be written only to a
    pump that is off or turns that way; what the driver believes is never that a pump is off which is on.
  * `PlateInv`: of a plate that may heat no list begins with a target (`Proceeds`), whichever refresh or switch failed.
  * `CalInv`: a cached history with the file's stamp is the file's; between the naming of a run's calibrations and
    its end Operation is open, so that Settings writes none.
  * `ScreenInv`: exactly the orders and exports that are said to be in progress are among the threads and their
    completions, one of each (`OnceAmong`), and a question that may close without force is the innermost one.
  * `AlicatInv`: what was read of a configuration is kept as long as the connection, and is of that controller.
  * `BusInv`: `clients` counts the devices that hold a reference, and only those do anything.
* `StartsAreWithinLimits`: `StartsWithinLimit`, an action property. `PlateInv` has that a plate about to heat was seen
  within the limit by the same operation; `PressureInv` that the valve is let go only after its setpoint was
  asked for; `SupplyInv` that every current still to be written is within the ceiling.
* `WhatIsToldIsDone`: `DoneAsTold`, an action property, from the same invariants, `FlowInv`, `HeaterInv` (what is read of a
  controller is what its registers hold) and `MemoryInv` (only a thread that is over has said so).

### Assumptions

Those on the constants, by name, in the module that declares them; TLC evaluates each on an instance.
`DevicesAssumption`, `ThreadsAssumption`, `RunnerAssumption`, `OperatorAssumption` (outlets are devices; there are
two threads); `CapacityAssumption`, `LastAssumption`; `ChannelsAssumption`, `BinsAssumption`,
`NobodyAssumption`, `ExportersAssumption` (finitely many channels; a live export holds back at least one
bin, as it does in the code; the worker and the holder of the export lock are two); `FaultsAssumption`,
`AttemptsAssumption`, `BoundsAssumption`, `OrdersAssumption` and the threads of `ControllerLink`;
`SessionAssumption`; `LimitsAssumption` and `NothingAssumption` (numbers are numbers, and `Nothing`, the
code's None, is no name of anything and no description of columns); `SensorAssumption` (a sensor on the board has
one of the two drivers there are) and `ProfilesAssumption` (the template and what is on disk at the start is what
Device Setup made, and a torn file is no profile: the loader refuses others). Bounds such as `MaxSaves` or `MaxTicks` stand in the guards;
only the type invariants that name them rest on them, so that the rest holds however often something is saved
or changed.

The Boolean variables are often proved typed apart from the rest because no single backend handles both well.

### What is only model-checked

* Liveness, which is outside what the prover does: `StopEndsRun`, `GlobalSafeStateFinishes`, `QuickKeepsReporting`,
  `StopReturns`, `StoppingEnds`, `WatchdogDoesItsWork`, `ClosingEnds`, and the fairness half of `ScreenIsFed`.
* `PlanFollowsOutline` and `SupplyNeverMisled`: the recipes' definitions are recursive; they are checked for every
  outline of five rows.
* `RecordIsAsShown` of `MCOperation`: the notes are a fold over the records of a journal, a graph and the overview of
  memory what repeated condensing leaves of a list, a step what an editor joins of its cards. Each says what an
  operator on lists computes for every list, which needs induction over data. Of these parts `OperationInv` says
  nothing, but of the thread of the monitor.
* `LiveExport`'s `TypeOK` in one part: that no more than `MaxReadings` readings are counted is a bound of the model, held by
  a sum over the bins, and a sum needs induction over data. The proofs use counts in `Nat` instead
  (`Held`, `Kept`). The type invariants of `RigControl`, `ResultsQueue`, `Polling`, `ControllerLink` and
  `Session` are proved; those of the instruments and of `RecipeBuilder` were checked while their modules were written and
  stay as documentation.

## 5. Not modelled, and what is left

Left out for good: screens and their layout, parsing of profiles and settings, value types and JSON
shapes, simulated devices, numerical fits, transports of instruments but the shared text port, and drivers that
are one request and one reply (thermometer, humidity probe, readings of the temperature controller). They keep
no state between two calls, or none that two threads or a failure could bring apart.

Left out so far:

* a session the home screen keeps after failures, and the Diagnostics screen: `Session` stops there
  (`over = "kept"`, `"leaked"`);
* the editors of waits and repeats, ramps by rate or setpoints in the step editors, dashboards, and which
  signals a graph shows;
* the files of snapshots of a controller, the event log, and the host's `watchdog.py`;
* finding interrupted recordings, which reads folders and promises nothing beyond the format.

What could be proved further needs induction over data (`RecordIsAsShown`, `PlanFollowsOutline`) or liveness.
