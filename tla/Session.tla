------------------------------ MODULE Session ------------------------------
(***************************************************************************)
(* Closing: the application session with everything it owns, the home      *)
(* screen that replaces, releases and leaves it, and the Operation screen  *)
(* that stops its services first (application_session.py, ui/home/,        *)
(* ui/operation/, devices/manager.py).                                     *)
(*                                                                         *)
(* The home screen closes a session on the Tk thread, which then takes no  *)
(* input; Operation stops its services on a thread of its own.  Both run   *)
(* the same steps: the run, the recording, the exports, polling; the       *)
(* session goes on to disconnect every device, each on a thread that is    *)
(* waited for a while and then abandoned.                                  *)
(*                                                                         *)
(* A driver call is one step, as nobody else can have the device meanwhile *)
(* and every bounded wait here may end before it.  Or it never returns:    *)
(* then whoever needs that device later waits for ever.                    *)
(*                                                                         *)
(* What a run and the screens do to devices is here only as far as closing *)
(* meets it; RigControl and Polling have the rest.                         *)
(***************************************************************************)
EXTENDS FiniteSets, Naturals

CONSTANTS Devices,
          SafeOnDisconnect, \* devices whose disconnect() makes them safe first
          Watched,          \* devices of which it matters here whether they are left on
          Home, Screen,     \* who closes: the Tk thread, Operation's background thread
          Nobody,
          MaxHung           \* bound: drivers that hang

ASSUME SessionAssumption ==
    /\ SafeOnDisconnect \subseteq Devices
    /\ Watched \subseteq Devices
    /\ Home # Screen
    /\ MaxHung \in Nat

VARIABLES screens,    \* HomeViewModel._active_features
          closed,     \* ApplicationSession._closed
          over,       \* the program ended; or a session was kept after failures, or dropped with something still
                      \* going, where the model ends
          closer,     \* where each of the two is, and what it is closing
          why,        \* what the home screen closes the session for
          todo,       \* devices disconnect_all() has not come to
          current,    \* the one whose thread it joins
          reported,   \* devices among the failures of this close()
          problems,   \* it has failures of other kinds
          run,        \* the recipe thread
          recording,  \* the recorder has an open writer
          finalising, \* who is writing final exports
          polling,    \* the scheduler thread
          worker,     \* the screen action in progress
          connected,  \* per device
          on,         \* watched devices left on, as far as no failed disconnect() told of it
          disconnecting, \* the thread of each device
          hung,       \* devices with a driver call that never returns
          blocked,    \* the poller has a read of such a device
          overtaken   \* history: a screen was closed over its action, which may still be at work

homeVars == <<screens, closed, over, why>>
walkVars == <<todo, current>>
failureVars == <<reported, problems>>
recorderVars == <<recording, finalising>>
pollVars == <<polling, blocked>>
deviceVars == <<connected, on, disconnecting, hung>>

vars == <<homeVars, closer, walkVars, failureVars, run, recorderVars, pollVars, worker, deviceVars,
          overtaken>>

Closers == {Home, Screen}

ClosingLabels == {"idle", "start", "run", "joining", "recording", "stopping_recording", "finalising",
                  "exports", "polling", "stopping", "stopped", "devices", "waiting", "leaving"}

IdleWorker == [on |-> FALSE, todo |-> {}]

(* Everything keeps to its type, and Device Setup is alone. *)
TypeOK ==
    /\ screens \in {{}, {"operation"}, {"setup"}}
    /\ {closed, problems, recording, blocked, overtaken} \subseteq BOOLEAN
    /\ over \in {"no", "exited", "kept", "leaked"}
    /\ closer \in [Closers -> [at : ClosingLabels, part : {"screen", "session"}, force : BOOLEAN]]
    /\ closer[Screen].part = "screen"
    /\ why \in {"replace", "setup", "exit"}
    /\ todo \subseteq Devices /\ reported \subseteq Devices
    /\ current \in Devices \cup {Nobody}
    /\ run \in {"off", "started", "steps", "ending", "refused", "exporting"}
    /\ finalising \subseteq Closers \cup {"run"}
    /\ polling \in {"off", "on", "stopping"}
    /\ worker.on \in BOOLEAN /\ worker.todo \subseteq Devices
    /\ connected \in [Devices -> BOOLEAN]
    /\ on \subseteq Watched
    /\ disconnecting \in [Devices -> {"no", "thread", "done", "failed"}]
    /\ hung \subseteq Devices

Init ==
    /\ screens = {}
    /\ closed = FALSE
    /\ over = "no"
    /\ closer = [c \in Closers |->
                    [at |-> "idle", part |-> IF c = Home THEN "session" ELSE "screen", force |-> FALSE]]
    /\ why = "replace"
    /\ todo = {} /\ current = Nobody
    /\ reported = {} /\ problems = FALSE
    /\ run = "off"
    /\ recording = FALSE /\ finalising = {}
    /\ polling = "off" /\ blocked = FALSE
    /\ worker = IdleWorker
    /\ connected = [d \in Devices |-> FALSE]
    /\ on = {}
    /\ disconnecting = [d \in Devices |-> "no"]
    /\ hung = {}
    /\ overtaken = FALSE

Goto(c, label) == closer' = [closer EXCEPT ![c].at = label]

(* The Tk thread takes input while it is not closing a session itself. *)
Listening == over = "no" /\ closer[Home].at = "idle"

-----------------------------------------------------------------------------
(* Driver calls. *)

Free(d) == d \notin hung

(* Somebody calls the driver of d, or has a read of d in hand (polls), and it does not return. *)
Hang(d, polls) ==
    /\ over = "no"
    /\ Free(d) /\ Cardinality(hung) < MaxHung
    /\ IF polls THEN polling = "on"
       ELSE d \in worker.todo \/ run \in {"steps", "ending", "refused"} \/ disconnecting[d] = "thread"
    /\ hung' = hung \cup {d}
    /\ blocked' = (blocked \/ polls)
    /\ UNCHANGED <<homeVars, closer, walkVars, failureVars, run, recorderVars, polling, worker, connected,
                   on, disconnecting, overtaken>>

-----------------------------------------------------------------------------
(* Operation, and the one action it has in progress. *)

OpenOperation ==
    /\ Listening
    /\ screens = {}
    /\ screens' = {"operation"}
    /\ UNCHANGED <<closed, over, why, closer, walkVars, failureVars, run, recorderVars, pollVars, worker,
                   deviceVars, overtaken>>

(* connect_all(), the longest action there is. *)
Connect ==
    /\ Listening
    /\ "operation" \in screens
    /\ closer[Screen].at = "idle" /\ ~worker.on
    /\ worker' = [on |-> TRUE, todo |-> Devices]
    /\ UNCHANGED <<homeVars, closer, walkVars, failureVars, run, recorderVars, pollVars, deviceVars,
                   overtaken>>

WorkerCalls(d, ok) ==
    /\ over = "no"
    /\ d \in worker.todo /\ Free(d)
    /\ worker' = [worker EXCEPT !.todo = @ \ {d}]
    /\ connected' = [connected EXCEPT ![d] = @ \/ ok]
    /\ UNCHANGED <<homeVars, closer, walkVars, failureVars, run, recorderVars, pollVars, on,
                   disconnecting, hung, overtaken>>

(* Connecting ends by starting to monitor. *)
WorkerDone ==
    /\ over = "no"
    /\ worker.on /\ worker.todo = {}
    /\ polling' = IF polling = "off" /\ \E d \in Devices : connected[d] THEN "on" ELSE polling
    /\ worker' = IdleWorker
    /\ UNCHANGED <<homeVars, closer, walkVars, failureVars, run, recorderVars, blocked, deviceVars,
                   overtaken>>

(* The screen's own recording: another worker action, with no device in it. *)
StartRecording ==
    /\ Listening
    /\ "operation" \in screens
    /\ closer[Screen].at = "idle" /\ ~worker.on
    /\ ~recording
    /\ recording' = TRUE
    /\ UNCHANGED <<homeVars, closer, walkVars, failureVars, run, finalising, pollVars, worker, deviceVars,
                   overtaken>>

-----------------------------------------------------------------------------
(* The poller.  A read that returns changes nothing here. *)

(* A read waits for a device that will not be free again. *)
ReadBlocks(d) ==
    /\ over = "no"
    /\ polling = "on" /\ ~blocked
    /\ ~Free(d)
    /\ blocked' = TRUE
    /\ UNCHANGED <<homeVars, closer, walkVars, failureVars, run, recorderVars, polling, worker, deviceVars,
                   overtaken>>

(* The scheduler leaves when its workers have; whoever joined it goes on. *)
PollingEnds ==
    /\ over = "no"
    /\ polling = "stopping" /\ ~blocked
    /\ polling' = "off"
    /\ closer' = [c \in Closers |->
                    IF closer[c].at = "stopping" THEN [closer[c] EXCEPT !.at = "stopped"] ELSE closer[c]]
    /\ UNCHANGED <<homeVars, walkVars, failureVars, run, recorderVars, blocked, worker, deviceVars,
                   overtaken>>

-----------------------------------------------------------------------------
(* A run, as closing meets it: told to stop or not, it may do one more thing or end. *)

StartRun ==
    /\ Listening
    /\ "operation" \in screens
    /\ run = "off" /\ ~recording
    /\ run' = "started"
    /\ UNCHANGED <<homeVars, closer, walkVars, failureVars, recorderVars, pollVars, worker, deviceVars,
                   overtaken>>

RunOpensRecording ==
    /\ over = "no"
    /\ run = "started"
    /\ run' = IF recording THEN "refused" ELSE "steps"
    /\ recording' = TRUE
    /\ UNCHANGED <<homeVars, closer, walkVars, failureVars, finalising, pollVars, worker, deviceVars,
                   overtaken>>

(* A step or an end-state write.  A write that is refused ends the steps. *)
RunCalls(d, ok) ==
    /\ over = "no"
    /\ run \in {"steps", "ending", "refused"}
    /\ Free(d)
    /\ on' \in IF ~(connected[d] /\ ok) THEN {on}
              ELSE IF run = "steps" THEN {on \cup ({d} \cap Watched)}
              ELSE {on \ {d}, on \cup ({d} \cap Watched)}
    /\ run' = IF run = "steps" /\ ~(connected[d] /\ ok) THEN "ending" ELSE run
    /\ UNCHANGED <<homeVars, closer, walkVars, failureVars, recorderVars, pollVars, worker, connected,
                   disconnecting, hung, overtaken>>

RunStopsItsSteps ==
    /\ over = "no"
    /\ run = "steps"
    /\ run' = "ending"
    /\ UNCHANGED <<homeVars, closer, walkVars, failureVars, recorderVars, pollVars, worker, deviceVars,
                   overtaken>>

(* The recorder's stop(), if the run opened a recording; it closes the one that is open. *)
RunClosesRecording ==
    /\ over = "no"
    /\ run \in {"ending", "refused"}
    /\ IF run # "refused" /\ recording
       THEN run' = "exporting" /\ recording' = FALSE /\ finalising' = finalising \cup {"run"}
       ELSE run' = "off" /\ UNCHANGED recorderVars
    /\ UNCHANGED <<homeVars, closer, walkVars, failureVars, pollVars, worker, deviceVars, overtaken>>

RunOver ==
    /\ over = "no"
    /\ run = "exporting"
    /\ run' = "off" /\ finalising' = finalising \ {"run"}
    /\ UNCHANGED <<homeVars, closer, walkVars, failureVars, recording, pollVars, worker, deviceVars,
                   overtaken>>

-----------------------------------------------------------------------------
(* Stopping the services: stop_feature_services() of the session, shutdown() of
   Operation.  Only the session's failures decide what happens to it. *)

At(c, label) == over = "no" /\ closer[c].at = label

Fails(c) == problems' = (problems \/ closer[c].part = "session") /\ UNCHANGED reported

StopRun(c) ==
    /\ At(c, "run")
    /\ Goto(c, IF run = "off" THEN "recording" ELSE "joining")
    /\ UNCHANGED <<homeVars, walkVars, failureVars, run, recorderVars, pollVars, worker, deviceVars,
                   overtaken>>

(* Mutation: the run is told to stop and not waited for, nor reported. *)
JoinNothing(c) ==
    /\ At(c, "joining")
    /\ Goto(c, "recording")
    /\ UNCHANGED <<homeVars, walkVars, failureVars, run, recorderVars, pollVars, worker, deviceVars,
                   overtaken>>

(* join(10.0), over or given up. *)
JoinRun(c) ==
    /\ At(c, "joining")
    /\ Goto(c, "recording")
    /\ IF run = "off" THEN UNCHANGED failureVars ELSE Fails(c)
    /\ UNCHANGED <<homeVars, walkVars, run, recorderVars, pollVars, worker, deviceVars, overtaken>>

CheckRecording(c) ==
    /\ At(c, "recording")
    /\ Goto(c, IF recording THEN "stopping_recording" ELSE "exports")
    /\ UNCHANGED <<homeVars, walkVars, failureVars, run, recorderVars, pollVars, worker, deviceVars,
                   overtaken>>

(* stop() of the recorder: detached at once, unless somebody else was first. *)
StopRecording(c) ==
    /\ At(c, "stopping_recording")
    /\ IF recording
       THEN /\ recording' = FALSE /\ finalising' = finalising \cup {c}
            /\ Goto(c, "finalising")
            /\ UNCHANGED failureVars
       ELSE Goto(c, "exports") /\ Fails(c) /\ UNCHANGED recorderVars
    /\ UNCHANGED <<homeVars, walkVars, run, pollVars, worker, deviceVars, overtaken>>

Finalised(c, ok) ==
    /\ At(c, "finalising")
    /\ finalising' = finalising \ {c}
    /\ Goto(c, "exports")
    /\ IF ok THEN UNCHANGED failureVars ELSE Fails(c)
    /\ UNCHANGED <<homeVars, walkVars, run, recording, pollVars, worker, deviceVars, overtaken>>

(* Operation waits for every final export, unless told to close anyway. *)
AwaitExports(c) ==
    /\ At(c, "exports")
    /\ finalising = {} \/ closer[c].part = "session" \/ closer[c].force
    /\ Goto(c, "polling")
    /\ UNCHANGED <<homeVars, walkVars, failureVars, run, recorderVars, pollVars, worker, deviceVars,
                   overtaken>>

StopPolling(c) ==
    /\ At(c, "polling")
    /\ IF polling = "off" THEN Goto(c, "stopped") /\ UNCHANGED polling
                          ELSE Goto(c, "stopping") /\ polling' = "stopping"
    /\ UNCHANGED <<homeVars, walkVars, failureVars, run, recorderVars, blocked, worker, deviceVars,
                   overtaken>>

-----------------------------------------------------------------------------
(* Operation, closed by itself or on the way out. *)

RequestClose(force) ==
    /\ Listening
    /\ "operation" \in screens
    /\ closer[Screen].at = "idle"
    /\ force <=> worker.on \/ finalising # {}
    /\ closer' = [closer EXCEPT ![Screen] = [at |-> "run", part |-> "screen", force |-> force]]
    /\ overtaken' = (overtaken \/ worker.on)
    /\ UNCHANGED <<homeVars, walkVars, failureVars, run, recorderVars, pollVars, worker, deviceVars>>

OperationClosed ==
    /\ At(Screen, "stopped")
    /\ Listening
    /\ screens' = screens \ {"operation"}
    /\ closer' = [closer EXCEPT ![Screen] = [@ EXCEPT !.at = "idle", !.force = FALSE]]
    /\ UNCHANGED <<closed, over, why, walkVars, failureVars, run, recorderVars, pollVars, worker,
                   deviceVars, overtaken>>

-----------------------------------------------------------------------------
(* The home screen: close() of the session for another profile or other settings,
   for Device Setup, or because the program is left. *)

Begin(reason, part, left) ==
    /\ Listening
    /\ why' = reason
    /\ screens' = left
    /\ closer' = [closer EXCEPT ![Home] =
                     [at |-> IF part = "screen" THEN "run" ELSE "start", part |-> part, force |-> TRUE]]
    /\ UNCHANGED <<closed, over, walkVars, failureVars, run, recorderVars, pollVars, worker, deviceVars>>

Replace == screens = {} /\ Begin("replace", "session", {}) /\ UNCHANGED overtaken

OpenSetup == screens = {} /\ Begin("setup", "session", {"setup"}) /\ UNCHANGED overtaken

Exit ==
    /\ Begin("exit", IF "operation" \in screens THEN "screen" ELSE "session", {})
    /\ overtaken' = (overtaken \/ worker.on)

(* close_all_features() has closed Operation; model.close() follows. *)
FeaturesClosed ==
    /\ At(Home, "stopped") /\ closer[Home].part = "screen"
    /\ closer' = [closer EXCEPT ![Home] = [@ EXCEPT !.at = "start", !.part = "session"]]
    /\ UNCHANGED <<homeVars, walkVars, failureVars, run, recorderVars, pollVars, worker, deviceVars,
                   overtaken>>

(* A session that was closed before, with failures or without, is not closed again. *)
CloseSession ==
    /\ At(Home, "start")
    /\ Goto(Home, IF closed THEN "leaving" ELSE "run")
    /\ reported' = {} /\ problems' = FALSE
    /\ UNCHANGED <<homeVars, walkVars, run, recorderVars, pollVars, worker, deviceVars, overtaken>>

DisconnectAll ==
    /\ At(Home, "stopped") /\ closer[Home].part = "session"
    /\ Goto(Home, "devices")
    /\ todo' = Devices
    /\ UNCHANGED <<homeVars, current, failureVars, run, recorderVars, pollVars, worker, deviceVars,
                   overtaken>>

StartDisconnecting(d) ==
    /\ At(Home, "devices")
    /\ d \in todo
    /\ todo' = todo \ {d} /\ current' = d
    /\ disconnecting' = [disconnecting EXCEPT ![d] = "thread"]
    /\ Goto(Home, "waiting")
    /\ UNCHANGED <<homeVars, failureVars, run, recorderVars, pollVars, worker, connected, on,
                   hung, overtaken>>

(* disconnect() of a driver: it makes the device safe first where it does that, or raises;
   the port is closed in any case. *)
Disconnects(d, clean) ==
    /\ over = "no"
    /\ disconnecting[d] = "thread" /\ Free(d)
    /\ connected' = [connected EXCEPT ![d] = FALSE]
    /\ on' = IF connected[d] /\ d \in SafeOnDisconnect THEN on \ {d} ELSE on
    /\ disconnecting' = [disconnecting EXCEPT ![d] = IF d # current THEN "no" ELSE IF clean THEN "done" ELSE "failed"]
    /\ UNCHANGED <<homeVars, closer, walkVars, failureVars, run, recorderVars, pollVars, worker, hung,
                   overtaken>>

(* Mutation: join() without a timeout. *)
JoinDisconnectForEver ==
    /\ At(Home, "waiting")
    /\ disconnecting[current] # "thread"
    /\ reported' = IF disconnecting[current] = "done" THEN reported ELSE reported \cup {current}
    /\ Goto(Home, "devices")
    /\ current' = Nobody
    /\ disconnecting' = [disconnecting EXCEPT ![current] = "no"]
    /\ UNCHANGED <<homeVars, todo, problems, run, recorderVars, pollVars, worker, connected, on, hung,
                   overtaken>>

(* join(5.0), over or given up: then the thread is left to itself. *)
JoinDisconnect ==
    /\ At(Home, "waiting")
    /\ reported' = IF disconnecting[current] = "done" THEN reported ELSE reported \cup {current}
    /\ Goto(Home, "devices")
    /\ current' = Nobody
    /\ disconnecting' = [disconnecting EXCEPT ![current] = IF @ = "thread" THEN @ ELSE "no"]
    /\ UNCHANGED <<homeVars, todo, problems, run, recorderVars, pollVars, worker, connected, on, hung,
                   overtaken>>

(* The diagnostics may not stop in time; the log is closed and _closed set in any case. *)
Closed(problem) ==
    /\ At(Home, "devices")
    /\ todo = {}
    /\ closed' = TRUE
    /\ problems' = (problems \/ problem)
    /\ Goto(Home, "leaving")
    /\ UNCHANGED <<screens, over, why, walkVars, reported, run, recorderVars, pollVars, worker, deviceVars,
                   overtaken>>

(* Nothing of the session that is dropped is still going. *)
Quiet ==
    /\ run = "off" /\ ~recording /\ finalising = {} /\ polling = "off" /\ ~worker.on
    /\ \A d \in Devices : ~connected[d] /\ Free(d) /\ disconnecting[d] # "thread"

Failures == reported # {} \/ problems

(* Another session takes the place of this one.  One that is dropped with something
   still going would go on beside it: the model stops there. *)
Renew ==
    IF Quiet
    THEN closed' = FALSE /\ disconnecting' = [d \in Devices |-> "no"] /\ UNCHANGED over
    ELSE over' = "leaked" /\ UNCHANGED <<closed, disconnecting>>

Leave ==
    /\ At(Home, "leaving")
    /\ closer' = [closer EXCEPT ![Home] = [at |-> "idle", part |-> "session", force |-> FALSE]]
    /\ overtaken' = (worker.on)
    /\ CASE why = "exit" -> over' = "exited" /\ UNCHANGED <<closed, disconnecting>>
         [] why # "exit" /\ Failures -> over' = "kept" /\ UNCHANGED <<closed, disconnecting>>
         [] why = "replace" /\ ~Failures -> Renew
         [] why = "setup" /\ ~Failures -> UNCHANGED <<closed, over, disconnecting>>
    /\ why' = "replace" /\ reported' = {} /\ problems' = FALSE
    /\ UNCHANGED <<screens, walkVars, run, recorderVars, pollVars, worker, connected, on, hung>>

(* Leaving Device Setup builds a session; when that fails the closed one stays. *)
CloseSetup(ok) ==
    /\ Listening
    /\ "setup" \in screens
    /\ screens' = {}
    /\ IF ok THEN Renew ELSE over' = "kept" /\ UNCHANGED <<closed, disconnecting>>
    /\ UNCHANGED <<why, closer, walkVars, failureVars, run, recorderVars, pollVars, worker, connected,
                   on, hung, overtaken>>

-----------------------------------------------------------------------------
Closing(c) ==
    \/ StopRun(c) \/ JoinRun(c) \/ CheckRecording(c) \/ StopRecording(c)
    \/ \E ok \in BOOLEAN : Finalised(c, ok)
    \/ AwaitExports(c) \/ StopPolling(c)

Walking ==
    \/ FeaturesClosed \/ CloseSession \/ DisconnectAll
    \/ \E d \in Devices : StartDisconnecting(d)
    \/ JoinDisconnect
    \/ \E problem \in BOOLEAN : Closed(problem)
    \/ Leave

Using ==
    \/ OpenOperation \/ Connect \/ StartRecording
    \/ StartRun
    \/ \E force \in BOOLEAN : RequestClose(force)
    \/ Replace \/ OpenSetup \/ Exit
    \/ \E ok \in BOOLEAN : CloseSetup(ok)

Calling(d) ==
    \/ \E ok \in BOOLEAN : WorkerCalls(d, ok) \/ RunCalls(d, ok) \/ Disconnects(d, ok)
    \/ ReadBlocks(d)
    \/ \E polls \in BOOLEAN : Hang(d, polls)

Running == RunOpensRecording \/ RunStopsItsSteps \/ RunClosesRecording \/ RunOver

Next ==
    \/ Using
    \/ \E c \in Closers : Closing(c)
    \/ Walking \/ OperationClosed
    \/ \E d \in Devices : Calling(d)
    \/ WorkerDone \/ PollingEnds \/ Running

(* Both closers run on, and so do exports and a poller that is not blocked.  A run,
   a screen's action or a disconnect need not end: each is waited for a while only. *)
Fairness ==
    /\ \A c \in Closers : WF_vars(Closing(c))
    /\ SF_vars(AwaitExports(Screen))
    /\ WF_vars(Walking) /\ WF_vars(OperationClosed)
    /\ WF_vars(RunOver) /\ WF_vars(PollingEnds)

Spec == Init /\ [][Next]_vars /\ Fairness

-----------------------------------------------------------------------------
(* The first close() of a session answers for everything it owns: every device is
   disconnected or named among the failures; and when there are none, the run is
   over, nothing is recorded or polled, and no device that is made safe when
   disconnected was left on.  A screen action that a closed screen left running may
   still undo it (overtaken). *)
CloseAccountsForAll ==
    [][~closed /\ closed' /\ ~overtaken =>
         /\ \A d \in Devices : connected'[d] => d \in reported'
         /\ ~Failures' => /\ run' = "off" /\ ~recording' /\ polling' = "off"
                          /\ on' \cap SafeOnDisconnect = {}]_vars

(* ui/home/window.py:354-356, before the program is left: "This will attempt to bring
   every connected device to a safe state and disconnect it." *)
ExitLeavesAllSafe ==
    [][over' = "exited" /\ over # over' /\ ~Failures /\ ~overtaken => on' = {}]_vars

(* Closing ends although drivers never return, runs do not stop and disconnects hang --
   unless the poller has a read of such a device: polling is joined without a timeout. *)
ClosingEnds ==
    \A c \in Closers :
        closer[c].at # "idle" ~>
            closer[c].at = "idle" \/ over # "no" \/ blocked

=============================================================================
