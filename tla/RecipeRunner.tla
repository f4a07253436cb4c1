---------------------------- MODULE RecipeRunner ----------------------------
(***************************************************************************)
(* The recipe thread (recipes/execution.py): starting a run, walking the   *)
(* planned items, Stop, failure, and the end state that every way out of   *)
(* a run is meant to apply.                                                *)
(*                                                                         *)
(* The plan is abstracted to an arbitrary sequence of writes, waits and    *)
(* event-only items that may end at any point or never, so what is shown   *)
(* does not depend on one recipe.  Each event the runner emits goes to the *)
(* technical log and the run journal and raises when either cannot be      *)
(* written; the two disjuncts of an emitting step are "written" and        *)
(* "raised".                                                               *)
(***************************************************************************)
EXTENDS ControlService, Naturals

CONSTANTS Runner,       \* the recipe thread
          EndWrites     \* settings listed for a device whose end action is SET

ASSUME RunnerAssumption == Runner \in Threads /\ EndWrites \in Nat \ {0}

VARIABLES pc,           \* where the recipe thread is
          cancel,       \* RecipeRunner._cancel
          outcome,      \* the local `state' of _run
          endAction,    \* recipe.end_state: what to do with each device
          todo,         \* devices the end-state sweep has not reached
          remaining,    \* end-state settings still to write on this device
          failures,     \* the sweep's list of failures; once it returned, what the run reports
          applied,      \* history: _apply_end_state of this run returned
          ownsRecording,\* the local `started_recording' of _run
          recording     \* who started the recording that is open

runnerVars == <<pc, cancel, outcome, endAction, todo, remaining, failures,
                applied, ownsRecording, recording>>

EndActions == {"safe", "leave", "set"}

Preparing == {"record", "begin", "begin_set"}
Running == {"emit_started", "items", "item_call", "wait"}
Handling == {"stopped", "failed"}
Sweeping == {"end", "sweep", "end_call", "safe_call"}
Releasing == {"finally", "release", "release_set"}
Closing == {"stop_recording", "publish"}

Labels == {"off"} \cup Preparing \cup Running \cup Handling \cup Sweeping
              \cup Releasing \cup Closing

RunnerTypeOK ==
    /\ pc \in Labels
    /\ cancel \in BOOLEAN
    /\ outcome \in {"completed", "stopped", "failed"}
    /\ endAction \in [Devices -> EndActions]
    /\ todo \subseteq Devices
    /\ remaining \in 0 .. EndWrites
    /\ failures \subseteq Devices
    /\ applied \in BOOLEAN
    /\ ownsRecording \in BOOLEAN
    /\ recording \in {"none", "recipe", "operator"}

(* No recipe thread: what it will use has its initial value. *)
RunnerInit ==
    /\ pc = "off"
    /\ cancel = FALSE
    /\ outcome = "completed"
    /\ endAction = [d \in Devices |-> "safe"]
    /\ todo = {}
    /\ remaining = 0
    /\ failures = {}
    /\ applied = FALSE
    /\ ownsRecording = FALSE
    /\ recording = "none"

-----------------------------------------------------------------------------
(* Calls made by the operator's threads. *)

(* start(): every check is made under the runner's lock on the UI thread. *)
StartRun ==
    /\ pc = "off"
    /\ mode = "idle"
    /\ recording = "none"
    /\ pc' = "record"
    /\ cancel' = FALSE
    /\ endAction' \in [Devices -> EndActions]
    /\ UNCHANGED <<outcome, todo, remaining, failures, applied, ownsRecording, recording, serviceVars>>

(* The flag is read until the last item and cleared by start(): setting it at
   another time has no effect and is not a step. *)
StopRun ==
    /\ pc \in Preparing \cup Running
    /\ cancel' = TRUE
    /\ UNCHANGED <<pc, outcome, endAction, todo, remaining, failures, applied,
                   ownsRecording, recording>>
    /\ UNCHANGED serviceVars

-----------------------------------------------------------------------------
(* Steps of the recipe thread. *)

unsweptVars == <<endAction, todo, remaining, failures, applied>>
recorderVars == <<ownsRecording, recording>>

(* Mutation: the recorder starts although a recording is open. *)
StartRecordingOverAnother ==
    /\ pc = "record"
    /\ recording' = "recipe"
    /\ ownsRecording' = TRUE
    /\ pc' = "begin"
    /\ UNCHANGED <<cancel, outcome, unsweptVars, serviceVars>>

(* recorder.start() refuses while a recording is open and may fail on the disk. *)
StartRecording ==
    /\ pc = "record"
    /\ \/ /\ recording = "none"
          /\ recording' = "recipe"
          /\ ownsRecording' = TRUE
          /\ pc' = "begin"
       \/ /\ pc' = "failed"
          /\ UNCHANGED recorderVars
    /\ UNCHANGED <<cancel, outcome, unsweptVars, serviceVars>>

(* begin_recipe_control() tests the mode and then assigns it: two steps. *)
BeginControl ==
    /\ pc = "begin"
    /\ pc' = IF mode = "idle" THEN "begin_set" ELSE "failed"
    /\ UNCHANGED <<cancel, outcome, unsweptVars, recorderVars, serviceVars>>

TakeControl ==
    /\ pc = "begin_set"
    /\ mode' = "recipe_active"
    /\ pc' = "emit_started"
    /\ UNCHANGED <<cancel, outcome, unsweptVars, recorderVars, lock, output, call>>

EmitStarted ==
    /\ pc = "emit_started"
    /\ pc' \in {"items", "failed"}
    /\ UNCHANGED <<cancel, outcome, unsweptVars, recorderVars, serviceVars>>

(* The next planned item, after the check for Stop that precedes each item and
   each write: a write, a wait, or an item that only emits.  Nothing precedes the
   end of the plan, so that a Stop after the last item's check goes unseen. *)
NextItem ==
    /\ pc = "items"
    /\ \/ cancel /\ pc' = "stopped" /\ UNCHANGED call
       \/ /\ ~cancel
          /\ pc' = "item_call"
          /\ \E d \in Devices : Execute(Runner, d, "step")
       \/ ~cancel /\ pc' \in {"wait", "items", "failed"} /\ UNCHANGED call
       \/ pc' = "end" /\ UNCHANGED call
    /\ UNCHANGED <<cancel, outcome, unsweptVars, recorderVars, mode, lock, output>>

(* A successful write is followed by its recipe_command event. *)
ItemWritten ==
    /\ pc = "item_call"
    /\ Done(Runner)
    /\ \/ Returned(Runner) /\ pc' \in {"items", "failed"}
       \/ Raised(Runner) /\ pc' = "failed"
    /\ Forget(Runner)
    /\ UNCHANGED <<cancel, outcome, unsweptVars, recorderVars, mode, lock, output>>

(* Mutation: a wait sleeps for its whole duration without looking for Stop. *)
WaitIgnoringStop ==
    /\ pc = "wait"
    /\ cancel
    /\ UNCHANGED <<runnerVars, serviceVars>>

(* One pass of the wait loop that finds Stop pressed. *)
WaitCancelled ==
    /\ pc = "wait"
    /\ cancel
    /\ pc' = "stopped"
    /\ UNCHANGED <<cancel, outcome, unsweptVars, recorderVars, serviceVars>>

WaitOver ==
    /\ pc = "wait"
    /\ pc' = "items"
    /\ UNCHANGED <<cancel, outcome, unsweptVars, recorderVars, serviceVars>>

(* The two exception handlers of _run.  An event that cannot be written
   raises out of the handler: only `finally' still runs. *)
Handle(label, result) ==
    /\ pc = label
    /\ outcome' = result
    /\ pc' \in {"end", "finally"}
    /\ UNCHANGED <<cancel, unsweptVars, recorderVars, serviceVars>>

HandleStop == Handle("stopped", "stopped")
HandleFailure == Handle("failed", "failed")

-----------------------------------------------------------------------------
(* _apply_end_state *)

(* Mutation: an exception in _apply_end_state is never handled again. *)
RaisedInEndStateIsFinal == "finally"

(* An exception in _apply_end_state reaches a handler only from the body of
   the try, i.e. when the run had completed. *)
RaisedInEndState == IF outcome = "completed" THEN "failed" ELSE "finally"

EmitEndState ==
    /\ pc = "end"
    /\ \/ pc' = "sweep" /\ todo' = Devices /\ failures' = {}
       \/ pc' = RaisedInEndState /\ UNCHANGED <<todo, failures>>
    /\ UNCHANGED <<cancel, outcome, endAction, remaining, applied, recorderVars, serviceVars>>

SweepDevice(d) ==
    /\ pc = "sweep"
    /\ d \in NextInSweep(todo)
    /\ todo' = todo \ {d}
    /\ \/ /\ endAction[d] = "leave"
          /\ UNCHANGED <<pc, remaining, call>>
       \/ /\ endAction[d] = "set"
          /\ remaining' = EndWrites
          /\ pc' = "end_call"
          /\ Execute(Runner, d, "end")
       \/ /\ endAction[d] = "safe"
          /\ pc' = "safe_call"
          /\ Execute(Runner, d, "safe")
          /\ UNCHANGED remaining
    /\ UNCHANGED <<cancel, outcome, endAction, failures, applied, recorderVars, mode, lock, output>>

(* After each end-state write comes its event; either may raise, and then the
   device falls back to its safe state. *)
EndWritten ==
    LET d == call[Runner].device IN
    /\ pc = "end_call"
    /\ \/ /\ Returned(Runner)
          /\ remaining' = remaining - 1
          /\ IF remaining = 1
             THEN pc' = "sweep" /\ Forget(Runner)
             ELSE pc' = "end_call" /\ Execute(Runner, d, "end")
          /\ UNCHANGED failures
       \/ /\ Done(Runner)
          /\ remaining' = 0
          /\ failures' = failures \cup {d}
          /\ pc' = "safe_call"
          /\ Execute(Runner, d, "safe")
    /\ UNCHANGED <<cancel, outcome, endAction, todo, applied, recorderVars, mode, lock, output>>

SafeRequested ==
    /\ pc = "safe_call"
    /\ Done(Runner)
    /\ pc' = "sweep"
    /\ failures' = IF Raised(Runner) THEN failures \cup {call[Runner].device} ELSE failures
    /\ Forget(Runner)
    /\ UNCHANGED <<cancel, outcome, endAction, todo, remaining, applied, recorderVars, mode, lock, output>>

(* Failures are emitted once more.  When that event raises the list is lost with
   the call, and the run's result names no device. *)
SweepOver ==
    /\ pc = "sweep"
    /\ todo = {}
    /\ \/ pc' = "finally" /\ applied' = TRUE /\ UNCHANGED failures
       \/ failures # {} /\ pc' = RaisedInEndState /\ failures' = {} /\ UNCHANGED applied
    /\ UNCHANGED <<cancel, outcome, endAction, todo, remaining, recorderVars, serviceVars>>

-----------------------------------------------------------------------------
(* The finally block: release control, close the recording, publish. *)

(* Mutation: control is not released on the way out. *)
FinallyKeepingControl ==
    /\ pc = "finally"
    /\ pc' = "stop_recording"
    /\ UNCHANGED <<cancel, outcome, unsweptVars, recorderVars, serviceVars>>

Finally ==
    /\ pc = "finally"
    /\ pc' = IF mode = "recipe_active" THEN "release" ELSE "stop_recording"
    /\ UNCHANGED <<cancel, outcome, unsweptVars, recorderVars, serviceVars>>

EndControl ==
    /\ pc = "release"
    /\ IF mode = "recipe_active"
       THEN pc' = "release_set" /\ UNCHANGED outcome
       ELSE pc' = "stop_recording" /\ outcome' = "failed"
    /\ UNCHANGED <<cancel, unsweptVars, recorderVars, serviceVars>>

ReleaseControl ==
    /\ pc = "release_set"
    /\ mode' = "idle"
    /\ pc' = "stop_recording"
    /\ UNCHANGED <<cancel, outcome, unsweptVars, recorderVars, lock, output, call>>

(* Mutation: only a completed run closes its recording. *)
StopRecordingIfCompleted ==
    /\ pc = "stop_recording"
    /\ pc' = "publish"
    /\ IF ownsRecording /\ outcome = "completed" THEN recording' = "none" ELSE UNCHANGED recording
    /\ UNCHANGED <<cancel, outcome, ownsRecording, unsweptVars, serviceVars>>

(* recorder.stop() closes whatever recording is open, raises when none is, and
   raises after detaching the writer when the final exports fail. *)
StopRecording ==
    /\ pc = "stop_recording"
    /\ pc' = "publish"
    /\ \/ ~ownsRecording /\ UNCHANGED <<outcome, recording>>
       \/ ownsRecording /\ recording # "none" /\ recording' = "none" /\ UNCHANGED outcome
       \/ ownsRecording /\ recording' = "none" /\ outcome' = "failed"
    /\ UNCHANGED <<cancel, ownsRecording, unsweptVars, serviceVars>>

(* The result is published and the thread ends, its local variables with it. *)
Publish ==
    /\ pc = "publish"
    /\ pc' = "off"
    /\ cancel' = FALSE
    /\ outcome' = "completed"
    /\ endAction' = [d \in Devices |-> "safe"]
    /\ todo' = {}
    /\ remaining' = 0
    /\ failures' = {}
    /\ applied' = FALSE
    /\ ownsRecording' = FALSE
    /\ UNCHANGED <<recording, serviceVars>>

RunnerStep ==
    \/ StartRecording \/ BeginControl \/ TakeControl \/ EmitStarted
    \/ NextItem \/ ItemWritten \/ WaitCancelled \/ WaitOver
    \/ HandleStop \/ HandleFailure
    \/ EmitEndState \/ EndWritten \/ SafeRequested \/ SweepOver
    \/ \E d \in Devices : SweepDevice(d)
    \/ Finally \/ EndControl \/ ReleaseControl \/ StopRecording

=============================================================================
