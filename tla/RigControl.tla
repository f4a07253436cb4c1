----------------------------- MODULE RigControl -----------------------------
(***************************************************************************)
(* Shared control of the rig: the recipe thread and the operator's worker  *)
(* thread both calling the control service, with Stop, the global safe     *)
(* state, recordings and the fault lock arriving at any moment.            *)
(*                                                                         *)
(* The Operation window runs one action at a time on a worker thread       *)
(* (_run_operation_action refuses a second one, the global safe state      *)
(* included); Stop, starting a recipe and stopping a recording are not     *)
(* held back by it.                                                        *)
(***************************************************************************)
EXTENDS RecipeRunner

CONSTANTS Operator,       \* the Operation window's worker thread
          FaultLocking,   \* whether anything uses the fault lock
          OperatorRecords \* whether the operator starts and stops recordings

ASSUME OperatorAssumption ==
    /\ Threads = {Runner, Operator}
    /\ Runner # Operator
    /\ FaultLocking \in BOOLEAN
    /\ OperatorRecords \in BOOLEAN

VARIABLES opc,          \* where the operator's worker thread is
          otodo,        \* devices its global safe-state sweep has not reached
          ofailed,      \* this sweep had a failed request
          control,      \* history: what became of this run's control of the rig
          late          \* history: recipe writes dispatched after control was lost

operatorVars == <<opc, otodo, ofailed>>
historyVars == <<control, late>>
vars == <<serviceVars, runnerVars, operatorVars, historyVars>>

OperatorLabels == {"off", "command", "check", "flip", "sweep", "safe_call"}

(* "kept": never taken from this run; "locked": by the fault lock; "swept": by
   a global safe state; "made_safe": and a sweep has since made every device
   safe. *)
ControlHistory == {"kept", "locked", "swept", "made_safe"}

(* Every variable keeps to its type. *)
TypeOK ==
    /\ ServiceTypeOK
    /\ RunnerTypeOK
    /\ opc \in OperatorLabels
    /\ otodo \subseteq Devices
    /\ ofailed \in BOOLEAN
    /\ control \in ControlHistory
    /\ late \in Nat

Init ==
    /\ ServiceInit
    /\ RunnerInit
    /\ opc = "off"
    /\ otodo = {}
    /\ ofailed = FALSE
    /\ control = "kept"
    /\ late = 0

-----------------------------------------------------------------------------
(* The operator. *)

Start == StartRun /\ UNCHANGED operatorVars /\ UNCHANGED historyVars

Stop == StopRun /\ UNCHANGED operatorVars /\ UNCHANGED historyVars

(* A manual command, or the safe state of one device. *)
ManualCommand(d, v) ==
    /\ opc = "off"
    /\ opc' = "command"
    /\ Execute(Operator, d, v)
    /\ UNCHANGED <<mode, lock, output, otodo, ofailed, runnerVars, historyVars>>

CommandOver ==
    /\ opc = "command"
    /\ Done(Operator)
    /\ opc' = "off"
    /\ Forget(Operator)
    /\ UNCHANGED <<mode, lock, output, otodo, ofailed, runnerVars, historyVars>>

(* enter_global_safe_state() first looks at the mode ... *)
GlobalSafeState ==
    /\ opc = "off"
    /\ opc' = "check"
    /\ UNCHANGED <<otodo, ofailed, serviceVars, runnerVars, historyVars>>

BeginSweep == otodo' = Devices /\ ofailed' = FALSE

CheckMode ==
    /\ opc = "check"
    /\ IF mode = "recipe_active"
       THEN opc' = "flip" /\ UNCHANGED <<otodo, ofailed>>
       ELSE opc' = "sweep" /\ BeginSweep
    /\ UNCHANGED <<serviceVars, runnerVars, historyVars>>

(* ... and then takes control from the recipe. *)
StopRecipeControl ==
    /\ opc = "flip"
    /\ mode' = "idle"
    /\ control' = IF mode = "recipe_active" THEN "swept" ELSE control
    /\ opc' = "sweep"
    /\ BeginSweep
    /\ UNCHANGED <<lock, output, call, late, runnerVars>>

RequestSafe(d) ==
    /\ opc = "sweep"
    /\ d \in NextInSweep(otodo)
    /\ otodo' = otodo \ {d}
    /\ opc' = "safe_call"
    /\ Execute(Operator, d, "safe")
    /\ UNCHANGED <<mode, lock, output, ofailed, runnerVars, historyVars>>

SafeAnswered ==
    /\ opc = "safe_call"
    /\ Done(Operator)
    /\ ofailed' = (ofailed \/ Raised(Operator))
    /\ opc' = "sweep"
    /\ Forget(Operator)
    /\ UNCHANGED <<mode, lock, output, otodo, runnerVars, historyVars>>

GlobalSafeStateOver ==
    /\ opc = "sweep"
    /\ otodo = {}
    /\ opc' = "off"
    /\ control' = IF control = "swept" /\ ~ofailed THEN "made_safe" ELSE control
    /\ UNCHANGED <<otodo, ofailed, late, serviceVars, runnerVars>>

(* Starting a recording is one of the worker's actions; stopping one has a
   thread of its own. *)
OperatorStartsRecording ==
    /\ OperatorRecords
    /\ opc = "off"
    /\ recording = "none"
    /\ recording' = "operator"
    /\ UNCHANGED <<pc, cancel, outcome, ownsRecording, unsweptVars, serviceVars, operatorVars, historyVars>>

OperatorStopsRecording ==
    /\ OperatorRecords
    /\ recording # "none"
    /\ recording' = "none"
    /\ UNCHANGED <<pc, cancel, outcome, ownsRecording, unsweptVars, serviceVars, operatorVars, historyVars>>

(* The service's fault lock, for a caller outside the two threads. *)
EnterFaultLock ==
    /\ FaultLocking
    /\ mode' = "fault_locked"
    /\ control' = IF mode = "recipe_active" THEN "locked" ELSE control
    /\ UNCHANGED <<lock, output, call, late, runnerVars, operatorVars>>

ClearFaultLock ==
    /\ mode = "fault_locked"
    /\ mode' = "idle"
    /\ UNCHANGED <<lock, output, call, runnerVars, operatorVars, historyVars>>

-----------------------------------------------------------------------------
(* Steps inside execute(), by either thread. *)

AuthorizeCall(t) ==
    /\ Authorize(t)
    /\ UNCHANGED <<runnerVars, operatorVars, historyVars>>

AcquireDevice(t) ==
    /\ Acquire(t)
    /\ UNCHANGED <<runnerVars, operatorVars, historyVars>>

DispatchCall(t) ==
    /\ Dispatch(t)
    /\ late' = IF call[t].value \in RecipeValues /\ control # "kept" THEN late + 1 ELSE late
    /\ UNCHANGED <<control, runnerVars, operatorVars>>

Call(t) == AuthorizeCall(t) \/ AcquireDevice(t) \/ DispatchCall(t)

(* The history is that of one run. *)
RunOver ==
    /\ Publish
    /\ control' = "kept"
    /\ late' = 0
    /\ UNCHANGED operatorVars

RunnerNext ==
    \/ RunnerStep /\ UNCHANGED operatorVars /\ UNCHANGED historyVars
    \/ RunOver

OperatorNext ==
    \/ CommandOver \/ CheckMode \/ StopRecipeControl \/ SafeAnswered \/ GlobalSafeStateOver
    \/ \E d \in Devices : RequestSafe(d)

Inputs ==
    \/ Start \/ Stop \/ GlobalSafeState
    \/ \E d \in Devices, v \in {"manual", "safe"} : ManualCommand(d, v)
    \/ OperatorStartsRecording \/ OperatorStopsRecording
    \/ EnterFaultLock \/ ClearFaultLock

Next ==
    \/ RunnerNext
    \/ OperatorNext
    \/ Inputs
    \/ \E t \in Threads : Call(t)

Spec == Init /\ [][Next]_vars

-----------------------------------------------------------------------------
(* Safety. *)

(* While a driver works on a device no other thread does: the device locks
   keep operations of the recipe and of the operator apart. *)
OneOperationPerDevice ==
    \A t \in Threads :
        call[t].stage = "dispatch" =>
            /\ lock[call[t].device] = t
            /\ \A u \in Threads \ {t} :
                  call[u].stage = "dispatch" => call[u].device # call[t].device

(* The recipe mode is held only by a live run that has begun control, whatever
   exceptions the run and its handlers meet: a finished run never leaves the
   operator locked out of the manual controls. *)
ControlHeldByLiveRun ==
    mode = "recipe_active" => pc \in Running \cup Handling \cup Sweeping \cup Releasing

(* The mode is read before the device lock is waited for, so a global safe
   state or a fault lock cannot stop a recipe write that was already allowed;
   it does stop all the others. *)
AtMostOneLateWrite == late <= 1

(* Ended as the end state has it, or among the failures. *)
Ended(d) == output[d] = "step" => endAction[d] = "leave" \/ d \in failures

(* A sweep leaves each device it has passed as the end state has it, or on its
   list of failures, whichever writes and events fail and whoever has taken
   control; when it returns, the run reports that list, and it is still true of the
   rig as the run is published.  A run reported as completed has had such a sweep.
   A sweep whose last event raises has done as much, but reports nothing. *)
EndStateReached ==
    /\ pc = "sweep" => \A d \in Devices \ todo : Ended(d)
    /\ pc \in Releasing \cup Closing =>
          /\ outcome = "completed" => applied
          /\ applied => \A d \in Devices : Ended(d)

(* A sweep asks a pressure controller (the rig's outlet) for its safe state
   only after every source has been attempted. *)
SourcesBeforeOutlets ==
    /\ opc = "safe_call" /\ call[Operator].device \in Outlets => otodo \subseteq Outlets
    /\ pc \in {"end_call", "safe_call"} /\ call[Runner].device \in Outlets => todo \subseteq Outlets

(* A recording the recipe started does not outlive the run. *)
RecordingEndsWithRun == recording = "recipe" => pc # "off"

(* execution.py, start: "recipe will not replace it".  An operator's recording
   that was started after the runner looked is not replaced either. *)
RecordingNeverReplaced == [][recording = "operator" => recording' # "recipe"]_vars

-----------------------------------------------------------------------------
(* What the code says and does not keep. *)

(* execution.py, _run: "Finishing, Stop and failure all leave the rig in the
   recipe's end state." *)
EveryEndLeavesEndState == pc = "publish" => \A d \in Devices : Ended(d)

(* execution.py, _apply_end_state: "an emergency always wins."  After a run
   whose control was taken by a global safe state that then made every device
   safe, and which applied its end state without a failure, no device is as the
   recipe wrote it. *)
EmergencyWins ==
    pc = "publish" /\ control = "made_safe" /\ applied /\ failures = {} =>
        \A d \in Devices : output[d] \notin RecipeValues

-----------------------------------------------------------------------------
(* Liveness.  Both threads keep running and every driver call returns (the
   transports have timeouts).  A device lock is free again after each call;
   strong fairness says a waiting thread is not passed over for ever.  Nothing
   is assumed about the operator, and a wait or a plan may go on for ever. *)
Fairness ==
    /\ WF_vars(RunnerNext /\ ~(WaitOver \/ (pc = "items" /\ ~cancel)))
    /\ WF_vars(OperatorNext)
    /\ \A t \in Threads : WF_vars(AuthorizeCall(t) \/ DispatchCall(t)) /\ SF_vars(AcquireDevice(t))

FairSpec == Spec /\ Fairness

(* A run that is asked to stop ends, whatever it was doing. *)
StopEndsRun == cancel /\ pc # "off" ~> pc = "off"

(* A global safe state that has been accepted finishes its sweep. *)
GlobalSafeStateFinishes == opc = "check" ~> opc = "off"

=============================================================================
