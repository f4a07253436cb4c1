--------------------------- MODULE ControlService ---------------------------
(***************************************************************************)
(* The control service (control/service.py) and the per-device operation   *)
(* locks of the device manager (devices/manager.py).                       *)
(*                                                                         *)
(* `RigControlService.execute' reads the control mode with no lock held    *)
(* (_authorize), then waits for the lock of the device (operation), then   *)
(* lets the driver talk to the hardware (_dispatch).  Other threads run    *)
(* between these three points, so each is a step here.  A thread that is   *)
(* inside execute() is described by its entry in `call'; it picks up the   *)
(* outcome when the stage is "returned" or "raised".                       *)
(*                                                                         *)
(* A device is abstracted to what its last effective operation left it     *)
(* in: its safe state, or a value written by the operator, by a recipe     *)
(* step or by a recipe's end state.  Only devices with a safe-state        *)
(* operation are modelled: every other one is read-only and every sweep    *)
(* skips it.                                                               *)
(***************************************************************************)
EXTENDS FiniteSets

CONSTANTS Devices,    \* registered devices that have a safe-state operation
          Outlets,    \* those that are PressureControllers
          Threads,    \* threads that call the service
          NoThread,   \* a free device lock
          NoDevice    \* the target of a thread that is not in execute()

ASSUME DevicesAssumption == Outlets \subseteq Devices /\ NoDevice \notin Devices
ASSUME ThreadsAssumption == NoThread \notin Threads

VARIABLES mode,       \* RigControlService._mode, a plain attribute
          lock,       \* DeviceManager._operation_locks: holder of each device
          output,     \* what each device was last left in
          call        \* each thread's progress through execute()

serviceVars == <<mode, lock, output, call>>

Modes == {"idle", "recipe_active", "fault_locked"}

RecipeValues == {"step", "end"}
Values == {"safe", "manual"} \cup RecipeValues

Stages == {"none", "authorize", "acquire", "dispatch", "returned", "raised"}

NoCall == [stage |-> "none", device |-> NoDevice, value |-> "safe"]

Calls == [stage : Stages, device : Devices \cup {NoDevice}, value : Values]

ServiceTypeOK ==
    /\ mode \in Modes
    /\ lock \in [Devices -> Threads \cup {NoThread}]
    /\ output \in [Devices -> Values]
    /\ call \in [Threads -> Calls]

(* Nothing has been written yet and nobody is in execute(). *)
ServiceInit ==
    /\ mode = "idle"
    /\ lock = [d \in Devices |-> NoThread]
    /\ output = [d \in Devices |-> "safe"]
    /\ call = [t \in Threads |-> NoCall]

-----------------------------------------------------------------------------
(* Entering and leaving execute(). *)

Execute(t, d, v) ==
    call' = [call EXCEPT ![t] = [stage |-> "authorize", device |-> d, value |-> v]]

InExecute(t) == call[t].stage \in {"authorize", "acquire", "dispatch"}

Returned(t) == call[t].stage = "returned"
Raised(t) == call[t].stage = "raised"
Done(t) == Returned(t) \/ Raised(t)

Forget(t) == call' = [call EXCEPT ![t] = NoCall]

(* Mutation: a recipe's writes are refused only while the rig is fault-locked. *)
AllowedWhenIdle(v) ==
    \/ v = "safe"
    \/ v = "manual" /\ mode = "idle"
    \/ v \in RecipeValues /\ mode # "fault_locked"

(* Entering a device's safe state is always allowed; an ordinary write needs
   the mode that belongs to its source. *)
Allowed(v) ==
    \/ v = "safe"
    \/ v = "manual" /\ mode = "idle"
    \/ v \in RecipeValues /\ mode = "recipe_active"

Authorize(t) ==
    /\ call[t].stage = "authorize"
    /\ call' = [call EXCEPT ![t].stage = IF Allowed(call[t].value) THEN "acquire" ELSE "raised"]
    /\ UNCHANGED <<mode, lock, output>>

(* Mutation: the driver is called without waiting for the device lock. *)
AcquireWithoutWaiting(t) ==
    /\ call[t].stage = "acquire"
    /\ lock' = [lock EXCEPT ![call[t].device] = t]
    /\ call' = [call EXCEPT ![t].stage = "dispatch"]
    /\ UNCHANGED <<mode, output>>

Acquire(t) ==
    /\ call[t].stage = "acquire"
    /\ lock[call[t].device] = NoThread
    /\ lock' = [lock EXCEPT ![call[t].device] = t]
    /\ call' = [call EXCEPT ![t].stage = "dispatch"]
    /\ UNCHANGED <<mode, output>>

(* Mutation: a driver call that raises leaves the device locked. *)
DispatchKeepingLock(t) ==
    LET d == call[t].device IN
    /\ call[t].stage = "dispatch"
    /\ \/ /\ call' = [call EXCEPT ![t].stage = "returned"]
          /\ output' = [output EXCEPT ![d] = call[t].value]
          /\ lock' = [lock EXCEPT ![d] = NoThread]
       \/ /\ call' = [call EXCEPT ![t].stage = "raised"]
          /\ output' \in {output, [output EXCEPT ![d] = call[t].value]}
          /\ UNCHANGED lock
    /\ UNCHANGED mode

(* The driver call.  It succeeds, fails before the hardware reacted, or fails
   although the hardware did react (a lost or rejected reply).  The lock is
   released either way; the audit that follows never raises. *)
Dispatch(t) ==
    LET d == call[t].device IN
    /\ call[t].stage = "dispatch"
    /\ lock' = [lock EXCEPT ![d] = NoThread]
    /\ \/ /\ call' = [call EXCEPT ![t].stage = "returned"]
          /\ output' = [output EXCEPT ![d] = call[t].value]
       \/ /\ call' = [call EXCEPT ![t].stage = "raised"]
          /\ output' \in {output, [output EXCEPT ![d] = call[t].value]}
    /\ UNCHANGED mode

-----------------------------------------------------------------------------
(* Mutation: devices are asked in no particular order. *)
UnsortedSweep(todo) == todo

(* Sweeps over the rig (the global safe state and a recipe's end state)
   attempt every source before any pressure controller. *)
NextInSweep(todo) == IF todo \ Outlets # {} THEN todo \ Outlets ELSE todo

=============================================================================
