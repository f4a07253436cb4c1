-------------------------- MODULE RigControlProofs --------------------------
(* Proofs about RigControl for any set of devices and outlets. *)
EXTENDS RigControl, TLAPS

(***************************************************************************)
(* Type correctness.  The Boolean variables are kept apart from the rest   *)
(* because no backend reasons well about both kinds at once.               *)
(***************************************************************************)

Flags ==
    /\ cancel \in BOOLEAN
    /\ applied \in BOOLEAN
    /\ ownsRecording \in BOOLEAN
    /\ ofailed \in BOOLEAN

(* The types of the other variables, and what an index or a subtraction
   relies on: a thread in execute() has a registered device as its target,
   and a setting is left to write while one is being written. *)
Shape ==
    /\ ServiceTypeOK
    /\ pc \in Labels
    /\ outcome \in {"completed", "stopped", "failed"}
    /\ endAction \in [Devices -> EndActions]
    /\ todo \subseteq Devices
    /\ remaining \in 0 .. EndWrites
    /\ failures \subseteq Devices
    /\ recording \in {"none", "recipe", "operator"}
    /\ opc \in OperatorLabels
    /\ otodo \subseteq Devices
    /\ control \in ControlHistory
    /\ late \in Nat
    /\ \A t \in Threads : call[t].stage # "none" => call[t].device \in Devices
    /\ pc = "end_call" => remaining # 0

(* The Boolean and the other half together are the type invariant. *)
LEMMA TypesFromParts == Flags /\ Shape => TypeOK
  BY DEF Flags, Shape, TypeOK, RunnerTypeOK

(* The rig starts with both halves true: nobody is in execute(). *)
LEMMA InitParts == Init => Flags /\ Shape
  <1> SUFFICES ASSUME Init PROVE Flags /\ Shape
    OBVIOUS
  <1>1. Flags
    BY DEF Init, RunnerInit, Flags
  <1>2. ServiceTypeOK
    <2>1. NoCall \in Calls
      BY DEF NoCall, Calls, Stages, Values, RecipeValues
    <2>2. mode \in Modes /\ output \in [Devices -> Values]
      BY DEF Init, ServiceInit, Modes, Values
    <2>3. lock \in [Devices -> Threads \cup {NoThread}] /\ call \in [Threads -> Calls]
      BY <2>1 DEF Init, ServiceInit
    <2> QED
      BY <2>2, <2>3 DEF ServiceTypeOK
  <1>3. \A t \in Threads : call[t].stage = "none"
    BY DEF Init, ServiceInit, NoCall
  <1> QED
    BY <1>1, <1>2, <1>3, RunnerAssumption
    DEF Init, RunnerInit, Shape, Labels, EndActions, OperatorLabels, ControlHistory

(* Entering and leaving execute() keeps the shape of the calls. *)
CallShape ==
    /\ call \in [Threads -> Calls]
    /\ \A t \in Threads : call[t].stage # "none" => call[t].device \in Devices

(* Entering execute() for a registered device keeps every call well formed. *)
LEMMA ExecuteShape ==
  ASSUME CallShape, NEW t \in Threads, NEW d \in Devices, NEW v \in Values, Execute(t, d, v)
  PROVE  CallShape'
  BY DEF CallShape, Execute, Calls, Stages

(* Picking up the outcome of execute() keeps every call well formed. *)
LEMMA ForgetShape ==
  ASSUME CallShape, NEW t \in Threads, Forget(t)
  PROVE  CallShape'
  BY DEF CallShape, Forget, NoCall, Calls, Stages, Values, RecipeValues

(* A step that does not touch execute() keeps every call well formed. *)
LEMMA SameCallShape == CallShape /\ UNCHANGED call => CallShape'
  BY DEF CallShape

(* The labels the recipe thread moves to are labels. *)
LEMMA LabelFacts ==
  /\ Preparing \cup Running \cup Handling \cup Sweeping \cup Releasing \cup Closing
        \subseteq Labels
  /\ "off" \in Labels
  BY DEF Labels

(* Each step of the recipe thread keeps the types. *)
LEMMA RunnerShape ==
  ASSUME Shape, RunnerStep, UNCHANGED operatorVars, UNCHANGED historyVars
  PROVE  Shape'
  <1> USE RunnerAssumption, LabelFacts
  <1>0. CallShape /\ RecipeValues \subseteq Values /\ "safe" \in Values
    BY DEF Shape, ServiceTypeOK, CallShape, Values
  <1> DEFINE Rest == /\ opc \in OperatorLabels
                     /\ otodo \subseteq Devices
                     /\ control \in ControlHistory
                     /\ late \in Nat
  <1>00. Rest'
    BY DEF Shape, operatorVars, historyVars
  <1>1. CASE StartRecording
    BY <1>1, <1>0, <1>00, SameCallShape DEF StartRecording, Preparing, Handling, Shape, ServiceTypeOK, CallShape,
       unsweptVars, recorderVars, serviceVars
  <1>2. CASE BeginControl
    BY <1>2, <1>0, <1>00, SameCallShape DEF BeginControl, Preparing, Handling, Shape, ServiceTypeOK, CallShape,
       unsweptVars, recorderVars, serviceVars
  <1>3. CASE EmitStarted
    BY <1>3, <1>0, <1>00, SameCallShape DEF EmitStarted, Running, Handling, Shape, ServiceTypeOK, CallShape,
       unsweptVars, recorderVars, serviceVars
  <1>4. CASE WaitCancelled
    BY <1>4, <1>0, <1>00, SameCallShape DEF WaitCancelled, Handling, Shape, ServiceTypeOK, CallShape,
       unsweptVars, recorderVars, serviceVars
  <1>5. CASE WaitOver
    BY <1>5, <1>0, <1>00, SameCallShape DEF WaitOver, Running, Shape, ServiceTypeOK, CallShape,
       unsweptVars, recorderVars, serviceVars
  <1>6. CASE EmitEndState
    BY <1>6, <1>0, <1>00, SameCallShape DEF EmitEndState, RaisedInEndState, Sweeping, Releasing, Handling, Shape, ServiceTypeOK, CallShape,
       unsweptVars, recorderVars, serviceVars
  <1>7. CASE SweepOver
    BY <1>7, <1>0, <1>00, SameCallShape DEF SweepOver, RaisedInEndState, Releasing, Handling, Shape, ServiceTypeOK, CallShape,
       unsweptVars, recorderVars, serviceVars
  <1>8. CASE Finally
    BY <1>8, <1>0, <1>00, SameCallShape DEF Finally, Releasing, Closing, Shape, ServiceTypeOK, CallShape,
       unsweptVars, recorderVars, serviceVars
  <1>9. CASE EndControl
    BY <1>9, <1>0, <1>00, SameCallShape DEF EndControl, Releasing, Closing, Shape, ServiceTypeOK, CallShape,
       unsweptVars, recorderVars, serviceVars
  <1>10. CASE StopRecording
    BY <1>10, <1>0, <1>00, SameCallShape DEF StopRecording, Closing, Shape, ServiceTypeOK, CallShape,
       unsweptVars, recorderVars, serviceVars
  <1>11. CASE HandleStop
    BY <1>11, <1>0, <1>00, SameCallShape DEF HandleStop, Handle, Sweeping, Releasing, Shape, ServiceTypeOK, CallShape,
       unsweptVars, recorderVars, serviceVars
  <1>12. CASE HandleFailure
    BY <1>12, <1>0, <1>00, SameCallShape DEF HandleFailure, Handle, Sweeping, Releasing, Shape, ServiceTypeOK, CallShape,
       unsweptVars, recorderVars, serviceVars
  <1>13. CASE TakeControl
    BY <1>13, <1>0, <1>00, SameCallShape DEF TakeControl, Running, Modes, Shape, ServiceTypeOK, CallShape,
       unsweptVars, recorderVars
  <1>14. CASE ReleaseControl
    BY <1>14, <1>0, <1>00, SameCallShape DEF ReleaseControl, Closing, Modes, Shape, ServiceTypeOK, CallShape,
       unsweptVars, recorderVars
  <1>15. CASE NextItem
    BY <1>15, <1>0, <1>00, SameCallShape, ExecuteShape, ForgetShape
    DEF NextItem, Running, Handling, Sweeping, RecipeValues, Shape, ServiceTypeOK, CallShape, unsweptVars, recorderVars
  <1>16. CASE ItemWritten
    BY <1>16, <1>0, <1>00, SameCallShape, ExecuteShape, ForgetShape
    DEF ItemWritten, Running, Handling, Shape, ServiceTypeOK, CallShape, unsweptVars, recorderVars
  <1>17. CASE EndWritten
    BY <1>17, <1>0, <1>00, SameCallShape, ExecuteShape, ForgetShape
    DEF EndWritten, Sweeping, RecipeValues, Done, Returned, Raised, Shape, ServiceTypeOK, CallShape, unsweptVars, recorderVars
  <1>18. CASE SafeRequested
    BY <1>18, <1>0, <1>00, SameCallShape, ExecuteShape, ForgetShape
    DEF SafeRequested, Sweeping, Done, Returned, Raised, Shape, ServiceTypeOK, CallShape, unsweptVars, recorderVars
  <1>19. CASE \E d \in Devices : SweepDevice(d)
    BY <1>19, <1>0, <1>00, SameCallShape, ExecuteShape, ForgetShape
    DEF SweepDevice, Sweeping, RecipeValues, NextInSweep, Shape, ServiceTypeOK, CallShape, recorderVars
  <1> QED
    BY <1>1, <1>2, <1>3, <1>4, <1>5, <1>6, <1>7, <1>8, <1>9, <1>10, <1>11, <1>12, <1>13, <1>14, <1>15, <1>16, <1>17, <1>18, <1>19 DEF RunnerStep

(* Each step of the operator's thread and each input keeps the types. *)
LEMMA OperatorShape ==
  ASSUME Shape, OperatorNext \/ Inputs \/ RunOver
  PROVE  Shape'
  <1> USE RunnerAssumption, OperatorAssumption, LabelFacts
  <1>0. CallShape /\ {"safe", "manual"} \subseteq Values
    BY DEF Shape, ServiceTypeOK, CallShape, Values
  <1>1. CASE Start
    BY <1>1, <1>0, SameCallShape DEF Start, StartRun, Preparing, Labels, Shape, ServiceTypeOK, CallShape, runnerVars, operatorVars, historyVars, serviceVars, unsweptVars
  <1>2. CASE Stop
    BY <1>2, <1>0, SameCallShape DEF Stop, StopRun, Preparing, Running, Shape, ServiceTypeOK, CallShape, runnerVars, operatorVars, historyVars, serviceVars, unsweptVars
  <1>3. CASE GlobalSafeState
    BY <1>3, <1>0, SameCallShape DEF GlobalSafeState, OperatorLabels, Shape, ServiceTypeOK, CallShape, runnerVars, operatorVars, historyVars, serviceVars, unsweptVars
  <1>4. CASE CheckMode
    BY <1>4, <1>0, SameCallShape DEF CheckMode, BeginSweep, OperatorLabels, Shape, ServiceTypeOK, CallShape, runnerVars, operatorVars, historyVars, serviceVars, unsweptVars
  <1>5. CASE StopRecipeControl
    BY <1>5, <1>0, SameCallShape DEF StopRecipeControl, BeginSweep, OperatorLabels, Modes, ControlHistory, Shape, ServiceTypeOK, CallShape, runnerVars, operatorVars, historyVars, serviceVars, unsweptVars
  <1>6. CASE GlobalSafeStateOver
    BY <1>6, <1>0, SameCallShape DEF GlobalSafeStateOver, OperatorLabels, ControlHistory, Shape, ServiceTypeOK, CallShape, runnerVars, operatorVars, historyVars, serviceVars, unsweptVars
  <1>7. CASE OperatorStartsRecording
    BY <1>7, <1>0, SameCallShape DEF OperatorStartsRecording, Shape, ServiceTypeOK, CallShape, runnerVars, operatorVars, historyVars, serviceVars, unsweptVars
  <1>8. CASE OperatorStopsRecording
    BY <1>8, <1>0, SameCallShape DEF OperatorStopsRecording, Shape, ServiceTypeOK, CallShape, runnerVars, operatorVars, historyVars, serviceVars, unsweptVars
  <1>9. CASE EnterFaultLock
    BY <1>9, <1>0, SameCallShape DEF EnterFaultLock, Modes, ControlHistory, Shape, ServiceTypeOK, CallShape, runnerVars, operatorVars, historyVars, serviceVars, unsweptVars
  <1>10. CASE ClearFaultLock
    BY <1>10, <1>0, SameCallShape DEF ClearFaultLock, Modes, ControlHistory, Shape, ServiceTypeOK, CallShape, runnerVars, operatorVars, historyVars, serviceVars, unsweptVars
  <1>11. CASE RunOver
    BY <1>11, <1>0, SameCallShape DEF RunOver, Publish, EndActions, ControlHistory, Shape, ServiceTypeOK, CallShape, runnerVars, operatorVars, historyVars, serviceVars, unsweptVars
  <1>12. CASE CommandOver
    BY <1>12, <1>0, ForgetShape DEF CommandOver, OperatorLabels, Shape, ServiceTypeOK, CallShape, runnerVars, operatorVars, historyVars, serviceVars, unsweptVars
  <1>13. CASE SafeAnswered
    BY <1>13, <1>0, ForgetShape DEF SafeAnswered, OperatorLabels, Shape, ServiceTypeOK, CallShape, runnerVars, operatorVars, historyVars, serviceVars, unsweptVars
  <1>14. ASSUME NEW d \in Devices, NEW v \in {"manual", "safe"}, ManualCommand(d, v)
        PROVE  Shape'
    BY <1>14, <1>0, ExecuteShape DEF ManualCommand, OperatorLabels, Shape, ServiceTypeOK, CallShape, runnerVars, operatorVars, historyVars, serviceVars, unsweptVars
  <1>15. ASSUME NEW d \in Devices, RequestSafe(d)
        PROVE  Shape'
    BY <1>15, <1>0, ExecuteShape DEF RequestSafe, OperatorLabels, Shape, ServiceTypeOK, CallShape, runnerVars, operatorVars, historyVars, serviceVars, unsweptVars
  <1> QED
    BY <1>1, <1>2, <1>3, <1>4, <1>5, <1>6, <1>7, <1>8, <1>9, <1>10, <1>11, <1>12, <1>13, <1>14, <1>15 DEF OperatorNext, Inputs

(* Each step inside execute(), by either thread, keeps the types. *)
LEMMA CallStepShape ==
  ASSUME Shape, NEW t \in Threads, Call(t)
  PROVE  Shape'
  <1>1. CallShape /\ output \in [Devices -> Values] /\ lock \in [Devices -> Threads \cup {NoThread}]
    BY DEF Shape, ServiceTypeOK, CallShape
  <1>2. CASE AuthorizeCall(t)
    <2>1. CallShape'
      BY <1>1, <1>2 DEF AuthorizeCall, Authorize, CallShape, Calls, Stages
    <2> QED
      BY <1>2, <2>1 DEF AuthorizeCall, Authorize, Shape, ServiceTypeOK, CallShape, runnerVars, operatorVars, historyVars, serviceVars, unsweptVars
  <1>3. CASE AcquireDevice(t)
    <2>1. CallShape'
      BY <1>1, <1>3 DEF AcquireDevice, Acquire, CallShape, Calls, Stages
    <2>2. lock' \in [Devices -> Threads \cup {NoThread}]
      BY <1>1, <1>3 DEF AcquireDevice, Acquire
    <2> QED
      BY <1>3, <2>1, <2>2 DEF AcquireDevice, Acquire, Shape, ServiceTypeOK, CallShape, runnerVars, operatorVars, historyVars, serviceVars, unsweptVars
  <1>4. CASE DispatchCall(t)
    <2>1. CallShape'
      BY <1>1, <1>4 DEF DispatchCall, Dispatch, CallShape, Calls, Stages
    <2>2. lock' \in [Devices -> Threads \cup {NoThread}]
      BY <1>1, <1>4 DEF DispatchCall, Dispatch
    <2>3. output' \in [Devices -> Values]
      <3>1. call[t].value \in Values
        BY <1>1 DEF CallShape, Calls
      <3> QED
        BY <1>1, <1>4, <3>1 DEF DispatchCall, Dispatch
    <2>4. late' \in Nat
      BY <1>4 DEF Shape, DispatchCall
    <2> QED
      BY <1>4, <2>1, <2>2, <2>3, <2>4 DEF DispatchCall, Dispatch, Shape, ServiceTypeOK, CallShape, runnerVars, operatorVars, historyVars, serviceVars, unsweptVars
  <1> QED
    BY <1>2, <1>3, <1>4 DEF Call

(* A step that changes nothing keeps the types. *)
LEMMA StutterShape == Shape /\ UNCHANGED vars => Shape'
  BY SameCallShape DEF vars, Shape, ServiceTypeOK, CallShape, runnerVars, operatorVars, historyVars, serviceVars, unsweptVars

(* Every step keeps the Boolean variables Boolean. *)
LEMMA FlagsStep ==
  ASSUME Flags, [Next]_vars
  PROVE  Flags'
  <1> USE DEF Flags
  <1>1. CASE RunnerNext
    BY <1>1 DEF RunnerNext, RunOver, RunnerStep, StartRecording, BeginControl, TakeControl, EmitStarted, NextItem,
       ItemWritten, WaitCancelled, WaitOver, HandleStop, HandleFailure, Handle, EmitEndState, SweepDevice,
       EndWritten, SafeRequested, SweepOver, Finally, EndControl, ReleaseControl, StopRecording, Publish,
       operatorVars, unsweptVars, recorderVars
  <1>2. CASE OperatorNext
    BY <1>2 DEF OperatorNext, CommandOver, CheckMode, StopRecipeControl, SafeAnswered, GlobalSafeStateOver,
       RequestSafe, BeginSweep, runnerVars
  <1>3. CASE Inputs
    BY <1>3 DEF Inputs, Start, StartRun, Stop, StopRun, ManualCommand, GlobalSafeState, OperatorStartsRecording,
       OperatorStopsRecording, EnterFaultLock, ClearFaultLock, runnerVars, operatorVars, unsweptVars
  <1>4. CASE \E t \in Threads : Call(t)
    BY <1>4 DEF Call, AuthorizeCall, AcquireDevice, DispatchCall, runnerVars, operatorVars
  <1>5. CASE UNCHANGED vars
    BY <1>5 DEF vars, runnerVars, operatorVars
  <1> QED
    BY <1>1, <1>2, <1>3, <1>4, <1>5 DEF Next

(* Every step keeps the types of the other variables. *)
LEMMA ShapeStep ==
  ASSUME Shape, [Next]_vars
  PROVE  Shape'
  BY RunnerShape, OperatorShape, CallStepShape, StutterShape DEF Next, RunnerNext

(* Every variable keeps to its type, for any devices, any faults of devices
   and journals and any operator: in particular a device lock is only ever
   asked for a registered device. *)
THEOREM TypeCorrect == Spec => [](TypeOK /\ Shape)
  <1>1. Init => Flags /\ Shape
    BY InitParts
  <1>2. Flags /\ Shape /\ [Next]_vars => Flags' /\ Shape'
    BY FlagsStep, ShapeStep
  <1>3. Flags /\ Shape => TypeOK /\ Shape
    BY TypesFromParts
  <1> QED
    BY <1>1, <1>2, <1>3, PTL DEF Spec

(***************************************************************************)
(* Control of the rig.                                                     *)
(***************************************************************************)

(* What makes the two properties of control inductive: control that was lost
   is not held, it can only be lost by a run that had begun it, and a recipe
   write that is past authorisation is the first one to be late. *)
ControlInv ==
    /\ ControlHeldByLiveRun
    /\ AtMostOneLateWrite
    /\ call[Operator].value \notin RecipeValues
    /\ control # "kept" => mode # "recipe_active"
    /\ control = "kept" => late = 0
    /\ pc \in {"off"} \cup Preparing => control = "kept"
    /\ /\ control # "kept"
       /\ call[Runner].stage \in {"acquire", "dispatch"}
       /\ call[Runner].value \in RecipeValues
       => late = 0

(* At the start nobody holds control, and no write is late. *)
LEMMA InitControl == Init => ControlInv
  BY OperatorAssumption
  DEF Init, ServiceInit, RunnerInit, ControlInv, ControlHeldByLiveRun, AtMostOneLateWrite, NoCall,
      RecipeValues

(* The recipe thread takes the recipe mode only as a run begins and releases it
   before the run can end; none of its steps makes a write late. *)
LEMMA RunnerControl ==
  ASSUME Shape, ControlInv, RunnerStep, UNCHANGED operatorVars, UNCHANGED historyVars
  PROVE  ControlInv'
  <1> USE OperatorAssumption, RunnerAssumption
      DEF ControlInv, ControlHeldByLiveRun, AtMostOneLateWrite, operatorVars, historyVars, serviceVars,
          Preparing, Running, Handling, Sweeping, Releasing, Closing
  <1>0. call \in [Threads -> Calls] /\ Runner \in Threads /\ Operator \in Threads
    BY DEF Shape, ServiceTypeOK
  <1>1. CASE StartRecording
    BY <1>1, <1>0 DEF StartRecording
  <1>2. CASE BeginControl
    BY <1>2, <1>0 DEF BeginControl
  <1>3. CASE EmitStarted
    BY <1>3, <1>0 DEF EmitStarted
  <1>4. CASE WaitCancelled
    BY <1>4, <1>0 DEF WaitCancelled
  <1>5. CASE WaitOver
    BY <1>5, <1>0 DEF WaitOver
  <1>6. CASE HandleStop
    BY <1>6, <1>0 DEF HandleStop, Handle
  <1>7. CASE HandleFailure
    BY <1>7, <1>0 DEF HandleFailure, Handle
  <1>8. CASE EmitEndState
    BY <1>8, <1>0 DEF EmitEndState, RaisedInEndState
  <1>9. CASE SweepOver
    BY <1>9, <1>0 DEF SweepOver, RaisedInEndState
  <1>10. CASE Finally
    BY <1>10, <1>0 DEF Finally
  <1>11. CASE EndControl
    BY <1>11, <1>0 DEF EndControl
  <1>12. CASE StopRecording
    BY <1>12, <1>0 DEF StopRecording
  <1>13. CASE TakeControl
    BY <1>13, <1>0 DEF TakeControl
  <1>14. CASE ReleaseControl
    BY <1>14, <1>0 DEF ReleaseControl
  <1>15. CASE NextItem
    BY <1>15, <1>0 DEF NextItem, Execute
  <1>16. CASE ItemWritten
    BY <1>16, <1>0 DEF ItemWritten, Forget, NoCall
  <1>17. CASE EndWritten
    BY <1>17, <1>0 DEF EndWritten, Execute, Forget, NoCall
  <1>18. CASE SafeRequested
    BY <1>18, <1>0 DEF SafeRequested, Forget, NoCall
  <1>19. CASE \E d \in Devices : SweepDevice(d)
    BY <1>19, <1>0 DEF SweepDevice, Execute
  <1> QED
    BY <1>1, <1>2, <1>3, <1>4, <1>5, <1>6, <1>7, <1>8, <1>9, <1>10, <1>11, <1>12, <1>13, <1>14, <1>15, <1>16, <1>17, <1>18, <1>19 DEF RunnerStep

(* The operator can only take control away, which makes at most the one write
   under way late. *)
LEMMA OperatorControl ==
  ASSUME Shape, ControlInv, OperatorNext \/ Inputs \/ RunOver
  PROVE  ControlInv'
  <1> USE OperatorAssumption, RunnerAssumption
      DEF ControlInv, ControlHeldByLiveRun, AtMostOneLateWrite, operatorVars, historyVars, serviceVars,
          runnerVars, Preparing, Running, Handling, Sweeping, Releasing, Closing
  <1>0. call \in [Threads -> Calls] /\ Runner \in Threads /\ Operator \in Threads
    BY DEF Shape, ServiceTypeOK
  <1>1. CASE Start
    BY <1>1, <1>0 DEF Start, StartRun
  <1>2. CASE Stop
    BY <1>2, <1>0 DEF Stop, StopRun
  <1>3. CASE GlobalSafeState
    BY <1>3, <1>0 DEF GlobalSafeState
  <1>4. CASE CheckMode
    BY <1>4, <1>0 DEF CheckMode
  <1>5. CASE StopRecipeControl
    BY <1>5, <1>0 DEF StopRecipeControl
  <1>6. CASE GlobalSafeStateOver
    BY <1>6, <1>0 DEF GlobalSafeStateOver
  <1>7. CASE OperatorStartsRecording
    BY <1>7, <1>0 DEF OperatorStartsRecording
  <1>8. CASE OperatorStopsRecording
    BY <1>8, <1>0 DEF OperatorStopsRecording
  <1>9. CASE EnterFaultLock
    BY <1>9, <1>0 DEF EnterFaultLock
  <1>10. CASE ClearFaultLock
    BY <1>10, <1>0 DEF ClearFaultLock
  <1>11. CASE RunOver
    BY <1>11, <1>0 DEF RunOver, Publish
  <1>12. CASE CommandOver
    BY <1>12, <1>0 DEF CommandOver, Forget, NoCall, RecipeValues
  <1>13. CASE SafeAnswered
    BY <1>13, <1>0 DEF SafeAnswered, Forget, NoCall, RecipeValues
  <1>14. CASE \E d \in Devices, v \in {"manual", "safe"} : ManualCommand(d, v)
    BY <1>14, <1>0 DEF ManualCommand, Execute, RecipeValues
  <1>15. CASE \E d \in Devices : RequestSafe(d)
    BY <1>15, <1>0 DEF RequestSafe, Execute, RecipeValues
  <1> QED
    BY <1>1, <1>2, <1>3, <1>4, <1>5, <1>6, <1>7, <1>8, <1>9, <1>10, <1>11, <1>12, <1>13, <1>14, <1>15 DEF OperatorNext, Inputs

(* Inside execute(), a write allowed before control was lost is the only late one:
   afterwards authorisation refuses. *)
LEMMA CallControl ==
  ASSUME Shape, ControlInv, NEW t \in Threads, Call(t)
  PROVE  ControlInv'
  <1> USE OperatorAssumption, RunnerAssumption
      DEF ControlInv, ControlHeldByLiveRun, AtMostOneLateWrite, operatorVars, historyVars, runnerVars
  <1>0. /\ call \in [Threads -> Calls] /\ Runner \in Threads /\ Operator \in Threads
        /\ late \in Nat
    BY DEF Shape, ServiceTypeOK
  <1>1. CASE AuthorizeCall(t)
    BY <1>0, <1>1 DEF AuthorizeCall, Authorize, Allowed, RecipeValues, Calls
  <1>2. CASE AcquireDevice(t)
    BY <1>0, <1>2 DEF AcquireDevice, Acquire, Calls
  <1>3. CASE DispatchCall(t)
    BY <1>0, <1>3 DEF DispatchCall, Dispatch, Calls
  <1> QED
    BY <1>1, <1>2, <1>3 DEF Call

(* Every step keeps the bound on control and on late writes. *)
LEMMA ControlStep ==
  ASSUME Shape, ControlInv, [Next]_vars
  PROVE  ControlInv'
  <1>1. CASE UNCHANGED vars
    BY <1>1 DEF ControlInv, ControlHeldByLiveRun, AtMostOneLateWrite, vars, serviceVars, runnerVars, historyVars
  <1> QED
    BY <1>1, RunnerControl, OperatorControl, CallControl DEF Next, RunnerNext

(* The bound on control and on late writes holds of every behaviour. *)
LEMMA ControlInvariant == Spec => []ControlInv
  <1>1. Init => Shape /\ ControlInv
    BY InitParts, InitControl
  <1>2. Shape /\ ControlInv /\ [Next]_vars => Shape' /\ ControlInv'
    BY ShapeStep, ControlStep
  <1> QED
    BY <1>1, <1>2, PTL DEF Spec

(* Whatever fails and however the threads interleave, control is with the
   recipe only while a run that began it is alive: no way out of a run leaves
   the manual controls refused. *)
THEOREM ControlEndsWithRun == Spec => []ControlHeldByLiveRun
  <1>1. ControlInv => ControlHeldByLiveRun
    BY DEF ControlInv
  <1> QED
    BY <1>1, ControlInvariant, PTL

(* At most one recipe write reaches a device after control was taken from the
   run, by a global safe state or by the fault lock. *)
THEOREM ControlIsBounded == Spec => []AtMostOneLateWrite
  <1>1. ControlInv => AtMostOneLateWrite
    BY DEF ControlInv
  <1> QED
    BY <1>1, ControlInvariant, PTL

(***************************************************************************)
(* The device locks.                                                       *)
(***************************************************************************)

LockHeld == \A t \in Threads : call[t].stage = "dispatch" => lock[call[t].device] = t

(* Each driver call holding its device's lock, two calls on one device would be
   by one holder. *)
LEMMA LockImpliesExclusion == ASSUME LockHeld PROVE OneOperationPerDevice
  BY DEF LockHeld, OneOperationPerDevice

(* A thread enters or leaves execute() without touching the locks. *)
LEMMA LockOutside ==
  ASSUME Shape, LockHeld, UNCHANGED lock,
         \/ UNCHANGED call
         \/ \E t \in Threads : Forget(t)
         \/ \E t \in Threads, d \in Devices, v \in Values : Execute(t, d, v)
  PROVE  LockHeld'
  BY DEF LockHeld, Forget, NoCall, Execute, Shape, ServiceTypeOK

(* The recipe thread outside execute() changes no lock, and only its own call,
   to the entry or the exit of execute(). *)
LEMMA RunnerCallChange ==
  ASSUME Shape, RunnerNext
  PROVE  /\ UNCHANGED lock
         /\ \/ UNCHANGED call
            \/ Forget(Runner)
            \/ \E d \in Devices, v \in Values : Execute(Runner, d, v)
  <1>1. {"safe"} \cup RecipeValues \subseteq Values
    BY DEF Values
  <1>2. CASE NextItem \/ (\E d \in Devices : SweepDevice(d))
    BY <1>1, <1>2 DEF NextItem, SweepDevice, NextInSweep, Shape, RecipeValues
  <1>3. CASE EndWritten \/ ItemWritten \/ SafeRequested
    BY <1>1, <1>3, RunnerAssumption
    DEF EndWritten, ItemWritten, SafeRequested, Done, Returned, Raised, RecipeValues, Shape
  <1> QED
    BY <1>2, <1>3
    DEF RunnerNext, RunOver, Publish, RunnerStep, StartRecording, BeginControl, TakeControl, EmitStarted, WaitCancelled,
        WaitOver, HandleStop, HandleFailure, Handle, EmitEndState, SweepOver, Finally, EndControl,
        ReleaseControl, StopRecording, serviceVars

(* The operator's thread outside execute() changes no lock, and only its own
   call, to the entry or the exit of execute(). *)
LEMMA OperatorCallChange ==
  ASSUME Shape, OperatorNext \/ Inputs
  PROVE  /\ UNCHANGED lock
         /\ \/ UNCHANGED call
            \/ Forget(Operator)
            \/ \E d \in Devices, v \in Values : Execute(Operator, d, v)
  <1>1. {"safe", "manual"} \subseteq Values
    BY DEF Values
  <1> QED
    BY <1>1
    DEF OperatorNext, CommandOver, CheckMode, StopRecipeControl, SafeAnswered, GlobalSafeStateOver, RequestSafe,
        Inputs, Start, StartRun, Stop, StopRun, GlobalSafeState, ManualCommand, OperatorStartsRecording,
        OperatorStopsRecording, EnterFaultLock, ClearFaultLock, serviceVars

(* Every step keeps each driver call under its device's lock. *)
LEMMA LockStep ==
  ASSUME Shape, LockHeld, [Next]_vars
  PROVE  LockHeld'
  <1> USE OperatorAssumption
  <1>1. CASE RunnerNext
    BY <1>1, RunnerCallChange, LockOutside
  <1>2. CASE OperatorNext \/ Inputs
    BY <1>2, OperatorCallChange, LockOutside
  <1>3. ASSUME NEW t \in Threads, Call(t)
        PROVE  LockHeld'
    <2>0. /\ call \in [Threads -> Calls] /\ lock \in [Devices -> Threads \cup {NoThread}]
          /\ \A u \in Threads : call[u].stage # "none" => call[u].device \in Devices
      BY DEF Shape, ServiceTypeOK
    <2>1. CASE AuthorizeCall(t)
      BY <2>0, <2>1 DEF AuthorizeCall, Authorize, LockHeld, Calls
    <2>2. CASE AcquireDevice(t)
      BY <2>0, <2>2, ThreadsAssumption DEF AcquireDevice, Acquire, LockHeld, Calls
    <2>3. CASE DispatchCall(t)
      BY <2>0, <2>3 DEF DispatchCall, Dispatch, LockHeld, Calls
    <2> QED
      BY <1>3, <2>1, <2>2, <2>3 DEF Call
  <1>4. CASE UNCHANGED vars
    BY <1>4 DEF LockHeld, vars, serviceVars
  <1> QED
    BY <1>1, <1>2, <1>3, <1>4 DEF Next

(* The device locks do their work: two threads never operate one device at the
   same time, although each acquires the lock long after it was authorised. *)
THEOREM OperationsAreExclusive == Spec => []OneOperationPerDevice
  <1>1. Init => Shape /\ LockHeld
    BY InitParts DEF Init, ServiceInit, NoCall, LockHeld
  <1>2. Shape /\ LockHeld /\ [Next]_vars => Shape' /\ LockHeld'
    BY ShapeStep, LockStep
  <1>3. LockHeld => OneOperationPerDevice
    BY LockImpliesExclusion
  <1> QED
    BY <1>1, <1>2, <1>3, PTL DEF Spec

(***************************************************************************)
(* The end state of a run.                                                 *)
(***************************************************************************)

InSweep == {"sweep", "end_call", "safe_call"}

(* What makes EndStateReached inductive: only a step's own write can leave a
   device as a step does; every device the sweep has passed is as the end
   state asks or reported, the one in hand as soon as its call returns; and
   `applied' is set only by a sweep that passed them all and returned. *)
EndInv ==
    /\ \A t \in Threads : call[t].value = "step" => t = Runner /\ pc = "item_call"
    /\ pc \in InSweep =>
          \A d \in Devices \ todo :
              \/ Ended(d)
              \/ pc # "sweep" /\ d = call[Runner].device
    /\ pc \in {"end_call", "safe_call"} =>
          /\ call[Runner].stage # "none"
          /\ call[Runner].stage = "returned" => output[call[Runner].device] # "step"
    /\ applied => pc \in Releasing \cup Closing
    /\ pc \in Releasing \cup Closing /\ applied => \A d \in Devices : Ended(d)
    /\ pc \in Releasing \cup Closing /\ outcome = "completed" => applied

(* The inductive invariant contains the property of the end state. *)
LEMMA EndInvImplies == ASSUME EndInv PROVE EndStateReached
  BY DEF EndInv, EndStateReached, Ended, InSweep

(* At the start no run has ended. *)
LEMMA InitEnd == Init => EndInv
  BY DEF Init, ServiceInit, RunnerInit, EndInv, NoCall, InSweep, Preparing, Running, Handling, Releasing, Closing

(* Each step of the recipe thread keeps the end-state invariant: a device leaves
   the sweep written, made safe, left on purpose or reported. *)
LEMMA RunnerEnd ==
  ASSUME Shape, EndInv, RunnerStep, UNCHANGED operatorVars, UNCHANGED historyVars
  PROVE  EndInv'
  <1> USE OperatorAssumption, RunnerAssumption
      DEF EndInv, Ended, InSweep, serviceVars, unsweptVars, recorderVars,
          Preparing, Running, Handling, Releasing, Closing
  <1>0. /\ call \in [Threads -> Calls] /\ Runner \in Threads
        /\ output \in [Devices -> Values] /\ todo \subseteq Devices
        /\ \A u \in Threads : call[u].stage # "none" => call[u].device \in Devices
    BY DEF Shape, ServiceTypeOK
  <1>1. CASE StartRecording
    BY <1>1, <1>0 DEF StartRecording
  <1>2. CASE BeginControl
    BY <1>2, <1>0 DEF BeginControl
  <1>3. CASE EmitStarted
    BY <1>3, <1>0 DEF EmitStarted
  <1>4. CASE WaitCancelled
    BY <1>4, <1>0 DEF WaitCancelled
  <1>5. CASE WaitOver
    BY <1>5, <1>0 DEF WaitOver
  <1>6. CASE HandleStop
    BY <1>6, <1>0 DEF HandleStop, Handle
  <1>7. CASE HandleFailure
    BY <1>7, <1>0 DEF HandleFailure, Handle
  <1>8. CASE EmitEndState
    BY <1>8, <1>0 DEF EmitEndState, RaisedInEndState
  <1>9. CASE SweepOver
    BY <1>9, <1>0 DEF SweepOver, RaisedInEndState
  <1>10. CASE Finally
    BY <1>10, <1>0 DEF Finally
  <1>11. CASE EndControl
    BY <1>11, <1>0 DEF EndControl
  <1>12. CASE StopRecording
    BY <1>12, <1>0 DEF StopRecording
  <1>13. CASE TakeControl
    BY <1>13, <1>0 DEF TakeControl
  <1>14. CASE ReleaseControl
    BY <1>14, <1>0 DEF ReleaseControl
  <1>15. CASE NextItem
    BY <1>15, <1>0 DEF NextItem, Execute
  <1>16. CASE ItemWritten
    BY <1>16, <1>0 DEF ItemWritten, Forget, NoCall
  <1>17. CASE EndWritten
    BY <1>17, <1>0 DEF EndWritten, Execute, Forget, NoCall, Done, Returned, Raised
  <1>18. CASE SafeRequested
    BY <1>18, <1>0 DEF SafeRequested, Forget, NoCall, Done, Returned, Raised
  <1>19. ASSUME NEW d \in Devices, SweepDevice(d)
        PROVE  EndInv'
    BY <1>19, <1>0 DEF SweepDevice, Execute
  <1> QED
    BY <1>1, <1>2, <1>3, <1>4, <1>5, <1>6, <1>7, <1>8, <1>9, <1>10, <1>11, <1>12, <1>13, <1>14, <1>15, <1>16, <1>17, <1>18, <1>19 DEF RunnerStep

(* The operator cannot undo it: nothing it asks for leaves a recipe step's value. *)
LEMMA OperatorEnd ==
  ASSUME Shape, EndInv, OperatorNext \/ Inputs \/ RunOver
  PROVE  EndInv'
  <1> USE OperatorAssumption, RunnerAssumption
      DEF EndInv, Ended, InSweep, serviceVars, runnerVars, unsweptVars,
          Preparing, Running, Handling, Releasing, Closing
  <1>0. /\ call \in [Threads -> Calls] /\ Runner \in Threads /\ Operator \in Threads
        /\ output \in [Devices -> Values] /\ todo \subseteq Devices
    BY DEF Shape, ServiceTypeOK
  <1>1. CASE Start
    BY <1>1, <1>0 DEF Start, StartRun
  <1>2. CASE Stop
    BY <1>2, <1>0 DEF Stop, StopRun
  <1>3. CASE GlobalSafeState
    BY <1>3, <1>0 DEF GlobalSafeState
  <1>4. CASE CheckMode
    BY <1>4, <1>0 DEF CheckMode
  <1>5. CASE StopRecipeControl
    BY <1>5, <1>0 DEF StopRecipeControl
  <1>6. CASE GlobalSafeStateOver
    BY <1>6, <1>0 DEF GlobalSafeStateOver
  <1>7. CASE OperatorStartsRecording
    BY <1>7, <1>0 DEF OperatorStartsRecording
  <1>8. CASE OperatorStopsRecording
    BY <1>8, <1>0 DEF OperatorStopsRecording
  <1>9. CASE EnterFaultLock
    BY <1>9, <1>0 DEF EnterFaultLock
  <1>10. CASE ClearFaultLock
    BY <1>10, <1>0 DEF ClearFaultLock
  <1>11. CASE RunOver
    BY <1>11, <1>0 DEF RunOver, Publish
  <1>12. CASE CommandOver
    BY <1>12, <1>0 DEF CommandOver, Forget, NoCall
  <1>13. CASE SafeAnswered
    BY <1>13, <1>0 DEF SafeAnswered, Forget, NoCall
  <1>14. CASE \E d \in Devices, v \in {"manual", "safe"} : ManualCommand(d, v)
    BY <1>14, <1>0 DEF ManualCommand, Execute
  <1>15. CASE \E d \in Devices : RequestSafe(d)
    BY <1>15, <1>0 DEF RequestSafe, Execute
  <1> QED
    BY <1>1, <1>2, <1>3, <1>4, <1>5, <1>6, <1>7, <1>8, <1>9, <1>10, <1>11, <1>12, <1>13, <1>14, <1>15 DEF OperatorNext, Inputs

(* A driver call of a sweep, successful or not, leaves its device where the
   invariant says; a step's write is never in flight during a sweep. *)
LEMMA CallEnd ==
  ASSUME Shape, EndInv, NEW t \in Threads, Call(t)
  PROVE  EndInv'
  <1> USE OperatorAssumption, RunnerAssumption
      DEF EndInv, Ended, InSweep, runnerVars
  <1>0. /\ call \in [Threads -> Calls] /\ Runner \in Threads
        /\ output \in [Devices -> Values] /\ todo \subseteq Devices
        /\ \A u \in Threads : call[u].stage # "none" => call[u].device \in Devices
    BY DEF Shape, ServiceTypeOK
  <1>1. CASE AuthorizeCall(t)
    BY <1>0, <1>1 DEF AuthorizeCall, Authorize, Calls
  <1>2. CASE AcquireDevice(t)
    BY <1>0, <1>2 DEF AcquireDevice, Acquire, Calls
  <1>3. CASE DispatchCall(t)
    <2> DEFINE w == call[t]
    <2>1. /\ UNCHANGED <<pc, todo, endAction, failures, applied, outcome>>
          /\ w.device \in Devices /\ w.stage = "dispatch"
          /\ output' \in {output, [output EXCEPT ![w.device] = w.value]}
          /\ call' \in {[call EXCEPT ![t].stage = "returned"], [call EXCEPT ![t].stage = "raised"]}
      BY <1>0, <1>3 DEF DispatchCall, Dispatch
    <2>2. \A u \in Threads : call'[u].value = call[u].value /\ call'[u].device = call[u].device
      BY <1>0, <2>1 DEF Calls
    <2>3. call'[Runner].stage = "none" <=> call[Runner].stage = "none"
      BY <1>0, <2>1 DEF Calls
    <2>4. CASE pc = "item_call"
      BY <2>1, <2>2, <2>4 DEF Preparing, Running, Handling, Releasing, Closing
    <2>5. CASE pc # "item_call"
      <3>1. w.value # "step"
        BY <2>5
      <3>2. \A d \in Devices : output'[d] = "step" => output[d] = "step"
        BY <1>0, <2>1, <3>1
      <3>3. \A d \in Devices : Ended(d) => Ended(d)'
        BY <2>1, <3>2
      <3>4. ASSUME pc \in {"end_call", "safe_call"}, call'[Runner].stage = "returned"
            PROVE  output'[call'[Runner].device] # "step"
        <4>1. CASE t = Runner
          BY <1>0, <1>3, <2>1, <2>2, <3>1, <3>4, <4>1 DEF DispatchCall, Dispatch, Calls
        <4>2. CASE t # Runner
          <5>1. call[Runner].stage = "returned" /\ call[Runner].device \in Devices
            BY <1>0, <2>1, <3>4, <4>2
          <5> QED
            BY <2>2, <3>2, <3>4, <5>1, <1>0
        <4> QED
          BY <4>1, <4>2
      <3>5. ASSUME pc \in InSweep, NEW d \in Devices \ todo
            PROVE  Ended(d)' \/ (pc # "sweep" /\ d = call'[Runner].device)
        <4>1. Ended(d) \/ (pc # "sweep" /\ d = call[Runner].device)
          BY <3>5
        <4>2. call'[Runner].device = call[Runner].device
          BY <1>0, <2>2
        <4>3. Ended(d) => Ended(d)'
          BY <3>3
        <4> QED
          BY <4>1, <4>2, <4>3
      <3> QED
        BY <2>1, <2>2, <2>3, <3>3, <3>4, <3>5, <1>0
    <2> QED
      BY <2>4, <2>5
  <1> QED
    BY <1>1, <1>2, <1>3 DEF Call

(* Every step keeps the end-state invariant. *)
LEMMA EndStep ==
  ASSUME Shape, EndInv, [Next]_vars
  PROVE  EndInv'
  <1>1. CASE UNCHANGED vars
    BY <1>1 DEF EndInv, Ended, vars, serviceVars, runnerVars
  <1> QED
    BY <1>1, RunnerEnd, OperatorEnd, CallEnd DEF Next, RunnerNext

(* Whatever fails during a run and whoever else writes meanwhile, a sweep leaves
   no device it has passed as a recipe step did, unless it was meant to be left or
   is among the failures; when it returns those are what the run reports; and a
   completed run has had one.  Of a run whose events cannot be written it says only
   the first. *)
THEOREM EndStateIsReached == Spec => []EndStateReached
  <1>1. Init => Shape /\ EndInv
    BY InitParts, InitEnd
  <1>2. Shape /\ EndInv /\ [Next]_vars => Shape' /\ EndInv'
    BY ShapeStep, EndStep
  <1>3. EndInv => EndStateReached
    BY EndInvImplies
  <1> QED
    BY <1>1, <1>2, <1>3, PTL DEF Spec

(***************************************************************************)
(* The recordings.                                                         *)
(***************************************************************************)

(* What makes RecordingEndsWithRun inductive: the run knows a recording to be
   its own from the moment it is open until the run closes it. *)
RecordInv ==
    recording = "recipe" => ownsRecording = TRUE /\ pc \notin {"off", "record", "publish"}

(* Each step keeps the recipe's recording in the hands of its run. *)
LEMMA RecordStep ==
  ASSUME RecordInv, [Next]_vars
  PROVE  RecordInv'
  <1> USE DEF RecordInv, Preparing, Running, unsweptVars, recorderVars, serviceVars, runnerVars,
              operatorVars, historyVars
  <1>1. CASE RunnerNext
    <2>1. CASE StartRecording \/ BeginControl \/ TakeControl \/ EmitStarted \/ NextItem \/ ItemWritten
               \/ WaitCancelled \/ WaitOver \/ HandleStop \/ HandleFailure
      BY <2>1
      DEF StartRecording, BeginControl, TakeControl, EmitStarted, NextItem, ItemWritten,
          WaitCancelled, WaitOver, HandleStop, HandleFailure, Handle
    <2>2. CASE EmitEndState \/ EndWritten \/ SafeRequested \/ SweepOver \/ \E d \in Devices : SweepDevice(d)
      BY <2>2 DEF EmitEndState, EndWritten, SafeRequested, SweepOver, SweepDevice, RaisedInEndState
    <2>3. CASE Finally \/ EndControl \/ ReleaseControl \/ StopRecording \/ RunOver
      BY <2>3 DEF Finally, EndControl, ReleaseControl, StopRecording, RunOver, Publish
    <2> QED
      BY <1>1, <2>1, <2>2, <2>3 DEF RunnerNext, RunnerStep
  <1>2. CASE OperatorNext
    BY <1>2
    DEF OperatorNext, CommandOver, CheckMode, StopRecipeControl, SafeAnswered, GlobalSafeStateOver, RequestSafe
  <1>3. CASE Inputs
    BY <1>3
    DEF Inputs, Start, StartRun, Stop, StopRun, ManualCommand, GlobalSafeState, OperatorStartsRecording,
        OperatorStopsRecording, EnterFaultLock, ClearFaultLock
  <1>4. CASE \E t \in Threads : Call(t)
    BY <1>4 DEF Call, AuthorizeCall, AcquireDevice, DispatchCall
  <1>5. CASE UNCHANGED vars
    BY <1>5 DEF vars
  <1> QED
    BY <1>1, <1>2, <1>3, <1>4, <1>5 DEF Next

(* Whatever ends a run, and whoever stops or starts recordings meanwhile, a
   recording the recipe started is not left open behind it. *)
THEOREM RecordingIsClosed == Spec => []RecordingEndsWithRun
  <1>1. Init => RecordInv
    BY DEF Init, RunnerInit, RecordInv
  <1>2. RecordInv /\ [Next]_vars => RecordInv'
    BY RecordStep
  <1>3. RecordInv => RecordingEndsWithRun
    BY DEF RecordInv, RecordingEndsWithRun
  <1> QED
    BY <1>1, <1>2, <1>3, PTL DEF Spec

(* Of all the steps only the run's own start of a recording makes it the
   recipe's, and it is refused while another is open. *)
LEMMA OnlyStartRecords ==
  ASSUME [Next]_vars, recording = "operator"
  PROVE  recording' # "recipe"
  <1> USE DEF unsweptVars, recorderVars, serviceVars, runnerVars, operatorVars, historyVars
  <1>1. CASE RunnerNext
    BY <1>1
    DEF RunnerNext, RunOver, RunnerStep, StartRecording, BeginControl, TakeControl, EmitStarted, NextItem,
        ItemWritten, WaitCancelled, WaitOver, HandleStop, HandleFailure, Handle, EmitEndState, SweepDevice,
        EndWritten, SafeRequested, SweepOver, Finally, EndControl, ReleaseControl, StopRecording, Publish
  <1>2. CASE OperatorNext
    BY <1>2
    DEF OperatorNext, CommandOver, CheckMode, StopRecipeControl, SafeAnswered, GlobalSafeStateOver, RequestSafe
  <1>3. CASE Inputs
    BY <1>3
    DEF Inputs, Start, StartRun, Stop, StopRun, ManualCommand, GlobalSafeState, OperatorStartsRecording,
        OperatorStopsRecording, EnterFaultLock, ClearFaultLock
  <1>4. CASE \E t \in Threads : Call(t)
    BY <1>4 DEF Call, AuthorizeCall, AcquireDevice, DispatchCall
  <1>5. CASE UNCHANGED vars
    BY <1>5 DEF vars
  <1> QED
    BY <1>1, <1>2, <1>3, <1>4, <1>5 DEF Next

(* A recipe never replaces an operator's recording, even one that was started
   after the run was. *)
THEOREM OperatorKeepsRecording == Spec => RecordingNeverReplaced
  <1>1. [Next]_vars => [recording = "operator" => recording' # "recipe"]_vars
    BY OnlyStartRecords
  <1> QED
    BY <1>1, PTL DEF Spec, RecordingNeverReplaced

(***************************************************************************)
(* The order of a sweep.                                                   *)
(***************************************************************************)

(* The next device of a sweep is an outlet only when no source is left. *)
LEMMA SweepOrder ==
  ASSUME NEW todo_, NEW d \in NextInSweep(todo_)
  PROVE  d \in todo_ /\ (d \in Outlets => todo_ \subseteq Outlets)
  BY DEF NextInSweep

(* A step inside execute(), or of the other thread, does not turn a thread's
   call to another device. *)
LEMMA RunnerOrder ==
  ASSUME Shape, SourcesBeforeOutlets, RunnerNext
  PROVE  SourcesBeforeOutlets'
  <1> USE OperatorAssumption, RunnerAssumption DEF SourcesBeforeOutlets
  <1>0. call \in [Threads -> Calls] /\ Runner \in Threads /\ Operator \in Threads
    BY DEF Shape, ServiceTypeOK
  <1>1. ASSUME NEW d \in Devices, SweepDevice(d), UNCHANGED operatorVars
        PROVE  SourcesBeforeOutlets'
    <2>1. d \in todo /\ (d \in Outlets => todo \subseteq Outlets)
      BY <1>1, SweepOrder DEF SweepDevice
    <2> QED
      BY <1>0, <1>1, <2>1 DEF SweepDevice, Execute, operatorVars
  <1>2. CASE EndWritten /\ UNCHANGED operatorVars
    BY <1>0, <1>2 DEF EndWritten, Execute, Forget, operatorVars
  <1>3. CASE (NextItem \/ ItemWritten \/ SafeRequested) /\ UNCHANGED operatorVars
    BY <1>0, <1>3 DEF NextItem, ItemWritten, SafeRequested, Execute, Forget, operatorVars
  <1>4. CASE (EmitEndState \/ SweepOver) /\ UNCHANGED operatorVars
    BY <1>4 DEF EmitEndState, SweepOver, RaisedInEndState, serviceVars, operatorVars
  <1>5. CASE (StartRecording \/ BeginControl \/ TakeControl \/ EmitStarted \/ WaitCancelled \/ WaitOver
              \/ HandleStop \/ HandleFailure) /\ UNCHANGED operatorVars
    BY <1>5
    DEF StartRecording, BeginControl, TakeControl, EmitStarted, WaitCancelled, WaitOver, HandleStop,
        HandleFailure, Handle, serviceVars, operatorVars
  <1>6. CASE (Finally \/ EndControl \/ ReleaseControl \/ StopRecording \/ RunOver) /\ UNCHANGED operatorVars
    BY <1>6 DEF Finally, EndControl, ReleaseControl, StopRecording, RunOver, Publish, serviceVars, operatorVars
  <1> QED
    BY <1>1, <1>2, <1>3, <1>4, <1>5, <1>6 DEF RunnerNext, RunnerStep, RunOver

(* The operator's sweep asks for an outlet only when no source is left to it. *)
LEMMA OperatorOrder ==
  ASSUME Shape, SourcesBeforeOutlets, OperatorNext \/ Inputs
  PROVE  SourcesBeforeOutlets'
  <1> USE OperatorAssumption, RunnerAssumption DEF SourcesBeforeOutlets
  <1>0. call \in [Threads -> Calls] /\ Runner \in Threads /\ Operator \in Threads
    BY DEF Shape, ServiceTypeOK
  <1>1. ASSUME NEW d \in Devices, RequestSafe(d)
        PROVE  SourcesBeforeOutlets'
    <2>1. d \in otodo /\ (d \in Outlets => otodo \subseteq Outlets)
      BY <1>1, SweepOrder DEF RequestSafe
    <2> QED
      BY <1>0, <1>1, <2>1 DEF RequestSafe, Execute, runnerVars
  <1>2. CASE CommandOver \/ SafeAnswered
    BY <1>0, <1>2 DEF CommandOver, SafeAnswered, Forget, runnerVars
  <1>3. CASE \E d \in Devices, v \in {"manual", "safe"} : ManualCommand(d, v)
    BY <1>0, <1>3 DEF ManualCommand, Execute, runnerVars
  <1>4. CASE CheckMode \/ StopRecipeControl \/ GlobalSafeStateOver \/ GlobalSafeState
    BY <1>4 DEF CheckMode, StopRecipeControl, GlobalSafeStateOver, GlobalSafeState, runnerVars, serviceVars
  <1>5. CASE Start \/ Stop \/ OperatorStartsRecording \/ OperatorStopsRecording
    BY <1>5
    DEF Start, StartRun, Stop, StopRun, OperatorStartsRecording, OperatorStopsRecording, Preparing, Running,
        unsweptVars, serviceVars, operatorVars
  <1>6. CASE EnterFaultLock \/ ClearFaultLock
    BY <1>6 DEF EnterFaultLock, ClearFaultLock, runnerVars, operatorVars
  <1> QED
    BY <1>1, <1>2, <1>3, <1>4, <1>5, <1>6 DEF OperatorNext, Inputs

(* Inside execute() a call stays with its device. *)
LEMMA CallOrder ==
  ASSUME Shape, SourcesBeforeOutlets, NEW t \in Threads, Call(t)
  PROVE  SourcesBeforeOutlets'
  <1>0. call \in [Threads -> Calls] /\ Runner \in Threads /\ Operator \in Threads
    BY OperatorAssumption, RunnerAssumption DEF Shape, ServiceTypeOK
  <1>1. \A u \in Threads : call'[u].device = call[u].device
    BY <1>0 DEF Call, AuthorizeCall, Authorize, AcquireDevice, Acquire, DispatchCall, Dispatch, Calls
  <1>2. UNCHANGED <<pc, opc, todo, otodo>>
    BY DEF Call, AuthorizeCall, AcquireDevice, DispatchCall, runnerVars, operatorVars
  <1> QED
    BY <1>0, <1>1, <1>2 DEF SourcesBeforeOutlets

(* For any number of devices, the global safe state and the end state of a run
   attempt every source before any pressure controller, and a setting that
   fails falls back to its safe state in its own turn. *)
THEOREM SourcesAreFirst == Spec => []SourcesBeforeOutlets
  <1>1. Init => Shape /\ SourcesBeforeOutlets
    BY InitParts DEF Init, RunnerInit, SourcesBeforeOutlets
  <1>2. SourcesBeforeOutlets /\ UNCHANGED vars => SourcesBeforeOutlets'
    BY DEF SourcesBeforeOutlets, vars, serviceVars, runnerVars, operatorVars
  <1>3. Shape /\ SourcesBeforeOutlets /\ [Next]_vars => Shape' /\ SourcesBeforeOutlets'
    BY <1>2, ShapeStep, RunnerOrder, OperatorOrder, CallOrder DEF Next, RunnerNext
  <1> QED
    BY <1>1, <1>3, PTL DEF Spec

=============================================================================
