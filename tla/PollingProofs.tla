---------------------------- MODULE PollingProofs ----------------------------
(* Proofs about Polling for any sources, of which any may be slow, and any callers. *)
EXTENDS Polling, SequenceTheorems, TLAPS

(***************************************************************************)
(* Type correctness.                                                       *)
(***************************************************************************)

(* The Boolean variables, apart from the rest because no backend reasons well
   about both kinds at once. *)
Flags ==
    /\ registered \in BOOLEAN
    /\ stopRequested \in BOOLEAN
    /\ wake \in BOOLEAN
    /\ publishDue \in BOOLEAN

Shape ==
    /\ caller \in [Callers -> CallerStages]
    /\ pc \in Labels
    /\ inFlight \subseteq Sources
    /\ due \subseteq Sources
    /\ reading \subseteq Sources
    /\ completed \in Seq(Completions)
    /\ waking \subseteq Sources
    /\ active \subseteq Sources
    /\ failedIds \subseteq Sources
    /\ unhandled \subseteq Sources

(* A completion is of a source, and taking the first shifts the others by one. *)
LEMMA QueueTail ==
  ASSUME completed \in Seq(Completions), completed # <<>>
  PROVE  /\ Head(completed) \in Completions
         /\ Head(completed) = completed[1]
         /\ Tail(completed) \in Seq(Completions)
         /\ Len(completed) \in Nat \ {0}
         /\ DOMAIN completed = 1 .. Len(completed)
         /\ DOMAIN Tail(completed) = 1 .. (Len(completed) - 1)
         /\ \A i \in 1 .. (Len(completed) - 1) : Tail(completed)[i] = completed[i + 1]
  BY HeadTailProperties, EmptySeq, LenProperties, ElementOfSeq

(* Queueing a completion leaves the others where they are. *)
LEMMA QueueAppend ==
  ASSUME completed \in Seq(Completions), NEW e \in Completions
  PROVE  /\ Append(completed, e) \in Seq(Completions)
         /\ Len(completed) \in Nat
         /\ DOMAIN completed = 1 .. Len(completed)
         /\ DOMAIN Append(completed, e) = 1 .. (Len(completed) + 1)
         /\ \A i \in 1 .. Len(completed) : Append(completed, e)[i] = completed[i]
         /\ Append(completed, e)[Len(completed) + 1] = e
  BY AppendProperties, LenProperties

(* What a completion says. *)
LEMMA CompletionFields ==
  ASSUME NEW e \in Completions
  PROVE  e.device \in Sources /\ e.ok \in BOOLEAN
  BY Zenon DEF Completions

LEMMA CompletionMade ==
  ASSUME NEW d \in Sources, NEW ok \in BOOLEAN
  PROVE  [device |-> d, ok |-> ok] \in Completions
  BY Zenon DEF Completions

(* The service starts with both halves true. *)
LEMMA InitParts == Init => Flags /\ Shape
  <1>1. Init => Flags
    BY Zenon DEF Init, Flags
  <1>2. Init => Shape
    BY EmptySeq DEF Init, Shape, CallerStages, Labels
  <1> QED
    BY <1>1, <1>2

(* Every step keeps the Boolean variables Boolean. *)
LEMMA FlagsStep ==
  ASSUME Flags, [Next]_vars
  PROVE  Flags'
  <1> USE DEF Flags, lifecycleVars, scheduleVars, Goto
  <1>1. CASE Scheduler
    BY <1>1, Zenon
    DEF Scheduler, LoopTest, Drained, DrainFailure, DrainSuccess, Submit, Publish, Waited, ClearWake, ExecutorExit
  <1>2. CASE \E d \in Sources : BecomesDue(d) \/ FinishRead(d) \/ WakeScheduler(d)
    BY <1>2, Zenon DEF BecomesDue, FinishRead, WakeScheduler
  <1>3. CASE SnapshotBecomesDue
    BY <1>3, Zenon DEF SnapshotBecomesDue
  <1>4. ASSUME NEW c \in Callers, Start(c) \/ RequestStop(c) \/ WakeForStop(c) \/ Joined(c)
        PROVE  Flags'
    BY <1>4, Zenon DEF Start, RequestStop, WakeForStop, Joined
  <1>5. CASE UNCHANGED vars
    BY <1>5, Zenon DEF vars
  <1> QED
    BY <1>1, <1>2, <1>3, <1>4, <1>5 DEF Next

(* Every step keeps the types of the other variables. *)
LEMMA ShapeStep ==
  ASSUME Shape, [Next]_vars
  PROVE  Shape'
  <1> USE DEF Shape, lifecycleVars, scheduleVars, workerVars, reportVars, Goto, Labels
  <1>1. CASE LoopTest \/ Drained \/ Submit \/ Publish \/ Waited \/ ClearWake \/ ExecutorExit
    BY <1>1 DEF LoopTest, Drained, Submit, Publish, Waited, ClearWake, ExecutorExit
  <1>2. CASE DrainFailure
    <2>1. Head(completed).device \in Sources /\ Tail(completed) \in Seq(Completions)
      BY <1>2, QueueTail, CompletionFields DEF DrainFailure
    <2> QED
      BY <1>2, <2>1 DEF DrainFailure
  <1>3. CASE DrainSuccess
    <2>1. Head(completed).device \in Sources /\ Tail(completed) \in Seq(Completions)
      BY <1>3, QueueTail, CompletionFields DEF DrainSuccess
    <2> QED
      BY <1>3, <2>1 DEF DrainSuccess
  <1>4. ASSUME NEW d \in Sources, FinishRead(d)
        PROVE  Shape'
    <2>1. PICK ok \in BOOLEAN : completed' = Append(completed, [device |-> d, ok |-> ok])
      BY <1>4 DEF FinishRead
    <2>2. completed' \in Seq(Completions)
      BY <2>1, CompletionMade, QueueAppend
    <2> QED
      BY <1>4, <2>2 DEF FinishRead
  <1>5. ASSUME NEW d \in Sources, BecomesDue(d) \/ WakeScheduler(d)
        PROVE  Shape'
    BY <1>5 DEF BecomesDue, WakeScheduler
  <1>6. CASE SnapshotBecomesDue
    BY <1>6 DEF SnapshotBecomesDue
  <1>7. ASSUME NEW c \in Callers, Start(c)
        PROVE  Shape'
    BY <1>7, EmptySeq DEF Start, CallerStages
  <1>8. ASSUME NEW c \in Callers, RequestStop(c) \/ WakeForStop(c) \/ Joined(c)
        PROVE  Shape'
    BY <1>8 DEF RequestStop, WakeForStop, Joined, CallerStages
  <1>9. CASE UNCHANGED vars
    BY <1>9 DEF vars
  <1> QED
    BY <1>1, <1>2, <1>3, <1>4, <1>5, <1>6, <1>7, <1>8, <1>9 DEF Next, Scheduler

(* Every variable keeps to its type. *)
THEOREM TypeCorrect == Spec => []TypeOK
  <1>1. Flags /\ Shape /\ [Next]_vars => Flags' /\ Shape'
    BY FlagsStep, ShapeStep
  <1>2. Flags /\ Shape => TypeOK
    BY DEF Flags, Shape, TypeOK
  <1> QED
    BY <1>1, <1>2, InitParts, PTL DEF Spec

(***************************************************************************)
(* What is in flight.                                                      *)
(***************************************************************************)

(* What makes InFlightExact inductive: the scheduler's thread ends only when no
   worker reads, so the next one starts from nothing in flight. *)
FlightInv ==
    /\ InFlightExact
    /\ pc \in {"last_drain", "off"} => reading = {}

(* A step that leaves the workers, the queue and the scheduler's set alone, and
   starts no thread beside a registered one. *)
LEMMA FlightUntouched ==
  ASSUME FlightInv, UNCHANGED <<inFlight, reading, completed>>,
         pc' # "off" => registered',
         pc' \in {"last_drain", "off"} => reading = {}
  PROVE  FlightInv'
  BY DEF FlightInv, InFlightExact, InQueue

(* Looking at the first completion takes its source, and no other, out of flight. *)
LEMMA FlightDrain ==
  ASSUME Shape, FlightInv, completed # <<>>,
         completed' = Tail(completed), inFlight' = inFlight \ {Head(completed).device},
         UNCHANGED <<registered, pc, reading>>
  PROVE  FlightInv'
  <1>0. PICK first \in Sources : first = Head(completed).device
    BY QueueTail, CompletionFields DEF Shape
  <1>1. /\ first = completed[1].device
        /\ Len(completed) \in Nat \ {0}
        /\ DOMAIN completed = 1 .. Len(completed)
        /\ DOMAIN completed' = 1 .. (Len(completed) - 1)
        /\ \A i \in 1 .. (Len(completed) - 1) : completed'[i] = completed[i + 1]
    BY <1>0, QueueTail DEF Shape
  <1>2. \A i, j \in DOMAIN completed : completed[i].device = completed[j].device => i = j
    BY DEF FlightInv, InFlightExact
  <1>3. \A i, j \in DOMAIN completed' : completed'[i].device = completed'[j].device => i = j
    BY <1>1, <1>2
  <1>4. ~InQueue(first)'
    BY <1>1, <1>2 DEF InQueue
  <1>5. \A d \in Sources : InQueue(d)' => InQueue(d)
    <2> SUFFICES ASSUME NEW d \in Sources, NEW i \in DOMAIN completed', completed'[i].device = d
                 PROVE  InQueue(d)
      BY DEF InQueue
    <2>1. i + 1 \in DOMAIN completed /\ completed[i + 1].device = d
      BY <1>1
    <2> QED
      BY <2>1 DEF InQueue
  <1>6. \A d \in Sources : InQueue(d) => InQueue(d)' \/ d = first
    <2> SUFFICES ASSUME NEW d \in Sources, NEW i \in DOMAIN completed, completed[i].device = d, d # first
                 PROVE  InQueue(d)'
      BY DEF InQueue
    <2>1. i - 1 \in DOMAIN completed' /\ completed'[i - 1] = completed[i]
      BY <1>1
    <2> QED
      BY <2>1 DEF InQueue
  <1>7. first \notin reading
    <2>1. 1 \in DOMAIN completed /\ completed[1].device = first
      BY <1>1
    <2>2. InQueue(first)
      BY <2>1 DEF InQueue
    <2> QED
      BY <2>2 DEF FlightInv, InFlightExact
  <1>8. inFlight' = reading' \cup {d \in Sources : InQueue(d)'}
    BY <1>0, <1>4, <1>5, <1>6, <1>7 DEF FlightInv, InFlightExact
  <1> QED
    BY <1>3, <1>5, <1>8 DEF FlightInv, InFlightExact, Shape

(* A worker that ends moves its source from the reads to the queue. *)
LEMMA FlightFinish ==
  ASSUME Shape, FlightInv, NEW d \in Sources, FinishRead(d)
  PROVE  FlightInv'
  <1>1. PICK ok \in BOOLEAN : completed' = Append(completed, [device |-> d, ok |-> ok])
    BY DEF FinishRead
  <1> DEFINE last == Len(completed) + 1
  <1>2. /\ Len(completed) \in Nat
        /\ DOMAIN completed = 1 .. Len(completed)
        /\ DOMAIN completed' = 1 .. last
        /\ \A i \in 1 .. Len(completed) : completed'[i] = completed[i]
        /\ completed'[last].device = d
    BY <1>1, CompletionMade, QueueAppend DEF Shape
  <1>3. d \in reading /\ reading' = reading \ {d} /\ UNCHANGED <<inFlight, pc, registered>>
    BY DEF FinishRead, lifecycleVars, scheduleVars
  <1>4. ~InQueue(d)
    BY <1>3 DEF FlightInv, InFlightExact
  <1>5. \A k \in Sources : InQueue(k)' <=> InQueue(k) \/ k = d
    BY <1>2 DEF InQueue
  <1>6. \A i, j \in DOMAIN completed' : completed'[i].device = completed'[j].device => i = j
    <2>1. \A i \in 1 .. Len(completed) : completed'[i].device # d
      BY <1>2, <1>4 DEF InQueue
    <2>2. \A i, j \in 1 .. Len(completed) : completed'[i].device = completed'[j].device => i = j
      BY <1>2 DEF FlightInv, InFlightExact
    <2> QED
      BY <1>2, <2>1, <2>2
  <1>7. inFlight' = reading' \cup {k \in Sources : InQueue(k)'}
    BY <1>3, <1>4, <1>5 DEF FlightInv, InFlightExact, Shape
  <1> QED
    BY <1>3, <1>5, <1>6, <1>7 DEF FlightInv, InFlightExact, Shape

(* Every step keeps the scheduler's set exact. *)
LEMMA FlightStep ==
  ASSUME Shape, FlightInv, [Next]_vars
  PROVE  FlightInv'
  <1> USE DEF lifecycleVars, scheduleVars, workerVars, reportVars, Goto
  <1>0. pc # "off" => registered
    BY DEF FlightInv, InFlightExact
  <1>1. CASE LoopTest \/ Drained \/ Publish \/ Waited \/ ClearWake \/ ExecutorExit
    BY <1>0, <1>1, FlightUntouched DEF LoopTest, Drained, Publish, Waited, ClearWake, ExecutorExit, FlightInv
  <1>2. CASE DrainFailure
    BY <1>2, FlightDrain DEF DrainFailure
  <1>3. CASE DrainSuccess
    BY <1>3, FlightDrain DEF DrainSuccess
  <1>4. CASE Submit
    <2>1. UNCHANGED completed /\ \A d \in Sources : InQueue(d)' <=> InQueue(d)
      BY <1>4 DEF Submit, InQueue
    <2> QED
      BY <1>0, <1>4, <2>1 DEF Submit, FlightInv, InFlightExact, Shape
  <1>5. CASE \E d \in Sources : FinishRead(d)
    BY <1>5, FlightFinish
  <1>6. CASE \E d \in Sources : BecomesDue(d) \/ WakeScheduler(d)
    BY <1>0, <1>6, FlightUntouched DEF BecomesDue, WakeScheduler, FlightInv
  <1>7. CASE SnapshotBecomesDue
    BY <1>0, <1>7, FlightUntouched DEF SnapshotBecomesDue, FlightInv
  <1>8. ASSUME NEW c \in Callers, Start(c)
        PROVE  FlightInv'
    <2>1. reading' = {} /\ completed' = <<>> /\ inFlight' = {} /\ registered' /\ pc' = "loop"
      BY <1>0, <1>8 DEF Start, IsRunning, FlightInv
    <2> QED
      BY <2>1 DEF FlightInv, InFlightExact, InQueue
  <1>9. ASSUME NEW c \in Callers, RequestStop(c) \/ WakeForStop(c) \/ Joined(c)
        PROVE  FlightInv'
    BY <1>0, <1>9, FlightUntouched DEF RequestStop, WakeForStop, Joined, FlightInv
  <1>10. CASE UNCHANGED vars
    BY <1>0, <1>10, FlightUntouched DEF vars, FlightInv
  <1> QED
    BY <1>1, <1>2, <1>3, <1>4, <1>5, <1>6, <1>7, <1>8, <1>9, <1>10 DEF Next, Scheduler

(* A service that has just been made has nothing in flight. *)
LEMMA FlightInit == Init => FlightInv
  BY DEF Init, FlightInv, InFlightExact, InQueue

(* What the scheduler takes for in flight is exactly what some worker reads or
   has read, each source once, however callers start and stop the service:
   no source is read twice at once, and none is forgotten. *)
THEOREM InFlightIsExact == Spec => []InFlightExact
  <1>1. Init => Flags /\ Shape /\ FlightInv
    BY InitParts, FlightInit
  <1>2. Shape /\ FlightInv /\ [Next]_vars => Shape' /\ FlightInv'
    BY ShapeStep, FlightStep
  <1>3. FlightInv => InFlightExact
    BY DEF FlightInv
  <1> QED
    BY <1>1, <1>2, <1>3, PTL DEF Spec

(***************************************************************************)
(* Waking the scheduler.                                                   *)
(***************************************************************************)

(* What makes NoLostWakeup inductive: from the moment the scheduler found the
   queue empty, whatever is queued will set the flag or has set it; and from
   the moment it saw no request to stop, so does a request. *)
WakeInv ==
    /\ pc \in {"submit", "publish", "wait"} /\ completed # <<>> => wake = TRUE \/ waking # {}
    /\ pc \in {"drain", "submit", "publish", "wait"} /\ stopRequested = TRUE =>
          wake = TRUE \/ \E c \in Callers : caller[c] = "set_wake"

(* Every step keeps the flag set, or about to be set, for what there is to do. *)
LEMMA WakeStep ==
  ASSUME Shape, FlightInv, WakeInv, [Next]_vars
  PROVE  WakeInv'
  <1> USE DEF WakeInv, lifecycleVars, scheduleVars, workerVars, reportVars, Goto
  <1>1. CASE LoopTest
    BY <1>1 DEF LoopTest
  <1>2. CASE Drained \/ Submit \/ Publish \/ Waited \/ ClearWake \/ ExecutorExit
    BY <1>2 DEF Drained, Submit, Publish, Waited, ClearWake, ExecutorExit
  <1>3. CASE DrainFailure \/ DrainSuccess
    BY <1>3 DEF DrainFailure, DrainSuccess
  <1>4. ASSUME NEW d \in Sources, FinishRead(d)
        PROVE  WakeInv'
    BY <1>4 DEF FinishRead
  <1>5. ASSUME NEW d \in Sources, BecomesDue(d) \/ WakeScheduler(d)
        PROVE  WakeInv'
    BY <1>5 DEF BecomesDue, WakeScheduler
  <1>6. CASE SnapshotBecomesDue
    BY <1>6 DEF SnapshotBecomesDue
  <1>7. ASSUME NEW c \in Callers, Start(c)
        PROVE  WakeInv'
    BY <1>7 DEF Start
  <1>8. ASSUME NEW c \in Callers, RequestStop(c) \/ WakeForStop(c)
        PROVE  WakeInv'
    BY <1>8 DEF RequestStop, WakeForStop, Shape
  <1>9. ASSUME NEW c \in Callers, Joined(c)
        PROVE  WakeInv'
    <2>1. \A k \in Callers : caller[k] # "set_wake"
      BY <1>9 DEF Joined, LifecycleLockFree
    <2> QED
      BY <1>9, <2>1 DEF Joined
  <1>10. CASE UNCHANGED vars
    BY <1>10 DEF vars
  <1> QED
    BY <1>1, <1>2, <1>3, <1>4, <1>5, <1>6, <1>7, <1>8, <1>9, <1>10 DEF Next, Scheduler

(* Although the scheduler clears the flag that workers and callers set, with no
   lock around either, it never goes to wait with something to do and nobody
   to wake it. *)
THEOREM WakeupsAreKept == Spec => []NoLostWakeup
  <1>1. Init => Flags /\ Shape /\ FlightInv /\ WakeInv
    <2>1. Init => WakeInv
      BY DEF Init, WakeInv
    <2> QED
      BY <2>1, InitParts, FlightInit
  <1>2. Shape /\ FlightInv /\ WakeInv /\ [Next]_vars => Shape' /\ FlightInv' /\ WakeInv'
    BY ShapeStep, FlightStep, WakeStep
  <1>3. WakeInv => NoLostWakeup
    BY DEF WakeInv, NoLostWakeup
  <1> QED
    BY <1>1, <1>2, <1>3, PTL DEF Spec

(***************************************************************************)
(* Readings handed on.                                                     *)
(***************************************************************************)

(* Looking at the first completion keeps those of other sources in the queue. *)
LEMMA HandedOnDrain ==
  ASSUME Shape, NothingReadIsLost, completed # <<>>, pc # "off", UNCHANGED pc,
         completed' = Tail(completed),
         unhandled' = unhandled \ (IF Head(completed).ok THEN {Head(completed).device} ELSE {})
  PROVE  NothingReadIsLost'
  <1>1. /\ Head(completed) = completed[1]
        /\ Len(completed) \in Nat \ {0}
        /\ DOMAIN completed = 1 .. Len(completed)
        /\ DOMAIN completed' = 1 .. (Len(completed) - 1)
        /\ \A i \in 1 .. (Len(completed) - 1) : completed'[i] = completed[i + 1]
    BY QueueTail DEF Shape
  <1>2. ASSUME NEW d \in unhandled'
        PROVE  \E i \in DOMAIN completed' : completed'[i].device = d /\ completed'[i].ok
    <2>1. PICK i \in DOMAIN completed : completed[i].device = d /\ completed[i].ok
      BY <1>2 DEF NothingReadIsLost
    <2>2. i # 1
      BY <1>1, <1>2, <2>1
    <2>3. i - 1 \in DOMAIN completed' /\ completed'[i - 1] = completed[i]
      BY <1>1, <2>1, <2>2
    <2> QED
      BY <2>1, <2>3
  <1> QED
    BY <1>2 DEF NothingReadIsLost

(* A worker that ends queues what it read. *)
LEMMA HandedOnFinish ==
  ASSUME Shape, FlightInv, NothingReadIsLost, NEW d \in Sources, FinishRead(d)
  PROVE  NothingReadIsLost'
  <1>1. PICK ok \in BOOLEAN :
           /\ completed' = Append(completed, [device |-> d, ok |-> ok])
           /\ unhandled' = IF ok THEN unhandled \cup {d} ELSE unhandled
    BY DEF FinishRead
  <1>2. /\ Len(completed) \in Nat
        /\ DOMAIN completed = 1 .. Len(completed)
        /\ DOMAIN completed' = 1 .. (Len(completed) + 1)
        /\ \A i \in 1 .. Len(completed) : completed'[i] = completed[i]
        /\ completed'[Len(completed) + 1] = [device |-> d, ok |-> ok]
    BY <1>1, CompletionMade, QueueAppend DEF Shape
  <1>3. pc' # "off"
    BY DEF FinishRead, FlightInv
  <1>4. ASSUME NEW k \in unhandled'
        PROVE  \E i \in DOMAIN completed' : completed'[i].device = k /\ completed'[i].ok
    <2>1. CASE k \in unhandled
      <3>1. PICK i \in DOMAIN completed : completed[i].device = k /\ completed[i].ok
        BY <2>1 DEF NothingReadIsLost
      <3>2. i \in DOMAIN completed' /\ completed'[i] = completed[i]
        BY <1>2
      <3> QED
        BY <3>1, <3>2
    <2>2. CASE k \notin unhandled
      <3>1. ok /\ k = d
        BY <1>1, <1>4, <2>2
      <3>2. Len(completed) + 1 \in DOMAIN completed'
        BY <1>2
      <3> QED
        BY <1>2, <3>1, <3>2
    <2> QED
      BY <2>1, <2>2
  <1> QED
    BY <1>3, <1>4 DEF NothingReadIsLost

(* Every step keeps what was read with success in the queue until it is handed on. *)
LEMMA HandedOnStep ==
  ASSUME Shape, FlightInv, NothingReadIsLost, [Next]_vars
  PROVE  NothingReadIsLost'
  <1> USE DEF lifecycleVars, scheduleVars, workerVars, reportVars, Goto
  <1>1. CASE LoopTest \/ Submit \/ Publish \/ Waited \/ ClearWake \/ ExecutorExit
    BY <1>1 DEF LoopTest, Submit, Publish, Waited, ClearWake, ExecutorExit, NothingReadIsLost
  <1>2. CASE Drained
    BY <1>2 DEF Drained, NothingReadIsLost
  <1>3. CASE DrainFailure
    <2>1. unhandled' = unhandled \ (IF Head(completed).ok THEN {Head(completed).device} ELSE {})
      BY <1>3 DEF DrainFailure
    <2> QED
      BY <1>3, <2>1, HandedOnDrain DEF DrainFailure
  <1>4. CASE DrainSuccess
    <2>1. unhandled' = unhandled \ (IF Head(completed).ok THEN {Head(completed).device} ELSE {})
      BY <1>4 DEF DrainSuccess
    <2> QED
      BY <1>4, <2>1, HandedOnDrain DEF DrainSuccess
  <1>5. CASE \E d \in Sources : FinishRead(d)
    BY <1>5, HandedOnFinish
  <1>6. CASE (\E d \in Sources : BecomesDue(d) \/ WakeScheduler(d)) \/ SnapshotBecomesDue
    BY <1>6 DEF BecomesDue, WakeScheduler, SnapshotBecomesDue, NothingReadIsLost
  <1>7. ASSUME NEW c \in Callers, Start(c)
        PROVE  NothingReadIsLost'
    <2>1. pc = "off"
      BY <1>7 DEF Start, IsRunning, FlightInv, InFlightExact
    <2> QED
      BY <1>7, <2>1 DEF Start, NothingReadIsLost
  <1>8. ASSUME NEW c \in Callers, RequestStop(c) \/ WakeForStop(c) \/ Joined(c)
        PROVE  NothingReadIsLost'
    BY <1>8 DEF RequestStop, WakeForStop, Joined, NothingReadIsLost
  <1>9. CASE UNCHANGED vars
    BY <1>9 DEF vars, NothingReadIsLost
  <1> QED
    BY <1>1, <1>2, <1>3, <1>4, <1>5, <1>6, <1>7, <1>8, <1>9 DEF Next, Scheduler

(* A reading taken with success is handed to the recorder before the thread
   ends, whenever monitoring is stopped. *)
THEOREM ReadingsAreHandedOn == Spec => []NothingReadIsLost
  <1>1. Init => Flags /\ Shape /\ FlightInv /\ NothingReadIsLost
    <2>1. Init => NothingReadIsLost
      BY DEF Init, NothingReadIsLost
    <2> QED
      BY <2>1, InitParts, FlightInit
  <1>2. Shape /\ FlightInv /\ NothingReadIsLost /\ [Next]_vars => Shape' /\ FlightInv' /\ NothingReadIsLost'
    BY ShapeStep, FlightStep, HandedOnStep
  <1> QED
    BY <1>1, <1>2, PTL DEF Spec

(***************************************************************************)
(* Failures shown and failures told.                                       *)
(***************************************************************************)

(* The failures shown with each snapshot are those told and not yet recovered,
   from one session to the next. *)
THEOREM FailuresAlwaysAgree == Spec => []FailuresAgree
  <1> USE DEF FailuresAgree, lifecycleVars, scheduleVars, workerVars, reportVars, Goto
  <1>1. Init => FailuresAgree
    BY DEF Init
  <1>2. ASSUME FailuresAgree, [Next]_vars
        PROVE  FailuresAgree'
    <2>1. CASE Scheduler
      BY <1>2, <2>1
      DEF Scheduler, LoopTest, Drained, DrainFailure, DrainSuccess, Submit, Publish, Waited, ClearWake,
          ExecutorExit
    <2>2. CASE \E d \in Sources : BecomesDue(d) \/ FinishRead(d) \/ WakeScheduler(d)
      BY <1>2, <2>2 DEF BecomesDue, FinishRead, WakeScheduler
    <2>3. CASE SnapshotBecomesDue
      BY <1>2, <2>3 DEF SnapshotBecomesDue
    <2>4. ASSUME NEW c \in Callers, Start(c) \/ RequestStop(c) \/ WakeForStop(c) \/ Joined(c)
          PROVE  FailuresAgree'
      BY <1>2, <2>4 DEF Start, RequestStop, WakeForStop, Joined
    <2>5. CASE UNCHANGED vars
      BY <1>2, <2>5 DEF vars
    <2> QED
      BY <1>2, <2>1, <2>2, <2>3, <2>4, <2>5 DEF Next
  <1> QED
    BY <1>1, <1>2, PTL DEF Spec

=============================================================================
