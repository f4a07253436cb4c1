------------------------- MODULE ResultsQueueProofs -------------------------
(* Proofs about ResultsQueue for any capacity and any number of snapshots. *)
EXTENDS ResultsQueue, SequenceTheorems, TLAPS

(***************************************************************************)
(* Type correctness.                                                       *)
(***************************************************************************)

(* Taking the first element shifts the others by one. *)
LEMMA TailShifts ==
    ASSUME NEW S, NEW s \in Seq(S), s # <<>>
    PROVE  /\ Tail(s) \in Seq(S)
           /\ Len(Tail(s)) = Len(s) - 1
           /\ Len(s) \in Nat \ {0}
           /\ Head(s) = s[1]
           /\ Head(s) \in S
           /\ \A i \in 1 .. Len(s) - 1 : Tail(s)[i] = s[i + 1]
  BY HeadTailProperties, EmptySeq, LenProperties, ElementOfSeq

(* Adding an element leaves the others where they are. *)
LEMMA AppendKeeps ==
    ASSUME NEW S, NEW s \in Seq(S), NEW e \in S
    PROVE  /\ Append(s, e) \in Seq(S)
           /\ Len(Append(s, e)) = Len(s) + 1
           /\ \A i \in 1 .. Len(s) : Append(s, e)[i] = s[i]
           /\ Append(s, e)[Len(s) + 1] = e
  BY AppendProperties

(* The Boolean variables, apart from the rest because no backend reasons well
   about both kinds at once. *)
Flags == overflow \in BOOLEAN /\ tells \in BOOLEAN /\ untold \in BOOLEAN

(* The other types.  A snapshot that is being queued has a number, which puts
   the numbers in the queue in their range. *)
Shape ==
    /\ queue \in Seq(Batches)
    /\ Len(queue) <= Capacity
    /\ stage \in {"idle", "offer", "evict", "insert"}
    /\ made \in 0 .. Last
    /\ seen \in 0 .. Last
    /\ stage # "idle" => made # 0

(* The batch in hand is one that may be queued. *)
LEMMA NewestIsABatch == Flags /\ Shape /\ stage # "idle" => Newest \in Batches
  <1> SUFFICES ASSUME Flags, Shape, stage # "idle" PROVE Newest \in Batches
    OBVIOUS
  <1>1. made \in 1 .. Last
    BY LastAssumption DEF Shape
  <1>2. tells \in BOOLEAN
    BY DEF Flags
  <1> QED
    BY <1>1, <1>2, Zenon DEF Newest, Batches

(* Both halves hold at the start. *)
LEMMA TypeInit == QueueInit => Flags /\ Shape
  <1>1. QueueInit => Flags
    BY Zenon DEF QueueInit, Flags
  <1>2. QueueInit => Shape
    BY CapacityAssumption, LastAssumption, EmptySeq DEF QueueInit, Shape
  <1> QED
    BY <1>1, <1>2

(* Flags are only set from flags and conditions. *)
LEMMA FlagsStep == Flags /\ [QueueNext]_queueVars => Flags'
  <1> SUFFICES ASSUME Flags, [QueueNext]_queueVars PROVE Flags'
    OBVIOUS
  <1>1. CASE Snapshot
    BY <1>1, Zenon DEF Snapshot, Flags
  <1>2. CASE Put
    BY <1>2, Zenon DEF Put, Flags
  <1>3. CASE Full
    BY <1>3, Zenon DEF Full, Flags
  <1>4. CASE Evict
    BY <1>4, Zenon DEF Evict, Flags
  <1>5. CASE Collect
    BY <1>5, Zenon DEF Collect, Flags
  <1>6. CASE UNCHANGED queueVars
    BY <1>6, Zenon DEF queueVars, Flags
  <1> QED
    BY <1>1, <1>2, <1>3, <1>4, <1>5, <1>6 DEF QueueNext, Producer

(* Every step keeps the other types. *)
LEMMA ShapeStep == Flags /\ Shape /\ [QueueNext]_queueVars => Shape'
  <1> SUFFICES ASSUME Flags, Shape, [QueueNext]_queueVars PROVE Shape'
    OBVIOUS
  <1> USE CapacityAssumption, LastAssumption
  <1>1. CASE Snapshot
    BY <1>1 DEF Snapshot, Shape
  <1>2. CASE Put
    <2>1. queue \in Seq(Batches) /\ Newest \in Batches
      BY <1>2, NewestIsABatch DEF Put, Shape
    <2>2. Append(queue, Newest) \in Seq(Batches) /\ Len(Append(queue, Newest)) = Len(queue) + 1
      BY <2>1, AppendKeeps
    <2>3. Len(queue) \in Nat
      BY <2>1, LenProperties
    <2> QED
      BY <1>2, <2>2, <2>3 DEF Put, Shape
  <1>3. CASE Full
    BY <1>3 DEF Full, Shape
  <1>4. CASE Evict
    <2>1. queue' \in Seq(Batches) /\ Len(queue') <= Capacity
      BY <1>4, TailShifts DEF Evict, Shape
    <2> QED
      BY <1>4, <2>1 DEF Evict, Shape
  <1>5. CASE Collect
    <2>1. queue' \in Seq(Batches) /\ Len(queue') <= Capacity
      BY <1>5, TailShifts DEF Collect, Shape
    <2>2. Head(queue) \in Batches
      BY <1>5, TailShifts DEF Collect, Shape
    <2>3. seen' \in 0 .. Last
      <3>1. Head(queue).number \in 1 .. Last
        BY <2>2, Zenon DEF Batches
      <3> QED
        BY <1>5, <3>1 DEF Collect
    <2> QED
      BY <1>5, <2>1, <2>3 DEF Collect, Shape
  <1>6. CASE UNCHANGED queueVars
    BY <1>6 DEF queueVars, Shape
  <1> QED
    BY <1>1, <1>2, <1>3, <1>4, <1>5, <1>6 DEF QueueNext, Producer

(* The queue holds snapshots, and no more of them than its capacity, whatever
   the capacity (polling.py:117-119). *)
THEOREM TypeCorrect == QueueSpec => []QueueTypeOK
  <1>1. Flags /\ Shape => QueueTypeOK
    BY DEF Flags, Shape, QueueTypeOK
  <1> QED
    BY TypeInit, FlagsStep, ShapeStep, <1>1, PTL DEF QueueSpec

(***************************************************************************)
(* The queue never fills again between a drop and the put that follows.    *)
(***************************************************************************)

(* Only the screen touches the queue then, and it makes room. *)
LEMMA FitsStep == Shape /\ SecondPutFits /\ [QueueNext]_queueVars => SecondPutFits'
  <1> SUFFICES ASSUME Shape, SecondPutFits, [QueueNext]_queueVars PROVE SecondPutFits'
    OBVIOUS
  <1> USE CapacityAssumption
  <1>1. CASE Evict
    BY <1>1, TailShifts, EmptySeq DEF Evict, Shape, SecondPutFits
  <1>2. CASE Collect
    BY <1>2, TailShifts, LenProperties DEF Collect, Shape, SecondPutFits
  <1>3. CASE Snapshot \/ Put \/ Full \/ UNCHANGED queueVars
    BY <1>3 DEF Snapshot, Put, Full, queueVars, SecondPutFits
  <1> QED
    BY <1>1, <1>2, <1>3 DEF QueueNext, Producer

(* The second put_nowait of _enqueue_result, which no try surrounds, never
   raises: the screen only ever takes from the queue (polling.py:308-325). *)
THEOREM SecondPutAlwaysFits == QueueSpec => []SecondPutFits
  <1>1. QueueInit => SecondPutFits
    BY DEF QueueInit, SecondPutFits
  <1> QED
    BY <1>1, TypeInit, FlagsStep, ShapeStep, FitsStep, PTL DEF QueueSpec

(***************************************************************************)
(* The screen is fed in order and is left with the newest.                 *)
(***************************************************************************)

(* The queue holds snapshots the screen has not seen, the older before the
   newer; one in hand is newer than all of them. *)
InOrder ==
    /\ \A i \in 1 .. Len(queue) :
          /\ seen < queue[i].number
          /\ queue[i].number <= made
          /\ stage # "idle" => queue[i].number < made
    /\ \A i, j \in 1 .. Len(queue) : i < j => queue[i].number < queue[j].number
    /\ seen <= made
    /\ stage # "idle" => seen < made

(* Between two calls the newest snapshot is the last in the queue, or shown. *)
NewestLast ==
    stage = "idle" => IF queue = <<>> THEN seen = made ELSE queue[Len(queue)].number = made

(* Numbers in the queue are numbers. *)
LEMMA Numbers == Shape => \A i \in 1 .. Len(queue) : queue[i].number \in 1 .. Last
  <1> SUFFICES ASSUME Shape, NEW i \in 1 .. Len(queue) PROVE queue[i].number \in 1 .. Last
    OBVIOUS
  <1>1. queue[i] \in Batches
    BY ElementOfSeq DEF Shape
  <1> QED
    BY <1>1, Zenon DEF Batches

(* What taking the head of the queue does to the numbers in it. *)
LEMMA OrderTail ==
    ASSUME Shape, InOrder, queue # <<>>, queue' = Tail(queue)
    PROVE  /\ Len(queue) \in Nat \ {0}
           /\ Len(queue') = Len(queue) - 1
           /\ \A i \in 1 .. Len(queue') : i + 1 \in 1 .. Len(queue) /\ queue'[i] = queue[i + 1]
           /\ \A i \in 1 .. Len(queue') : queue[1].number < queue'[i].number
           /\ \A i, j \in 1 .. Len(queue') : i < j => queue'[i].number < queue'[j].number
  <1>1. /\ Len(queue) \in Nat \ {0}
        /\ Len(queue') = Len(queue) - 1
        /\ \A i \in 1 .. Len(queue) - 1 : queue'[i] = queue[i + 1]
    BY TailShifts DEF Shape
  <1> QED
    BY <1>1 DEF InOrder

(* Every step keeps the order. *)
LEMMA OrderStep == Flags /\ Shape /\ InOrder /\ [QueueNext]_queueVars => InOrder'
  <1> SUFFICES ASSUME Flags, Shape, InOrder, [QueueNext]_queueVars PROVE InOrder'
    OBVIOUS
  <1>0. /\ \A i \in 1 .. Len(queue) : queue[i].number \in Nat
        /\ made \in Nat /\ seen \in Nat /\ Len(queue) \in Nat
    BY Numbers, LenProperties, LastAssumption DEF Shape
  <1>1. CASE Snapshot
    BY <1>0, <1>1 DEF Snapshot, InOrder
  <1>2. CASE Put
    <2>1. /\ Len(queue') = Len(queue) + 1
          /\ \A i \in 1 .. Len(queue) : queue'[i] = queue[i]
          /\ queue'[Len(queue) + 1] = Newest
      BY <1>2, NewestIsABatch, AppendKeeps DEF Put, Shape
    <2>2. Newest.number = made
      BY DEF Newest
    <2> QED
      BY <1>0, <1>2, <2>1, <2>2 DEF Put, InOrder
  <1>3. CASE Full
    BY <1>3 DEF Full, InOrder
  <1>4. CASE Evict
    <2>1. CASE queue = <<>>
      BY <1>4, <2>1 DEF Evict, InOrder
    <2>2. CASE queue # <<>>
      BY <1>0, <1>4, <2>2, OrderTail DEF Evict, InOrder
    <2> QED
      BY <2>1, <2>2
  <1>5. CASE Collect
    <2>1. seen' = queue[1].number
      BY <1>5, TailShifts DEF Collect, Shape
    <2> QED
      BY <1>0, <1>5, <2>1, OrderTail DEF Collect, InOrder
  <1>6. CASE UNCHANGED queueVars
    BY <1>6 DEF queueVars, InOrder
  <1> QED
    BY <1>1, <1>2, <1>3, <1>4, <1>5, <1>6 DEF QueueNext, Producer

(* Every step that ends between two calls leaves the newest there. *)
LEMMA NewestStep == Flags /\ Shape /\ NewestLast /\ [QueueNext]_queueVars => NewestLast'
  <1> SUFFICES ASSUME Flags, Shape, NewestLast, [QueueNext]_queueVars PROVE NewestLast'
    OBVIOUS
  <1>1. CASE Put
    <2>1. queue' \in Seq(Batches) /\ Len(queue') = Len(queue) + 1 /\ Len(queue) \in Nat
      BY <1>1, NewestIsABatch, AppendKeeps, LenProperties DEF Put, Shape
    <2>2. queue'[Len(queue')] = Newest
      BY <1>1, <2>1, NewestIsABatch, AppendKeeps DEF Put, Shape
    <2>3. queue' # <<>>
      BY <2>1, EmptySeq
    <2> QED
      BY <1>1, <2>2, <2>3 DEF Put, Newest, NewestLast
  <1>2. CASE Collect
    <2>1. /\ seen' = queue[1].number
          /\ queue' \in Seq(Batches)
          /\ Len(queue) \in Nat \ {0}
          /\ Len(queue') = Len(queue) - 1
          /\ \A i \in 1 .. Len(queue) - 1 : queue'[i] = queue[i + 1]
      BY <1>2, TailShifts DEF Collect, Shape
    <2>2. CASE queue' = <<>>
      <3>1. Len(queue) = 1
        BY <2>1, <2>2, EmptySeq
      <3> QED
        BY <1>2, <2>1, <2>2, <3>1 DEF Collect, NewestLast
    <2>3. CASE queue' # <<>>
      <3>1. queue'[Len(queue')] = queue[Len(queue)]
        BY <2>1, <2>3, EmptySeq
      <3> QED
        BY <1>2, <2>3, <3>1 DEF Collect, NewestLast
    <2> QED
      BY <2>2, <2>3
  <1>3. CASE Snapshot \/ Full \/ Evict \/ UNCHANGED queueVars
    BY <1>3 DEF Snapshot, Full, Evict, queueVars, NewestLast
  <1> QED
    BY <1>1, <1>2, <1>3 DEF QueueNext, Producer

(* The order holds at the start, of nothing. *)
LEMMA OrderInit == QueueInit => InOrder /\ NewestLast
  BY EmptySeq DEF QueueInit, InOrder, NewestLast

(* With nothing left to take the screen shows the latest snapshot: dropping the
   oldest never drops the newest (polling.py:302-325). *)
THEOREM NewestIsAlwaysKept == QueueSpec => []NewestIsKept
  <1>1. NewestLast => NewestIsKept
    BY DEF NewestLast, NewestIsKept
  <1> QED
    BY <1>1, TypeInit, FlagsStep, ShapeStep, OrderInit, NewestStep, PTL DEF QueueSpec

(* A step of the queue is a step of what the screen was promised, or none. *)
LEMMA StepIsFeedStep ==
    Flags /\ Shape /\ InOrder /\ [QueueNext]_queueVars => [Feed!FeedNext]_Feed!feedVars
  <1> SUFFICES ASSUME Flags, Shape, InOrder, [QueueNext]_queueVars
               PROVE  [Feed!FeedNext]_Feed!feedVars
    OBVIOUS
  <1>1. CASE Snapshot
    BY <1>1 DEF Snapshot, Feed!FeedNext, Feed!Make
  <1>2. CASE Put \/ Full \/ Evict \/ UNCHANGED queueVars
    BY <1>2 DEF Put, Full, Evict, queueVars, Feed!feedVars
  <1>3. CASE Collect
    <2>1. seen' = queue[1].number /\ 1 \in 1 .. Len(queue)
      BY <1>3, TailShifts DEF Collect, Shape
    <2>2. queue[1].number \in (seen + 1) .. made
      BY <2>1, Numbers, LastAssumption DEF InOrder, Shape
    <2> QED
      BY <1>3, <2>1, <2>2 DEF Collect, Feed!FeedNext, Feed!Show
  <1> QED
    BY <1>1, <1>2, <1>3 DEF QueueNext, Producer

(* Whatever the capacity, the screen is shown snapshots in order and each once:
   the safety half of ScreenIsFed (the fairness half is model-checked). *)
THEOREM QueueImplementsFeed == QueueSpec => Feed!FeedInit /\ [][Feed!FeedNext]_Feed!feedVars
  <1>1. QueueInit => Feed!FeedInit
    BY DEF QueueInit, Feed!FeedInit
  <1> QED
    BY <1>1, TypeInit, FlagsStep, ShapeStep, OrderInit, OrderStep, StepIsFeedStep, PTL DEF QueueSpec

(***************************************************************************)
(* No snapshot is dropped behind the screen's back.                        *)
(***************************************************************************)

(* A step that ends an overflow, or takes an event, leaves the rest told. *)
LEMMA ToldStep == Flags /\ Shape /\ DropsAreTold /\ [QueueNext]_queueVars => DropsAreTold'
  <1> SUFFICES ASSUME Flags, Shape, DropsAreTold, [QueueNext]_queueVars, untold'
               PROVE  \/ overflow'
                      \/ (stage' # "idle" /\ tells')
                      \/ \E i \in DOMAIN queue' : queue'[i].tells
    BY DEF DropsAreTold
  <1>0. DOMAIN queue = 1 .. Len(queue)
    BY LenProperties DEF Shape
  <1>1. CASE Snapshot
    <2>1. \/ overflow
          \/ \E i \in DOMAIN queue : queue[i].tells
      BY <1>1 DEF Snapshot, DropsAreTold
    <2>2. CASE \E i \in DOMAIN queue : queue[i].tells
      BY <1>1, <2>2 DEF Snapshot
    <2>3. CASE overflow
      <3>1. Len(queue) \in Nat /\ Capacity \div 2 \in Nat
        BY CapacityAssumption, LenProperties DEF Shape
      <3>2. Len(queue) > Capacity \div 2 \/ Len(queue) <= Capacity \div 2
        BY <3>1
      <3> QED
        BY <1>1, <2>3, <3>2, Zenon DEF Snapshot
    <2> QED
      BY <2>1, <2>2, <2>3
  <1>2. CASE Put
    <2>1. /\ Len(queue') = Len(queue) + 1
          /\ Len(queue) \in Nat
          /\ \A i \in 1 .. Len(queue) : queue'[i] = queue[i]
          /\ queue'[Len(queue) + 1] = Newest
          /\ DOMAIN queue' = 1 .. Len(queue')
      BY <1>2, NewestIsABatch, AppendKeeps, LenProperties DEF Put, Shape
    <2>2. CASE overflow
      BY <1>2, <2>2 DEF Put
    <2>3. CASE tells
      <3>1. Newest.tells
        BY <2>3 DEF Newest
      <3> QED
        BY <2>1, <3>1
    <2>4. CASE \E i \in DOMAIN queue : queue[i].tells
      BY <1>0, <2>1, <2>4
    <2> QED
      BY <1>2, <2>2, <2>3, <2>4 DEF Put, DropsAreTold
  <1>3. CASE Full
    BY <1>3 DEF Full, DropsAreTold
  <1>4. CASE Evict
    BY <1>4 DEF Evict
  <1>5. CASE Collect
    <2>1. /\ untold
          /\ ~queue[1].tells
          /\ Len(queue) \in Nat \ {0}
          /\ Len(queue') = Len(queue) - 1
          /\ \A i \in 1 .. Len(queue) - 1 : queue'[i] = queue[i + 1]
          /\ DOMAIN queue' = 1 .. Len(queue')
      BY <1>5, TailShifts, LenProperties DEF Collect, Shape
    <2>2. CASE overflow \/ (stage # "idle" /\ tells)
      BY <1>5, <2>2 DEF Collect
    <2>3. CASE \E i \in DOMAIN queue : queue[i].tells
      <3>1. PICK i \in 1 .. Len(queue) : queue[i].tells
        BY <1>0, <2>3
      <3>2. i - 1 \in DOMAIN queue' /\ queue'[i - 1] = queue[i]
        BY <2>1, <3>1
      <3> QED
        BY <3>1, <3>2
    <2> QED
      BY <2>1, <2>2, <2>3 DEF DropsAreTold
  <1>6. CASE UNCHANGED queueVars
    BY <1>6 DEF queueVars, DropsAreTold
  <1> QED
    BY <1>1, <1>2, <1>3, <1>4, <1>5, <1>6 DEF QueueNext, Producer

(* When snapshots were dropped and the overflow is over, an event that says so
   is on its way to the screen (polling.py:288-301, 312-325). *)
THEOREM DropsAreAlwaysTold == QueueSpec => []DropsAreTold
  <1>1. QueueInit => DropsAreTold
    BY DEF QueueInit, DropsAreTold
  <1> QED
    BY <1>1, TypeInit, FlagsStep, ShapeStep, ToldStep, PTL DEF QueueSpec

=============================================================================
