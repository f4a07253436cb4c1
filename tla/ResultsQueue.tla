---------------------------- MODULE ResultsQueue ----------------------------
(***************************************************************************)
(* The bounded queue of snapshots between the polling thread               *)
(* (polling.py, _enqueue_result) and the screen's timer callback           *)
(* (ui/operation/model.py, collect_polling_results).  Each call on the     *)
(* queue is atomic; what _enqueue_result does between two of them is not.  *)
(*                                                                         *)
(* A snapshot is its number, and whether it carries an event that tells    *)
(* the screen of dropped snapshots (the overflow or the recovery event).   *)
(***************************************************************************)
EXTENDS Naturals, Sequences

CONSTANTS Capacity,     \* results_queue_capacity
          Last          \* bound: the snapshots that are made

ASSUME CapacityAssumption == Capacity \in Nat \ {0}
ASSUME LastAssumption == Last \in Nat

VARIABLES queue,        \* _results
          overflow,     \* _results_overflow_active
          stage,        \* where the polling thread is in _enqueue_result
          made,         \* the number of its `batch'
          tells,        \* whether its `batch' carries such an event
          seen,         \* history: the number of the snapshot taken last
          untold        \* history: one was dropped and the screen not told since

queueVars == <<queue, overflow, stage, made, tells, seen, untold>>

Batches == [number : 1..Last, tells : BOOLEAN]

Newest == [number |-> made, tells |-> tells]

(* Every variable keeps to its type, and the queue to its capacity. *)
QueueTypeOK ==
    /\ queue \in Seq(Batches)
    /\ Len(queue) <= Capacity
    /\ overflow \in BOOLEAN
    /\ stage \in {"idle", "offer", "evict", "insert"}
    /\ made \in 0..Last
    /\ tells \in BOOLEAN
    /\ seen \in 0..Last
    /\ untold \in BOOLEAN

QueueInit ==
    /\ queue = <<>>
    /\ overflow = FALSE
    /\ stage = "idle"
    /\ made = 0
    /\ tells = FALSE
    /\ seen = 0
    /\ untold = FALSE

-----------------------------------------------------------------------------
(* The polling thread. *)

(* Mutation: the recovery is noted but no event says so. *)
SnapshotSilently ==
    /\ stage = "idle"
    /\ made < Last
    /\ stage' = "offer"
    /\ made' = made + 1
    /\ tells' = FALSE
    /\ overflow' = (overflow /\ Len(queue) > Capacity \div 2)
    /\ UNCHANGED <<queue, seen, untold>>

(* A snapshot is built.  If the queue has half emptied since it overflowed, the
   overflow is over and the snapshot says so. *)
Snapshot ==
    /\ stage = "idle"
    /\ made < Last
    /\ stage' = "offer"
    /\ made' = made + 1
    /\ tells' = (overflow /\ Len(queue) <= Capacity \div 2)
    /\ overflow' = (overflow /\ Len(queue) > Capacity \div 2)
    /\ UNCHANGED <<queue, seen, untold>>

(* Mutation: the queue hands out the newest snapshot first. *)
PutInFront ==
    /\ stage \in {"offer", "insert"}
    /\ Len(queue) < Capacity
    /\ stage' = "idle"
    /\ queue' = <<Newest>> \o queue
    /\ UNCHANGED <<overflow, made, tells, seen, untold>>

(* put_nowait succeeds. *)
Put ==
    /\ stage \in {"offer", "insert"}
    /\ Len(queue) < Capacity
    /\ stage' = "idle"
    /\ queue' = Append(queue, Newest)
    /\ UNCHANGED <<overflow, made, tells, seen, untold>>

(* Mutation: the new snapshot is dropped rather than the oldest. *)
FullDropsNewest ==
    /\ stage = "offer"
    /\ Len(queue) = Capacity
    /\ stage' = "idle"
    /\ UNCHANGED <<queue, overflow, made, tells, seen, untold>>

(* put_nowait raises Full. *)
Full ==
    /\ stage = "offer"
    /\ Len(queue) = Capacity
    /\ stage' = "evict"
    /\ UNCHANGED <<queue, overflow, made, tells, seen, untold>>

(* Mutation: a snapshot is only dropped when the overflow begins. *)
EvictOnce ==
    /\ stage = "evict"
    /\ stage' = "insert"
    /\ queue' = IF queue = <<>> \/ overflow THEN queue ELSE Tail(queue)
    /\ untold' = (untold \/ queue # <<>>)
    /\ overflow' = TRUE
    /\ tells' = (tells \/ ~overflow)
    /\ UNCHANGED <<made, seen>>

(* The oldest snapshot is dropped, unless the screen has just taken everything;
   the first time, the new one carries the warning. *)
Evict ==
    /\ stage = "evict"
    /\ stage' = "insert"
    /\ queue' = IF queue = <<>> THEN queue ELSE Tail(queue)
    /\ untold' = (untold \/ queue # <<>>)
    /\ overflow' = TRUE
    /\ tells' = (tells \/ ~overflow)
    /\ UNCHANGED <<made, seen>>

(* The screen: each get_nowait of its loop that finds a batch. *)
Collect ==
    /\ queue # <<>>
    /\ queue' = Tail(queue)
    /\ seen' = Head(queue).number
    /\ untold' = (untold /\ ~Head(queue).tells)
    /\ UNCHANGED <<overflow, stage, made, tells>>

Producer == Snapshot \/ Put \/ Full \/ Evict

QueueNext == Producer \/ Collect

QueueSpec == QueueInit /\ [][QueueNext]_queueVars

(* A snapshot that is being queued gets queued, and the timer keeps firing:
   decisions/0007, a refresh loop "unable to be permanently stopped by a single
   bad tick".  Nothing requires another snapshot. *)
QueueFairness == WF_queueVars(Put \/ Full \/ Evict) /\ WF_queueVars(Collect)

-----------------------------------------------------------------------------
(* The second put_nowait stands outside every try: were the queue full there,
   Full would end the polling thread. *)
SecondPutFits == stage = "insert" => Len(queue) < Capacity

(* A drop the screen has not been told of is on its way to it: the overflow is
   not over, or a snapshot that says so is queued or being queued. *)
DropsAreTold ==
    untold =>
        \/ overflow
        \/ stage # "idle" /\ tells
        \/ \E i \in DOMAIN queue : queue[i].tells

(* Whatever was dropped, it was not the newest: with nothing left to take, the
   screen shows the latest snapshot that was queued. *)
NewestIsKept == stage = "idle" /\ queue = <<>> => seen = made

(* The screen sees what SnapshotFeed promises it. *)
Feed == INSTANCE SnapshotFeed WITH made <- made, seen <- seen, Last <- Last

ScreenIsFed == Feed!FeedSpec

=============================================================================
