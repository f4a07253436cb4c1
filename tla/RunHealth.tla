------------------------------ MODULE RunHealth ------------------------------
(***************************************************************************)
(* The monitor of the program's own memory (runtime_diagnostics.py): a     *)
(* thread that samples it, keeps an overview of the whole session in       *)
(* bounded memory, warns of memory that is high or grows, and takes        *)
(* snapshots of allocations, which cost memory themselves, but not many.   *)
(*                                                                         *)
(* Left out: the counters of other services, rotation of the log, and      *)
(* systems that do not tell the size of a process.                         *)
(***************************************************************************)
EXTENDS Naturals, Sequences, FiniteSets, SequencesExt

CONSTANTS Levels, Usual,             \* of memory; it mostly has this one
          SafetyLevel, Growth,       \* that are warned of
          WarnGap, Window, Cooldown, Hour, PerHour, Interval,
          OverviewLimit,
          MaxSamples, MaxOdd,    \* bounds: samples; those out of the ordinary
          Nothing

VARIABLES thread,       \* "none", "running", "ended"
          stopping,     \* _stop_requested
          now,
          recent,       \* _memory_history: times and sizes
          warnedAt,     \* _last_warning_at
          snapshots,    \* _warning_snapshot_times
          disabled,     \* _allocation_snapshots_disabled
          next,         \* when allocations are due
          overview,     \* points: a time and two sizes
          logged,       \* what the last record of the log is, or Nothing
          sampled,      \* all points (history)
          heard,        \* when the latest warning was published (history)
          taken,        \* times of all snapshots for a warning (history)
          odd           \* how much was out of the ordinary (bound)

healthVars == <<thread, stopping, now, recent, warnedAt, snapshots, disabled, next, overview,
                logged, sampled, heard, taken, odd>>

HealthInit ==
    /\ thread = "none" /\ stopping = FALSE /\ now = 0
    /\ recent = <<>> /\ warnedAt = Nothing /\ snapshots = <<>> /\ disabled = FALSE /\ next = 0
    /\ overview = <<>> /\ logged = Nothing /\ sampled = <<>> /\ heard = Nothing /\ taken = <<>> /\ odd = 0

-----------------------------------------------------------------------------
(* The overview. *)

Lowest(points, field) ==
    SelectInSeq(points, LAMBDA p : \A q \in ToSet(points) : p[field] <= q[field])

Highest(points, field) ==
    SelectInSeq(points, LAMBDA p : \A q \in ToSet(points) : p[field] >= q[field])

(* The four extremes of a bucket, in order of time. *)
Bucket(points) ==
    LET chosen == {Lowest(points, "private"), Highest(points, "private"),
                   Lowest(points, "traced"), Highest(points, "traced")}
    IN SelectSeq(points, LAMBDA p : \E k \in chosen : points[k] = p)

(* _condense_health_points(): nothing is left to be trimmed. *)
Condense(points) ==
    LET interior == SubSeq(points, 2, Len(points) - 1)
        count == (OverviewLimit - 2) \div 4
        size == (Len(interior) + count - 1) \div count
    IN IF Len(points) <= OverviewLimit THEN points
       ELSE <<Head(points)>>
            \o FlattenSeq([b \in 1..((Len(interior) + size - 1) \div size) |->
                  Bucket(SubSeq(interior, (b - 1) * size + 1,
                                IF b * size < Len(interior) THEN b * size ELSE Len(interior)))])
            \o <<Last(points)>>

AppendHealthPoint(point) ==
    LET longer == Append(overview, point) IN
    /\ overview' = IF Len(longer) > 2 * OverviewLimit THEN Condense(longer) ELSE longer
    /\ sampled' = Append(sampled, point)

-----------------------------------------------------------------------------
(* Warnings and snapshots. *)

(* The latest of the samples that are a window old stays, for comparison. *)
Pruned(memory) ==
    LET old == {k \in 1..(Len(memory) - 1) : memory[k + 1].at + Window <= now'}
    IN SubSeq(memory, Cardinality(old) + 1, Len(memory))

InTrouble(memory) ==
    \/ Last(memory).bytes >= SafetyLevel
    \/ Last(memory).bytes >= Head(memory).bytes + Growth

(* _memory_warning() *)
MemoryWarning(bytes, warned) ==
    /\ recent' = Pruned(Append(recent, [at |-> now', bytes |-> bytes]))
    /\ warned <=> InTrouble(recent') /\ (warnedAt = Nothing \/ now' - warnedAt >= WarnGap)
    /\ warnedAt' = IF warned THEN now' ELSE warnedAt

ThisHour == SelectSeq(snapshots, LAMBDA t : t + Hour >= now')

(* _warning_snapshot_allowed() *)
SnapshotAllowed(bytes) ==
    /\ ~disabled /\ bytes < SafetyLevel
    /\ Len(ThisHour) < PerHour
    /\ ThisHour = <<>> \/ now' - Last(ThisHour) >= Cooldown

(* An allocation summary that is due, or a warning asks for, may run out of memory. *)
Snapshot(bytes, due, warned) ==
    LET asked == warned /\ ~due /\ ~disabled /\ bytes < SafetyLevel
        forWarning == warned /\ ~due /\ SnapshotAllowed(bytes)
        takes == (due \/ forWarning) /\ ~disabled /\ bytes < SafetyLevel
    IN /\ snapshots' = IF forWarning THEN Append(ThisHour, now')
                       ELSE IF asked THEN ThisHour ELSE snapshots
       /\ taken' = IF forWarning THEN Append(taken, now') ELSE taken
       /\ disabled' \in IF takes THEN {disabled, TRUE} ELSE {disabled}

Passes == now' = now + 1 /\ now < MaxSamples

(* _write_sample() *)
WriteSample(private, traced, due, lifecycle) ==
    /\ AppendHealthPoint([at |-> now', private |-> private, traced |-> traced])
    /\ \E warned \in BOOLEAN :
          /\ MemoryWarning(private, warned) /\ Snapshot(private, due, warned)
          /\ heard' = IF warned THEN now' ELSE heard
    /\ logged' = lifecycle
    /\ odd' = odd + Cardinality({k \in 1..2 : <<private, traced>>[k] # Usual})
                  + (IF disabled' # disabled THEN 1 ELSE 0)
    /\ odd' <= MaxOdd

-----------------------------------------------------------------------------
(* The thread, and who starts and stops it. *)

Start ==
    /\ thread = "none" /\ thread' = "starting" /\ next' = now + Interval
    /\ UNCHANGED <<stopping, now, recent, warnedAt, snapshots, disabled, overview, logged, sampled, heard, taken, odd>>

(* _run(), once around: allocations are due at first, and then from time to time.  If it
   was told to stop meanwhile, this was the last. *)
Due == thread = "starting" \/ now' >= next

Around ==
    /\ thread \in {"starting", "running"} /\ Passes
    /\ next' = IF thread = "running" /\ Due THEN now' + Interval ELSE next
    /\ thread' = IF stopping THEN "ended" ELSE "running"
    /\ UNCHANGED stopping

Sample(private, traced) ==
    /\ Around
    /\ WriteSample(private, traced, Due, IF thread = "starting" THEN "started" ELSE "sample")

(* Memory could not be read: the monitor survives. *)
SampleFails ==
    /\ Around
    /\ logged' = "error" /\ odd' = odd + 1 /\ odd' <= MaxOdd
    /\ UNCHANGED <<recent, warnedAt, snapshots, disabled, overview, sampled, heard, taken>>

(* stop(), before it waits: it gives up if the thread does not end in time. *)
RequestStop ==
    /\ thread # "none" /\ ~stopping /\ stopping' = TRUE
    /\ UNCHANGED <<thread, now, recent, warnedAt, snapshots, disabled, next, overview, logged, sampled, heard, taken, odd>>

(* It sleeps between two samples. *)
ThreadEnds ==
    /\ thread = "running" /\ stopping /\ thread' = "ended"
    /\ UNCHANGED <<stopping, now, recent, warnedAt, snapshots, disabled, next, overview, logged, sampled, heard, taken, odd>>

(* stop(), when it is in time: it takes the last sample itself. *)
Stopped(private, traced) ==
    /\ thread = "ended" /\ thread' = "over" /\ Passes
    /\ WriteSample(private, traced, TRUE, "stopped")
    /\ UNCHANGED <<stopping, next>>

(* __init__(): another process, whatever became of this one. *)
NewMonitor ==
    /\ thread' = "none" /\ stopping' = FALSE /\ now' = 0
    /\ recent' = <<>> /\ warnedAt' = Nothing /\ snapshots' = <<>> /\ disabled' = FALSE /\ next' = 0
    /\ overview' = <<>> /\ logged' = Nothing /\ sampled' = <<>> /\ heard' = Nothing /\ taken' = <<>> /\ odd' = 0

HealthNext ==
    \/ \E private, traced \in Levels : Sample(private, traced) \/ Stopped(private, traced)
    \/ Start \/ SampleFails \/ RequestStop \/ ThreadEnds \/ NewMonitor

-----------------------------------------------------------------------------

(* However long the session was, the overview that is shown begins with its first sample
   and ends with the latest, shows the least and the most that either size ever was, in
   order of time, and has no more points than its limit. *)
OverviewKeepsExtremes ==
    sampled # <<>> =>
        LET shown == Condense(overview) IN
        /\ Len(shown) <= OverviewLimit
        /\ Head(shown) = Head(sampled) /\ Last(shown) = Last(sampled)
        /\ \A k \in 1..(Len(shown) - 1) : shown[k].at < shown[k + 1].at
        /\ \A p \in ToSet(sampled) :
              /\ \E q \in ToSet(shown) : q.private <= p.private
              /\ \E q \in ToSet(shown) : q.private >= p.private
              /\ \E q \in ToSet(shown) : q.traced <= p.traced
              /\ \E q \in ToSet(shown) : q.traced >= p.traced

(* Memory that is high, or has grown since what it was a window ago, was warned of not
   long before, and the warnings did not take more snapshots than any hour may have. *)
WarnsEnough ==
    /\ sampled # <<>> =>
          LET latest == Last(sampled)
              before == SelectLastInSeq(sampled, LAMBDA p : p.at + Window <= latest.at)
              base == IF before = 0 THEN Head(sampled) ELSE sampled[before]
          IN (latest.private >= SafetyLevel \/ latest.private >= base.private + Growth) =>
                heard # Nothing /\ latest.at - heard < WarnGap
    /\ \A k \in DOMAIN taken :
          /\ Cardinality({j \in DOMAIN taken : taken[j] <= taken[k] /\ taken[k] <= taken[j] + Hour}) <= PerHour
          /\ k > 1 => taken[k] - taken[k - 1] >= Cooldown

(* No record of this monitor follows its last one. *)
StaysStopped == logged = "stopped" => logged' \in {"stopped", Nothing}

=============================================================================
