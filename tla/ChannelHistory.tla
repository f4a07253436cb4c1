--------------------------- MODULE ChannelHistory ---------------------------
(***************************************************************************)
(* What the graphs of one signal are drawn from                            *)
(* (ui/operation/model.py, _ChannelHistory).  All readings are kept for    *)
(* RawSeconds; a second store spans the whole run in bounded memory, and   *)
(* is halved whenever it is full.  A view takes what it can from the first *)
(* and what is older from the second, and is reduced to the least and the  *)
(* greatest of each bin of time.                                           *)
(*                                                                         *)
(* Readings of one signal have different times.  Qualities are left out.   *)
(***************************************************************************)
EXTENDS Naturals, Sequences, SequencesExt

CONSTANTS Values, Ordinary,          \* of a reading; it mostly has this one or the next
          RawSeconds, RawLimit, TrimChunk, RunLimit,
          Pause,                     \* time between two readings, if not 1
          PointLimit, Periods,       \* of a view
          MaxReadings, MaxUnusual    \* bounds: readings; those out of the ordinary

VARIABLES raw,        \* every recent reading: a time and a value
          whole,      \* of the whole run
          groupSize,  \* readings that become two of whole; 1 keeps all
          group,      \* the readings of the one that is not complete
          began,      \* _first_time
          accepted,   \* all readings that were accepted (history)
          unusual     \* how many were out of the ordinary (bound)

historyVars == <<raw, whole, groupSize, group, began, accepted, unusual>>

HistoryInit ==
    /\ raw = <<>> /\ whole = <<>> /\ groupSize = 1 /\ group = <<>> /\ began = 0
    /\ accepted = <<>> /\ unusual = 0

Larger(m, n) == IF m > n THEN m ELSE n

(* _extrema_in_order(): the first of the lowest and of the highest. *)
Extrema(samples) ==
    LET lowest == SelectInSeq(samples, LAMBDA s : \A o \in ToSet(samples) : s.value <= o.value)
        highest == SelectInSeq(samples, LAMBDA s : \A o \in ToSet(samples) : s.value >= o.value)
    IN IF lowest = highest THEN <<samples[lowest]>>
       ELSE IF lowest < highest THEN <<samples[lowest], samples[highest]>>
       ELSE <<samples[highest], samples[lowest]>>

(* _trim_raw(): by age or number, many at once. *)
Trimmed(samples) ==
    LET expired == Len(SelectSeq(samples, LAMBDA s : s.time + RawSeconds < Last(samples).time))
        over == IF Len(samples) > RawLimit THEN Len(samples) - RawLimit ELSE 0
        excess == Larger(expired, over)
    IN IF excess >= TrimChunk THEN SubSeq(samples, excess + 1, Len(samples)) ELSE samples

(* _halve_run() *)
Halved(samples) ==
    FlattenSeq([c \in 1..((Len(samples) + 3) \div 4) |->
        Extrema(SubSeq(samples, 4 * c - 3, IF 4 * c < Len(samples) THEN 4 * c ELSE Len(samples)))])

(* _append_to_run() *)
AppendToRun(sample) ==
    LET complete == groupSize > 1 /\ Len(group) + 1 >= groupSize
        longer == IF groupSize = 1 THEN Append(whole, sample)
                  ELSE IF complete THEN whole \o Extrema(Append(group, sample)) ELSE whole
    IN /\ group' = IF groupSize = 1 \/ complete THEN <<>> ELSE Append(group, sample)
       /\ IF Len(longer) >= RunLimit
          THEN /\ whole' = Halved(longer)
               /\ groupSize' = IF groupSize = 1 THEN 4 ELSE groupSize * 2
          ELSE whole' = longer /\ UNCHANGED groupSize

(* append().  One that is late is dropped. *)
Reading(value, gap) ==
    LET sample == [time |-> (IF raw = <<>> THEN 0 ELSE Last(raw).time) + gap, value |-> value] IN
    /\ Len(accepted) < MaxReadings
    /\ unusual' = IF value = Ordinary + (Len(accepted) % 2) /\ gap = 1 THEN unusual ELSE unusual + 1
    /\ unusual' <= MaxUnusual
    /\ raw' = Trimmed(Append(raw, sample))
    /\ AppendToRun(sample)
    /\ began' = IF raw = <<>> THEN sample.time ELSE began
    /\ accepted' = Append(accepted, sample)

(* Operation is opened again. *)
NewHistory ==
    /\ raw' = <<>> /\ whole' = <<>> /\ groupSize' = 1 /\ group' = <<>> /\ began' = 0
    /\ accepted' = <<>> /\ unusual' = 0

HistoryNext ==
    \/ \E value \in Values, gap \in {1, Pause} : Reading(value, gap)
    \/ NewHistory

-----------------------------------------------------------------------------
(* A view. *)

Since(samples, start, end) == SelectSeq(samples, LAMBDA s : start <= s.time /\ s.time < end)

(* _binned_indices(): bins lie on a grid of their own. *)
Binned(samples, span) ==
    LET bins == Larger(1, (PointLimit - 6) \div 2)
        Bin(s) == (s.time * bins) \div span
        first == Bin(Head(samples))
    IN FlattenSeq([b \in 1..(Bin(Last(samples)) - first + 1) |->
          LET those == SelectSeq(samples, LAMBDA s : Bin(s) = first + b - 1)
          IN IF those = <<>> THEN <<>> ELSE Extrema(those)])

Unless(sample, samples, next) == IF Contains(samples, sample) THEN samples ELSE next

(* rows_for_period(), since this time. *)
RowsSince(start) ==
    LET latest == Last(raw).time
        old == Since(whole, start, raw[1].time)
        new == Since(raw, start, latest + 1)
        all == IF start < raw[1].time THEN old \o new ELSE new
        Shown(samples) == IF samples = <<>> THEN <<>> ELSE Binned(samples, latest - start)
        body == IF start < raw[1].time THEN Shown(old) \o Shown(new) ELSE Shown(new)
        begun == Unless(Head(all), body, <<Head(all)>> \o body)
    IN IF Len(all) <= PointLimit THEN all
       ELSE Unless(Last(all), begun, Append(begun, Last(all)))

-----------------------------------------------------------------------------

(* A view shows the lowest and the highest of the readings it is for: the whole run's
   after any number of halvings -- but what waits for its group, if a pause made the store
   of recent readings forget it -- and exactly a period's.  Whatever a view is made of,
   it is in order of time, ends with the latest reading and keeps within its limit. *)
Awaited == {s \in ToSet(group) : ~Contains(raw, s)}

ShowsExtremes(view, those) ==
    those # {} =>
        /\ \E s \in ToSet(view) : \A o \in those : s.value <= o.value
        /\ \E s \in ToSet(view) : \A o \in those : s.value >= o.value

ViewsShowExtremes ==
    raw # <<>> =>
        LET latest == Last(raw).time
            View(start) == RowsSince(Larger(start, began))
            Starts == {0} \cup {latest - p : p \in {q \in Periods : q <= latest}}
        IN \A start \in Starts :
              LET view == View(start) IN
              /\ Len(view) <= PointLimit /\ Last(view) = Last(raw)
              /\ \A k \in 1..(Len(view) - 1) : view[k].time < view[k + 1].time
              /\ ToSet(view) \subseteq ToSet(accepted)
              /\ start = 0 => ShowsExtremes(view, ToSet(accepted) \ Awaited)
              /\ start >= raw[1].time =>
                    ShowsExtremes(view, {s \in ToSet(accepted) : s.time >= start})

=============================================================================
