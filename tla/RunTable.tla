------------------------------ MODULE RunTable ------------------------------
(***************************************************************************)
(* What a reader of a run's wide CSV may rely on, however the file is kept *)
(* up to date: a row never claims more readings than were recorded, never  *)
(* forgets readings it once showed, and is there once.  Only rows of the   *)
(* last bins may be withdrawn again, until later readings settle them.  A  *)
(* run that is called complete shows every reading, for good.              *)
(***************************************************************************)
EXTENDS Naturals, Sequences

CONSTANTS Bins,         \* the time bins of the run, in their order
          Channels,     \* its signals
          Lag           \* how many bins may still be unsettled

VARIABLES recorded,     \* [Bins -> [Channels -> Nat]]: the readings in the journal
          shown,        \* [Bins -> Seq([Channels -> Nat])]: those in each row of a bin
          complete      \* whether the run is called complete

tableVars == <<recorded, shown, complete>>

AtMost(f, g) == \A c \in Channels : f[c] <= g[c]

NoReadings == [c \in Channels |-> 0]

TableInit ==
    /\ recorded = [b \in Bins |-> NoReadings]
    /\ shown = [b \in Bins |-> <<>>]
    /\ complete = FALSE

Record ==
    /\ ~complete
    /\ \E b \in Bins, c \in Channels : recorded' = [recorded EXCEPT ![b][c] = @ + 1]
    /\ UNCHANGED <<shown, complete>>

Settled(b) == \E later \in Bins : b + Lag <= later /\ recorded[later] # NoReadings

(* A bin keeps its row, or has one that shows at least as much, or loses one
   that was not settled or showed no readings. *)
Renewed(b) ==
    \/ shown'[b] = shown[b]
    \/ shown'[b] = <<>> /\ (shown[b] = <<NoReadings>> \/ ~Settled(b))
    \/ /\ Len(shown'[b]) = 1
       /\ AtMost(shown'[b][1], recorded[b])
       /\ shown[b] # <<>> => AtMost(shown[b][1], shown'[b][1])

Refresh ==
    /\ ~complete
    /\ \A b \in Bins : Renewed(b)
    /\ UNCHANGED <<recorded, complete>>

(* A bin without readings may still have a row, for its notes. *)
Whole(b) ==
    \/ shown[b] = <<recorded[b]>>
    \/ recorded[b] = NoReadings /\ shown[b] = <<>>

Finish ==
    /\ \A b \in Bins : Whole(b)
    /\ complete' = TRUE
    /\ UNCHANGED <<recorded, shown>>

TableNext == Record \/ Refresh \/ Finish

TableSpec == TableInit /\ [][TableNext]_tableVars

=============================================================================
