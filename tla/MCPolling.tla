----------------------------- MODULE MCPolling -----------------------------
(* The two sides of polling, either: instruments polled by a screen that starts and
   stops monitoring while the session may be closing; or the queue of snapshots between
   the two.  They share no state: the one that is not looked at stays as constructed,
   where nothing is required of it. *)
EXTENDS Polling, ResultsQueue

VARIABLE side

MCInit == side \in {"reads", "queue"} /\ Init /\ QueueInit

(* The bound is reached, and everything shown. *)
Ended == made = Last /\ stage = "idle" /\ queue = <<>> /\ UNCHANGED queueVars

MCNext ==
    /\ \/ side = "reads" /\ Next /\ UNCHANGED queueVars
       \/ side = "queue" /\ (QueueNext \/ Ended) /\ UNCHANGED vars
    /\ UNCHANGED side

MCSpec ==
    /\ MCInit /\ [][MCNext]_<<side, vars, queueVars>>
    /\ Fairness /\ QueueFairness

-----------------------------------------------------------------------------

(* decisions/0002: "A slow device's own schedule can no longer block anyone
   else's reads."  A read of a slow source may never end; the quick ones are
   read again and again until monitoring is stopped. *)
QuickKeepsReporting ==
    \A quick \in Sources \ Slow : []<>(quick \in waking \/ stopRequested \/ pc = "off")

(* stop() returns, unless a read never ends. *)
StopReturns ==
    (\A slow \in Slow : []<>(slow \notin reading))
        => \A c \in Callers : caller[c] # "idle" ~> caller[c] = "idle"

=============================================================================
