------------------------------ MODULE Polling ------------------------------
(***************************************************************************)
(* The polling service (polling.py): a scheduler thread, one read per      *)
(* source on a pool of workers, and callers that start and stop it.        *)
(*                                                                         *)
(* What the recorder and the event sink raise is caught, told once, and    *)
(* changes nothing else (_deliver_batch, _publish_events): it is left out. *)
(*                                                                         *)
(* Time is abstracted to what becomes due: a source that is not being read *)
(* becomes due at some moment, and so does the next snapshot.  A reading   *)
(* is abstracted to whether the read succeeded.  What happens to a         *)
(* snapshot once it is built is the subject of ResultsQueue.               *)
(***************************************************************************)
EXTENDS FiniteSets, Sequences, Naturals

CONSTANTS Sources,      \* registered measurement sources
          Slow,         \* those whose driver call may never return
          Callers       \* threads that start and stop the service

VARIABLES registered,   \* PollingService._thread is not None
          stopRequested,\* _stop_requested
          wake,         \* _wake_scheduler
          caller,       \* what each caller is doing in start() or stop()
          pc,           \* where the scheduler thread is
          inFlight,     \* the local `in_flight' of _run
          due,          \* sources whose next_due has been reached
          publishDue,   \* next_publish has been reached
          reading,      \* sources some worker is reading
          completed,    \* _completed_reads
          waking,       \* workers between put() and set() in _read_completed
          active,       \* the local `active_failures' of _run
          failedIds,    \* _failed_device_ids
          unhandled     \* history: sources read with success, not handed on yet

lifecycleVars == <<registered, stopRequested, wake, caller>>
scheduleVars == <<inFlight, due, publishDue>>
workerVars == <<reading, completed, waking>>
reportVars == <<active, failedIds>>
vars == <<lifecycleVars, pc, scheduleVars, workerVars, reportVars, unhandled>>

(* A caller inside stop() holds the thread it joins: the current one, or one
   that has ended and been replaced since. *)
CallerStages == {"idle", "set_wake", "join", "join_replaced"}

Labels == {"off", "loop", "drain", "submit", "publish", "wait", "clear", "exit", "last_drain"}

Completions == [device : Sources, ok : BOOLEAN]

(* Every variable keeps to its type. *)
TypeOK ==
    /\ registered \in BOOLEAN
    /\ stopRequested \in BOOLEAN
    /\ wake \in BOOLEAN
    /\ caller \in [Callers -> CallerStages]
    /\ pc \in Labels
    /\ inFlight \subseteq Sources
    /\ due \subseteq Sources
    /\ publishDue \in BOOLEAN
    /\ reading \subseteq Sources
    /\ completed \in Seq(Completions)
    /\ waking \subseteq Sources
    /\ active \subseteq Sources
    /\ failedIds \subseteq Sources
    /\ unhandled \subseteq Sources

(* Constructed and not started. *)
Init ==
    /\ registered = FALSE
    /\ stopRequested = FALSE
    /\ wake = FALSE
    /\ caller = [c \in Callers |-> "idle"]
    /\ pc = "off"
    /\ inFlight = {}
    /\ due = {}
    /\ publishDue = FALSE
    /\ reading = {}
    /\ completed = <<>>
    /\ waking = {}
    /\ active = {}
    /\ failedIds = {}
    /\ unhandled = {}

-----------------------------------------------------------------------------
(* start() and stop(). *)

LifecycleLockFree == \A c \in Callers : caller[c] # "set_wake"

IsRunning == registered /\ pc # "off"

(* Mutation: failures of the previous session are remembered. *)
StartRememberingFailures(c) ==
    /\ caller[c] = "idle"
    /\ LifecycleLockFree
    /\ ~IsRunning
    /\ registered' = TRUE
    /\ stopRequested' = FALSE
    /\ wake' = FALSE
    /\ caller' = [k \in Callers |-> IF caller[k] = "join" THEN "join_replaced" ELSE caller[k]]
    /\ pc' = "loop"
    /\ inFlight' = {}
    /\ due' = Sources
    /\ publishDue' = FALSE
    /\ completed' = <<>>
    /\ active' = {}
    /\ UNCHANGED <<reading, waking, failedIds, unhandled>>

(* Everything of the previous session is cleared, and a new thread started
   with every source due at once. *)
Start(c) ==
    /\ caller[c] = "idle"
    /\ LifecycleLockFree
    /\ ~IsRunning
    /\ registered' = TRUE
    /\ stopRequested' = FALSE
    /\ wake' = FALSE
    /\ caller' = [k \in Callers |-> IF caller[k] = "join" THEN "join_replaced" ELSE caller[k]]
    /\ pc' = "loop"
    /\ inFlight' = {}
    /\ due' = Sources
    /\ publishDue' = FALSE
    /\ completed' = <<>>
    /\ active' = {}
    /\ failedIds' = {}
    /\ UNCHANGED <<reading, waking, unhandled>>

RequestStop(c) ==
    /\ caller[c] = "idle"
    /\ LifecycleLockFree
    /\ registered
    /\ stopRequested' = TRUE
    /\ caller' = [caller EXCEPT ![c] = "set_wake"]
    /\ UNCHANGED <<registered, wake, pc, unhandled, scheduleVars, workerVars, reportVars>>

WakeForStop(c) ==
    /\ caller[c] = "set_wake"
    /\ wake' = TRUE
    /\ caller' = [caller EXCEPT ![c] = "join"]
    /\ UNCHANGED <<registered, stopRequested, pc, unhandled, scheduleVars, workerVars, reportVars>>

(* join() has returned; the thread is forgotten unless it was replaced. *)
Joined(c) ==
    /\ caller[c] \in {"join", "join_replaced"}
    /\ caller[c] = "join" => pc = "off"
    /\ LifecycleLockFree
    /\ registered' = IF caller[c] = "join" THEN FALSE ELSE registered
    /\ caller' = [caller EXCEPT ![c] = "idle"]
    /\ UNCHANGED <<stopRequested, wake, pc, unhandled, scheduleVars, workerVars, reportVars>>

-----------------------------------------------------------------------------
(* The clock. *)

BecomesDue(d) ==
    /\ pc # "off"
    /\ d \notin inFlight \cup due
    /\ due' = due \cup {d}
    /\ UNCHANGED <<lifecycleVars, pc, inFlight, publishDue, workerVars, reportVars, unhandled>>

SnapshotBecomesDue ==
    /\ pc # "off"
    /\ ~publishDue
    /\ publishDue' = TRUE
    /\ UNCHANGED <<lifecycleVars, pc, inFlight, due, workerVars, reportVars, unhandled>>

-----------------------------------------------------------------------------
(* The workers. *)

(* The driver returns or raises, and the completion is queued. *)
FinishRead(d) ==
    /\ d \in reading
    /\ reading' = reading \ {d}
    /\ waking' = waking \cup {d}
    /\ \E ok \in BOOLEAN :
          /\ completed' = Append(completed, [device |-> d, ok |-> ok])
          /\ unhandled' = IF ok THEN unhandled \cup {d} ELSE unhandled
    /\ UNCHANGED <<lifecycleVars, pc, scheduleVars, reportVars>>

(* Mutation: the scheduler is woken only if it is waiting already. *)
WakeIfWaiting(d) ==
    /\ d \in waking
    /\ waking' = waking \ {d}
    /\ wake' = (wake \/ pc = "wait")
    /\ UNCHANGED <<registered, stopRequested, caller, pc, reading, completed, unhandled,
                   scheduleVars, reportVars>>

WakeScheduler(d) ==
    /\ d \in waking
    /\ waking' = waking \ {d}
    /\ wake' = TRUE
    /\ UNCHANGED <<registered, stopRequested, caller, pc, reading, completed, unhandled,
                   scheduleVars, reportVars>>

-----------------------------------------------------------------------------
(* The scheduler. *)

Goto(label) ==
    /\ pc' = label
    /\ UNCHANGED <<lifecycleVars, scheduleVars, workerVars, reportVars, unhandled>>

(* Mutation: the loop is left only when no read is in flight. *)
LoopUntilQuiet ==
    pc = "loop" /\ Goto(IF stopRequested /\ inFlight = {} THEN "exit" ELSE "drain")

LoopTest == pc = "loop" /\ Goto(IF stopRequested THEN "exit" ELSE "drain")

Drained ==
    /\ completed = <<>>
    /\ \/ pc = "drain" /\ Goto("submit")
       \/ pc = "last_drain" /\ Goto("off")

(* Mutation: a failed read leaves its source in flight. *)
DrainFailureInFlight ==
    /\ pc \in {"drain", "last_drain"}
    /\ completed # <<>>
    /\ ~Head(completed).ok
    /\ LET d == Head(completed).device IN
          /\ completed' = Tail(completed)
          /\ due' = due \ {d}
          /\ active' = active \cup {d}
          /\ failedIds' = failedIds \cup {d}
    /\ UNCHANGED <<lifecycleVars, pc, inFlight, publishDue, reading, waking, unhandled>>

(* A failed read: reported when the source had not failed before. *)
DrainFailure ==
    /\ pc \in {"drain", "last_drain"}
    /\ completed # <<>>
    /\ ~Head(completed).ok
    /\ LET d == Head(completed).device IN
          /\ completed' = Tail(completed)
          /\ inFlight' = inFlight \ {d}
          /\ due' = due \ {d}
          /\ active' = active \cup {d}
          /\ failedIds' = failedIds \cup {d}
    /\ UNCHANGED <<lifecycleVars, pc, publishDue, reading, waking, unhandled>>

(* A read that succeeded: handed on, if it brought something to report. *)
DrainSuccess ==
    /\ pc \in {"drain", "last_drain"}
    /\ completed # <<>>
    /\ Head(completed).ok
    /\ LET d == Head(completed).device IN
          /\ completed' = Tail(completed)
          /\ inFlight' = inFlight \ {d}
          /\ due' = due \ {d}
          /\ active' = active \ {d}
          /\ failedIds' = failedIds \ {d}
          /\ unhandled' = unhandled \ {d}
    /\ UNCHANGED <<lifecycleVars, pc, publishDue, reading, waking>>

(* Mutation: a round of reads starts only when the last one is over. *)
SubmitRound ==
    LET ready == IF inFlight = {} THEN due ELSE {} IN
    /\ pc = "submit"
    /\ pc' = "publish"
    /\ reading' = reading \cup ready
    /\ inFlight' = inFlight \cup ready
    /\ due' = due \ ready
    /\ UNCHANGED <<lifecycleVars, publishDue, completed, waking, reportVars, unhandled>>

(* Every source that is due and not in flight is given to a worker of its own. *)
Submit ==
    LET ready == due \ inFlight IN
    /\ pc = "submit"
    /\ pc' = "publish"
    /\ reading' = reading \cup ready
    /\ inFlight' = inFlight \cup ready
    /\ due' = due \ ready
    /\ UNCHANGED <<lifecycleVars, publishDue, completed, waking, reportVars, unhandled>>

Publish ==
    /\ pc = "publish"
    /\ pc' = "wait"
    /\ publishDue' = FALSE
    /\ UNCHANGED <<lifecycleVars, inFlight, due, workerVars, reportVars, unhandled>>

(* wait() returns when woken or at the earliest deadline. *)
Waited ==
    /\ pc = "wait"
    /\ wake \/ publishDue \/ due \ inFlight # {}
    /\ Goto("clear")

ClearWake ==
    /\ pc = "clear"
    /\ pc' = "loop"
    /\ wake' = FALSE
    /\ UNCHANGED <<registered, stopRequested, caller, scheduleVars, workerVars, reportVars, unhandled>>

(* Mutation: the thread ends without looking at the last completions. *)
ExitAtOnce ==
    /\ pc = "exit"
    /\ reading = {} /\ waking = {}
    /\ Goto("off")

(* Leaving the executor waits for every worker, callbacks included. *)
ExecutorExit ==
    /\ pc = "exit"
    /\ reading = {} /\ waking = {}
    /\ Goto("last_drain")

-----------------------------------------------------------------------------
Scheduler ==
    \/ LoopTest \/ Drained \/ DrainFailure \/ DrainSuccess \/ Submit \/ Publish
    \/ Waited \/ ClearWake \/ ExecutorExit

Next ==
    \/ Scheduler
    \/ \E d \in Sources : BecomesDue(d) \/ FinishRead(d) \/ WakeScheduler(d)
    \/ SnapshotBecomesDue
    \/ \E c \in Callers : Start(c) \/ RequestStop(c) \/ WakeForStop(c) \/ Joined(c)

Spec == Init /\ [][Next]_vars

-----------------------------------------------------------------------------
(* Safety. *)

InQueue(d) == \E i \in DOMAIN completed : completed[i].device = d

(* What the scheduler believes to be in flight is exactly what is being read or
   waits to be looked at, and only once; and the scheduler that runs is the one
   start() and stop() know, whatever callers overlap, so that none is started beside
   it.  A source is never read twice at the same time, and none is forgotten and
   never read again. *)
InFlightExact ==
    /\ pc # "off" => registered
    /\ inFlight = reading \cup {d \in Sources : InQueue(d)}
    /\ \A d \in reading : ~InQueue(d)
    /\ \A i, j \in DOMAIN completed : completed[i].device = completed[j].device => i = j

(* A waiting scheduler that has something to do is awake or about to be
   woken, although it clears the flag that others set. *)
NoLostWakeup ==
    pc = "wait" =>
        /\ completed # <<>> => wake \/ waking # {}
        /\ stopRequested => wake \/ \E c \in Callers : caller[c] = "set_wake"

(* A successful read is handed to the recorder before the thread ends:
   polling.py, "stopping monitoring cannot discard a successfully completed
   final acquisition". *)
NothingReadIsLost ==
    /\ \A d \in unhandled : \E i \in DOMAIN completed : completed[i].device = d /\ completed[i].ok
    /\ pc = "off" => unhandled = {}

(* The failures shown with each snapshot are those whose failure event has
   been issued and whose recovery has not: after a restart too. *)
FailuresAgree == pc # "off" => active = failedIds

-----------------------------------------------------------------------------
(* Liveness.  The scheduler, the callbacks and the callers inside stop() keep
   running and the clock advances; a read ends only if its source is not slow.
   A caller that waits for _lifecycle_lock obtains it in the end. *)
Fairness ==
    /\ WF_vars(Scheduler)
    /\ WF_vars(SnapshotBecomesDue)
    /\ \A d \in Sources : WF_vars(BecomesDue(d)) /\ WF_vars(WakeScheduler(d))
    /\ \A d \in Sources \ Slow : WF_vars(FinishRead(d))
    /\ \A c \in Callers : WF_vars(WakeForStop(c)) /\ SF_vars(Joined(c))

FairSpec == Spec /\ Fairness

=============================================================================
