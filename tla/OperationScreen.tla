-------------------------- MODULE OperationScreen --------------------------
(***************************************************************************)
(* What the Operation window does beside its display                       *)
(* (ui/operation/window.py): orders that run on threads of their own, one  *)
(* at a time except for the exports of a recording; the reviews of runs;   *)
(* and closing, which waits for both.                                      *)
(*                                                                         *)
(* A thread puts its completion into a queue that a timer of Tk empties.   *)
(* The timer goes on while a question is open that a button asked, and not *)
(* while one is open that a completion asked.                              *)
(***************************************************************************)
EXTENDS Naturals, Sequences, SequencesExt

CONSTANTS Folders,    \* of runs
          MaxJobs,    \* bound: threads that run or wait for their completion
          Nothing

VARIABLES acting,       \* "order" or "closing" in progress, or Nothing
          finalising,   \* _recording_finalising: exports are being written
          pending,      \* _pending_close
          reviewed,     \* _review_export_directory
          reviews,      \* folders of the review dialogs that are open
          questions,    \* those open, the innermost last: "anyway", "stop" by a button or a tick
          jobs,         \* threads that run
          results,      \* completions in the queue
          live,         \* a recording is in progress
          closed,
          forced,       \* closing did not wait (history)
          overtaken     \* a close in wait was renewed after its work had ended (history)

screenVars == <<acting, finalising, pending, reviewed, reviews, questions, jobs, results, live, closed, forced, overtaken>>

jobVars == <<jobs, results>>
closeVars == <<pending, questions, closed, forced, overtaken>>

JobKinds == {"order", "exports", "workbook", "closing"}

ScreenInit ==
    /\ acting = Nothing /\ finalising = FALSE /\ pending = FALSE
    /\ reviewed = Nothing /\ reviews = {} /\ questions = <<>>
    /\ jobs = <<>> /\ results = <<>> /\ live = FALSE
    /\ closed = FALSE /\ forced = FALSE /\ overtaken = FALSE

Busy == acting # Nothing \/ finalising

Free == questions = <<>> /\ ~closed

InBackground(kind) ==
    /\ Len(jobs) + Len(results') < MaxJobs
    /\ jobs' = Append(jobs, kind)

-----------------------------------------------------------------------------
(* Buttons. *)

(* _run_operation_action(); connecting has a button and a queue like it. *)
Order ==
    /\ Free /\ UNCHANGED results
    /\ IF acting # Nothing THEN UNCHANGED <<acting, jobs>>
                           ELSE acting' = "order" /\ InBackground("order")
    /\ UNCHANGED <<finalising, closeVars, reviewed, reviews, live>>

StartRecording == ~finalising /\ ~live /\ Order

(* The exports run beside any order; the review is offered at once. *)
StopRecording(folder) ==
    /\ Free /\ live /\ ~finalising /\ UNCHANGED results
    /\ finalising' = TRUE /\ InBackground("exports")
    /\ reviews' \in {reviews, reviews \cup {folder}}
    /\ UNCHANGED <<acting, closeVars, reviewed, live>>

ReviewPastRun(folder) ==
    /\ Free /\ ~live
    /\ reviews' = reviews \cup {folder}
    /\ UNCHANGED <<acting, finalising, closeVars, reviewed, jobVars, live>>

(* _refresh_excel_after_review(), with this folder in wait. *)
RefreshExcel(folder, writing) ==
    IF folder = Nothing \/ writing
    THEN reviewed' = folder /\ finalising' = writing /\ UNCHANGED jobs
    ELSE reviewed' = Nothing /\ finalising' = TRUE /\ InBackground("workbook")

SaveReview(folder) ==
    /\ Free /\ folder \in reviews /\ reviews' = reviews \ {folder}
    /\ UNCHANGED results
    /\ RefreshExcel(folder, finalising)
    /\ UNCHANGED <<acting, closeVars, live>>

(* Skipped, or not saved. *)
SkipReview(folder) ==
    /\ Free /\ folder \in reviews /\ reviews' = reviews \ {folder}
    /\ UNCHANGED <<acting, finalising, closeVars, reviewed, jobVars, live>>

-----------------------------------------------------------------------------
(* Closing. *)

Question(ask, from, force) == [ask |-> ask, from |-> from, force |-> force]

Shutdown(force) ==
    /\ acting' = "closing" /\ InBackground("closing")
    /\ forced' = (forced \/ force)

(* request_close(), from a button or a tick, while this is in progress and a close
   waits or not. *)
RequestClose(from, order, writing, waiting) ==
    LET busy == order # Nothing \/ writing IN
    \/ /\ busy /\ ~waiting
       /\ pending' = TRUE /\ acting' = order
       /\ UNCHANGED <<jobs, questions, forced>>
    \/ /\ busy /\ waiting
       /\ questions' = Append(questions, Question("anyway", from, TRUE))
       /\ pending' = waiting /\ acting' = order /\ UNCHANGED <<jobs, forced>>
    \/ /\ ~busy /\ live
       /\ questions' = Append(questions, Question("stop", from, FALSE))
       /\ pending' = waiting /\ acting' = order /\ UNCHANGED <<jobs, forced>>
    \/ /\ ~busy /\ ~live
       /\ Shutdown(FALSE)
       /\ pending' = waiting /\ UNCHANGED questions

Close ==
    /\ Free /\ UNCHANGED results
    /\ RequestClose("button", acting, finalising, pending)
    /\ UNCHANGED <<finalising, reviewed, reviews, live, closed, overtaken>>

Asked == Last(questions)

Answered == questions # <<>> /\ ~closed /\ UNCHANGED <<finalising, reviewed, reviews, results, live, closed>>

(* "Close Operation anyway?": No waits again, though what it waited for may have ended. *)
WaitOn ==
    /\ Answered /\ Asked.ask = "anyway"
    /\ questions' = Front(questions)
    /\ pending' = TRUE /\ overtaken' = (overtaken \/ ~Busy)
    /\ UNCHANGED <<acting, jobs, forced>>

CloseAnyway ==
    /\ Answered /\ Asked.ask = "anyway"
    /\ pending' = FALSE
    /\ IF live
       THEN /\ questions' = Append(Front(questions), Question("stop", Asked.from, TRUE))
            /\ UNCHANGED <<acting, jobs, forced>>
       ELSE questions' = Front(questions) /\ Shutdown(TRUE)
    /\ UNCHANGED overtaken

(* "Stop recording and close Operation?" *)
StopAndClose ==
    /\ Answered /\ Asked.ask = "stop"
    /\ questions' = Front(questions)
    /\ Shutdown(Asked.force)
    /\ UNCHANGED <<pending, overtaken>>

KeepOpen ==
    /\ Answered /\ Asked.ask = "stop"
    /\ questions' = Front(questions)
    /\ UNCHANGED <<acting, jobs, pending, forced, overtaken>>

-----------------------------------------------------------------------------
(* Threads, and the timer. *)

JobEnds(k) ==
    /\ jobs' = RemoveAt(jobs, k) /\ results' = Append(results, jobs[k])
    /\ live' \in IF jobs[k] \in {"exports", "closing"} THEN {FALSE} ELSE {live, jobs[k] = "order"}
    /\ UNCHANGED <<acting, finalising, closeVars, reviewed, reviews>>

(* A recipe's thread begins or ends a recording. *)
RecipeRecords ==
    /\ live' = ~live
    /\ UNCHANGED <<acting, finalising, closeVars, reviewed, reviews, jobVars>>

Ticking == ~closed /\ \A k \in DOMAIN questions : questions[k].from = "button"

Completes(kind) ==
    /\ Ticking /\ results # <<>> /\ Head(results) = kind
    /\ results' = Tail(results)

(* _resume_pending_close(). *)
Resume(order, writing) ==
    IF pending THEN RequestClose("tick", order, writing, FALSE)
    ELSE acting' = order /\ UNCHANGED <<jobs, pending, questions, forced>>

OrderCompletes ==
    /\ Completes("order")
    /\ Resume(Nothing, finalising)
    /\ UNCHANGED <<finalising, reviewed, reviews, live, closed, overtaken>>

(* The final exports are written: a review saved meanwhile is added to the workbook. *)
ExportsComplete ==
    /\ Completes("exports")
    /\ IF reviewed # Nothing
       THEN RefreshExcel(reviewed, FALSE) /\ UNCHANGED <<acting, pending, questions, forced>>
       ELSE finalising' = FALSE /\ Resume(acting, FALSE) /\ UNCHANGED reviewed
    /\ UNCHANGED <<reviews, live, closed, overtaken>>

WorkbookCompletes ==
    /\ Completes("workbook")
    /\ finalising' = FALSE /\ Resume(acting, FALSE)
    /\ UNCHANGED <<reviewed, reviews, live, closed, overtaken>>

(* The window is gone, with the timer and what was open. *)
ClosingCompletes ==
    /\ Completes("closing")
    /\ acting' = Nothing /\ closed' = TRUE /\ reviews' = {}
    /\ UNCHANGED <<finalising, pending, questions, forced, overtaken, reviewed, jobs, live>>

ScreenNext ==
    \/ Order \/ StartRecording \/ Close
    \/ \E folder \in Folders :
          StopRecording(folder) \/ ReviewPastRun(folder) \/ SaveReview(folder) \/ SkipReview(folder)
    \/ WaitOn \/ CloseAnyway \/ StopAndClose \/ KeepOpen
    \/ \E k \in DOMAIN jobs : JobEnds(k)
    \/ RecipeRecords
    \/ OrderCompletes \/ ExportsComplete \/ WorkbookCompletes \/ ClosingCompletes

-----------------------------------------------------------------------------

Underway(kinds) == \E kind \in kinds : Contains(jobs, kind) \/ Contains(results, kind)

(* "Operation will close when ... finishes": there is something whose end resumes the
   close that waits, whatever was ordered, reviewed or asked meanwhile. *)
CloseIsNotLost == pending /\ ~closed /\ ~overtaken => Underway(JobKinds)

(* Closing that does not say otherwise waits for the exports and for the order that is in
   progress, and begins no second time. *)
ClosesAfterItsWork ==
    ~forced' /\ Len(jobs') > Len(jobs) /\ Last(jobs') = "closing" =>
        jobs = <<>> /\ results' = <<>> /\ ~closed

(* One order at a time, unless closing did not wait for one. *)
OneOrder == Cardinality({k \in DOMAIN jobs : jobs[k] \in {"order", "closing"}}) <= 1 \/ forced

=============================================================================
