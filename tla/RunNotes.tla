------------------------------ MODULE RunNotes ------------------------------
(***************************************************************************)
(* Notes during a run (ui/operation/annotation_ui.py, annotation_dialog.py *)
(* and the note box; ui/operation/model.py; data/annotations.py): the      *)
(* journal of each run, which only grows, and what the screen shows, which *)
(* is made from its own list of the records that were written.             *)
(*                                                                         *)
(* Notes are written on the Tk thread.  A recording is begun by the worker *)
(* of the screen or by the thread of a recipe, and ended by either.        *)
(*                                                                         *)
(* A time is the number of recordings begun by then.                       *)
(***************************************************************************)
EXTENDS Naturals, SequencesExt, Functions

CONSTANTS MaxRuns, MaxNotes, MaxRecords,   \* bounds: recordings, notes, records written
          Texts, Nothing

VARIABLES run,        \* recordings begun so far: the latest one, or 0
          recording,  \* the recorder has an open writer
          beginner,   \* who began the latest: a "recipe", or the screen ("cleared" when it has
                      \* forgotten the notes before it, "worker" until then)
          journal,    \* per run, its records in order
          records,    \* OperationViewModel._annotation_records
          dialog,     \* the dialog that is open: what it adds, changes or asks about
          moving,     \* the note that waits for a click, of one chart
          typed,      \* when typing into the note box began
          noted,      \* notes made (their ids)
          doubtful    \* notes of which a write failed (history)

noteVars == <<run, recording, beginner, journal, records, dialog, moving, typed, noted, doubtful>>

Runs == 1..MaxRuns

NotesInit ==
    /\ run = 0 /\ recording = FALSE /\ beginner = "cleared"
    /\ journal = [r \in Runs |-> <<>>] /\ records = <<>>
    /\ dialog = Nothing /\ moving = Nothing /\ typed = Nothing
    /\ noted = 0 /\ doubtful = {}

-----------------------------------------------------------------------------
(* Records, and the notes they amount to. *)

Record(action, id, time, text) == [action |-> action, id |-> id, time |-> time, text |-> text]

NoNotes == [live |-> <<>>, deleted |-> {}]

Applied(notes, record) ==
    LET known == record.id \in DOMAIN notes.live
        state == [time |-> record.time, text |-> record.text]
    IN CASE record.id \in notes.deleted -> notes
         [] record.action = "delete" ->
               [live |-> Restrict(notes.live, DOMAIN notes.live \ {record.id}),
                deleted |-> notes.deleted \cup {record.id}]
         [] known = (record.action = "create") -> notes
         [] OTHER -> [notes EXCEPT !.live =
                         [id \in DOMAIN notes.live \cup {record.id} |->
                             IF id = record.id THEN state ELSE notes.live[id]]]

(* A correction of an unknown or deleted note is ignored. *)
Resolve(written) == FoldLeft(Applied, NoNotes, written).live

Shown == Resolve(records)

-----------------------------------------------------------------------------
(* Writing one: refused unless recording; a write that failed may have reached the file. *)

Journaled(record) == [journal EXCEPT ![run] = Append(@, record)]

Written == FoldFunctionOnSet(LAMBDA written, total : Len(written) + total, 0, journal, Runs)

Write(record) ==
    IF ~recording THEN UNCHANGED <<journal, records, doubtful>>
    ELSE /\ Written < MaxRecords
         /\ \/ /\ journal' = Journaled(record) /\ records' = Append(records, record)
               /\ UNCHANGED doubtful
            \/ /\ journal' \in {journal, Journaled(record)}
               /\ doubtful' = doubtful \cup {record.id}
               /\ UNCHANGED records

TimeProblem(time) == ~recording \/ time < run

Refused == UNCHANGED <<journal, records, doubtful>>

Add(time, text) ==
    IF TimeProblem(time) THEN Refused /\ UNCHANGED noted
    ELSE /\ noted < MaxNotes /\ noted' = noted + 1
         /\ Write(Record("create", noted + 1, time, text))

EditText(id, text) ==
    IF id \notin DOMAIN Shown THEN Refused ELSE Write(Record("edit", id, Shown[id].time, text))

(* Mutation: a note is moved to wherever the click was. *)
EditTimeAnywhere(id, time) ==
    IF id \notin DOMAIN Shown THEN Refused ELSE Write(Record("edit", id, time, Shown[id].text))

EditTime(id, time) ==
    IF id \notin DOMAIN Shown \/ TimeProblem(time) THEN Refused
    ELSE Write(Record("edit", id, time, Shown[id].text))

Delete(id) ==
    IF id \notin DOMAIN Shown THEN Refused ELSE Write(Record("delete", id, 0, Nothing))

-----------------------------------------------------------------------------
(* The screen.  A dialog has the input to itself; what it was opened for may be gone
   when it is answered. *)

Free == dialog = Nothing

Ask(what, id, time) ==
    /\ Free /\ recording
    /\ dialog' = [what |-> what, id |-> id, time |-> time]
    /\ UNCHANGED <<run, recording, beginner, journal, records, moving, typed, noted, doubtful>>

(* A double-click on a chart; a time before the run is refused at once. *)
AddFromGraph == moving = Nothing /\ Ask("add", 0, run)

AskEdit(id) == id \in DOMAIN Shown /\ Ask("edit", id, 0)

AskDelete(id) == id \in DOMAIN Shown /\ Ask("delete", id, 0)

Answer(text) ==
    /\ ~Free /\ dialog' = Nothing
    /\ CASE text = Nothing -> Refused /\ UNCHANGED noted
         [] text # Nothing /\ dialog.what = "add" -> Add(dialog.time, text)
         [] text # Nothing /\ dialog.what = "edit" -> EditText(dialog.id, text) /\ UNCHANGED noted
         [] text # Nothing /\ dialog.what = "delete" -> Delete(dialog.id) /\ UNCHANGED noted
    /\ UNCHANGED <<run, recording, beginner, moving, typed>>

StartMove(id) ==
    /\ Free /\ recording /\ id \in DOMAIN Shown
    /\ moving' = id
    /\ UNCHANGED <<run, recording, beginner, journal, records, dialog, typed, noted, doubtful>>

(* The click, anywhere in the chart or beside it; or Escape. *)
Move(time) ==
    /\ Free /\ moving # Nothing /\ moving' = Nothing
    /\ IF time = Nothing THEN Refused ELSE EditTime(moving, time)
    /\ UNCHANGED <<run, recording, beginner, dialog, typed, noted>>

(* The first key of a note, and its time. *)
Type ==
    /\ Free /\ recording /\ typed = Nothing
    /\ typed' = run
    /\ UNCHANGED <<run, recording, beginner, journal, records, dialog, moving, noted, doubtful>>

(* Pasted text has no first key.  What was not saved stays in the box. *)
AddTyped(text) ==
    /\ Free /\ run > 0
    /\ Add(IF typed = Nothing THEN run ELSE typed, text)
    /\ typed' = IF records' # records THEN Nothing ELSE typed
    /\ UNCHANGED <<run, recording, beginner, dialog, moving>>

ClearNote ==
    /\ Free /\ typed # Nothing /\ typed' = Nothing
    /\ UNCHANGED <<run, recording, beginner, journal, records, dialog, moving, noted, doubtful>>

-----------------------------------------------------------------------------
(* Recordings. *)

Begin(who) ==
    /\ ~recording /\ beginner # "worker" /\ run < MaxRuns
    /\ recording' = TRUE /\ run' = run + 1 /\ beginner' = who
    /\ UNCHANGED <<journal, records, dialog, moving, typed, noted, doubtful>>

(* start_recording(), on the screen's worker: the recorder, then the notes of before. *)
StartRecording == Begin("worker")

ClearNotes ==
    /\ beginner = "worker" /\ beginner' = "cleared"
    /\ records' = <<>>
    /\ UNCHANGED <<run, recording, journal, dialog, moving, typed, noted, doubtful>>

(* A recipe's thread begins one in the recorder itself. *)
StartRecipeRun == Begin("recipe")

StopRecording ==
    /\ recording /\ recording' = FALSE
    /\ UNCHANGED <<run, beginner, journal, records, dialog, moving, typed, noted, doubtful>>

NotesNext ==
    \/ AddFromGraph
    \/ \E id \in DOMAIN Shown : AskEdit(id) \/ AskDelete(id) \/ StartMove(id)
    \/ \E text \in Texts \cup {Nothing} : Answer(text)
    \/ \E time \in 0..run \cup {Nothing} : Move(time)
    \/ \E text \in Texts : AddTyped(text)
    \/ Type \/ ClearNote
    \/ StartRecording \/ ClearNotes \/ StartRecipeRun \/ StopRecording

NotesSpec == NotesInit /\ [][NotesNext]_noteVars

-----------------------------------------------------------------------------

(* In a run the screen began, every note shown is in that run's journal as it is shown,
   and so in every export of it; unless a write of it failed, which was said. *)
ShownAsJournaled ==
    beginner = "cleared" /\ run > 0 =>
        \A id \in DOMAIN Shown \ doubtful :
            LET kept == Resolve(journal[run])
            IN id \in DOMAIN kept /\ kept[id] = Shown[id]

(* A note that is saved stays within the run it was made in. *)
WithinTheirRun ==
    \A r \in Runs : \A id \in DOMAIN Resolve(journal[r]) : Resolve(journal[r])[id].time = r

(* ui/operation/model.py:1200: "Notes for the current run (or the last one, once
   stopped), by time."  A run a recipe began is shown the notes of the one before it, and
   a change of one of those is written into the wrong journal, where it is ignored. *)
NotesAreOfTheRun ==
    beginner # "worker" /\ run > 0 =>
        \A id \in DOMAIN Shown : \E k \in DOMAIN journal[run] :
            journal[run][k].id = id /\ journal[run][k].action = "create"

=============================================================================
