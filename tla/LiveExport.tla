----------------------------- MODULE LiveExport -----------------------------
(***************************************************************************)
(* One run's recording and its exports: the recorder                       *)
(* (experiment_recording.py), the folder it writes                         *)
(* (data/directory_writer.py), the CSV kept up to date while it records    *)
(* (ExportCache), the workbook (data/export.py), and the process ending    *)
(* under them.                                                             *)
(*                                                                         *)
(* Readings come from the polling thread and notes from the screen, under  *)
(* the recorder's lock.  Live exports, and workbooks asked for while the   *)
(* folder is open, run on the writer's single worker thread.  Stopping,    *)
(* and workbooks of a finished folder, run on the thread that holds the    *)
(* recorder's export lock.                                                 *)
(***************************************************************************)
EXTENDS ExportCache

CONSTANTS Worker, Holder,       \* the worker thread; the holder of the export lock
          MaxReadings,          \* bound: readings recorded
          MaxNotes,             \* bound: lines of the notes journal
          MaxRequests,          \* bound: workbooks asked for
          MaxFailures           \* bound: exports that fail

ASSUME ExportersAssumption == Exporters = {Worker, Holder} /\ Worker # Holder

VARIABLES attached,     \* the recorder has the writer, readings are recorded
          isOpen,       \* the writer's is_open
          present,      \* the process that made the recording still runs
          stopping,     \* stop() has been called and has not returned
          status,       \* recording-state.json
          job,          \* what the export lock is held for
          queue,        \* the worker's tasks
          live,         \* the outcome of the last live export
          xlsx,         \* <experiment ID>.xlsx: the readings and notes in it
          asked,        \* history: the readings there were when a workbook was asked for
          requests, failures    \* counted for their bounds

recorderVars == <<attached, isOpen, present, stopping, status, job, queue, live, xlsx,
                  asked, requests, failures>>

vars == <<readings, noteLog, cache, csv, lock, export, attached, isOpen, present, stopping,
          status, job, queue, live, xlsx, asked, requests, failures>>

Recorded == [counts |-> readings, notes |-> [b \in Bins |-> NoteCells(noteLog, b)]]

Nothing == [counts |-> NoReadings, notes |-> [b \in Bins |-> {}]]

(* Everything keeps to its type, and no more exporters hold the write lock than
   one, between the two halves of its second transaction. *)
TypeOK ==
    /\ readings \in [Bins -> [Channels -> 0..MaxReadings]]
    /\ noteLog \in Seq(NoteRecords)
    /\ cache.consumed \in [Bins -> [Channels -> 0..MaxReadings]]
    /\ cache.bins \in [Bins -> [Channels -> 0..MaxReadings]]
    /\ cache.signals \subseteq Channels
    /\ {cache.dirty, cache.through} \subseteq 0..LastBin
    /\ cache.notesSize \in 0..MaxNotes
    /\ csv.columns \subseteq Channels
    /\ \A b \in Bins : csv.rows[b] \in Seq(Rows)
    /\ \A e \in Exporters : (lock = e) <=> At(e, "commit")
    /\ {attached, isOpen, present, stopping} \subseteq BOOLEAN
    /\ status \in {"recording", "complete"}
    /\ job \in {"none", "close", "finalise", "queued", "excel"}
    /\ queue \in Seq({"live", "excel"})
    /\ live \in {"none", "pending", "ok", "failed"}
    /\ requests \in 0..MaxRequests
    /\ failures \in 0..MaxFailures

(* The folder has just been opened: open_experiment. *)
Init ==
    /\ ExportInit
    /\ attached = TRUE
    /\ isOpen = TRUE
    /\ present = TRUE
    /\ stopping = FALSE
    /\ status = "recording"
    /\ job = "none"
    /\ queue = <<>>
    /\ live = "none"
    /\ xlsx = Nothing
    /\ asked = NoReadings
    /\ requests = 0
    /\ failures = 0

-----------------------------------------------------------------------------
(* Recording.  After every write the live export is due or not; it is not
   submitted while the last one is still to finish. *)

RefreshIfDue ==
    \/ UNCHANGED <<queue, live>>
    \/ /\ live # "pending"
       /\ live' = "pending"
       /\ queue' = Append(queue, "live")

RecordedSoFar == LET sum[b \in 0..LastBin] ==
                       IF b = 0 THEN 0
                       ELSE sum[b - 1] + Cardinality({p \in Channels \X (1..MaxReadings) :
                                                          p[2] <= readings[b][p[1]]})
                 IN sum[LastBin]

(* record_batch.  A slow instrument's reading may belong to any earlier bin. *)
Record(b, c) ==
    /\ attached
    /\ RecordedSoFar < MaxReadings
    /\ readings' = [readings EXCEPT ![b][c] = @ + 1]
    /\ RefreshIfDue
    /\ UNCHANGED <<noteLog, cache, csv, lock, export, attached, isOpen, present, stopping,
                   status, job, xlsx, asked, requests, failures>>

(* The screen adds a note under a new identifier, and changes or deletes one
   that is there. *)
Offered(note) ==
    IF note.action = "create" THEN \A i \in DOMAIN noteLog : noteLog[i].id # note.id
                              ELSE note.id \in LiveNotes(noteLog)

(* record_annotation: refused when nothing is recorded. *)
Annotate(note) ==
    /\ attached
    /\ Len(noteLog) < MaxNotes
    /\ Offered(note)
    /\ noteLog' = Append(noteLog, note)
    /\ RefreshIfDue
    /\ UNCHANGED <<readings, cache, csv, lock, export, attached, isOpen, present, stopping,
                   status, job, xlsx, asked, requests, failures>>

-----------------------------------------------------------------------------
(* The worker thread. *)

WorkerStarts ==
    /\ At(Worker, "idle")
    /\ queue # <<>>
    /\ queue' = Tail(queue)
    /\ export' = [export EXCEPT ![Worker] =
                    Begun(Head(queue) = "excel" /\ status # "recording", Head(queue) = "excel")]
    /\ UNCHANGED <<readings, noteLog, cache, csv, lock, attached, isOpen, present, stopping,
                   status, job, live, xlsx, asked, requests, failures>>

(* Its result: the live export's is kept, the workbook's goes to the thread that
   waits for it, which gives up the export lock. *)
WorkerEnds ==
    /\ export[Worker].step \in {"done", "failed"}
    /\ IF export[Worker].excel
       THEN job' = "none" /\ asked' = NoReadings /\ UNCHANGED live
       ELSE live' = (IF At(Worker, "done") THEN "ok" ELSE "failed") /\ UNCHANGED <<job, asked>>
    /\ export' = [export EXCEPT ![Worker] = Idle]
    /\ UNCHANGED <<readings, noteLog, cache, csv, lock, attached, isOpen, present, stopping,
                   status, queue, xlsx, requests, failures>>

Step(e) ==
    /\ Ingest(e) \/ Publish(e) \/ Commit(e)
    /\ UNCHANGED recorderVars

(* Mutation: the workbook is made of the rows of the CSV. *)
SnapshotOfCsv(e) ==
    /\ At(e, "snapshot")
    /\ xlsx' = [counts |-> [b \in Bins |-> IF b <= cache.through THEN cache.bins[b] ELSE NoReadings[b]],
                notes |-> [b \in Bins |-> NoteCells(noteLog, b)]]
    /\ Goto(e, "done")
    /\ UNCHANGED <<readings, noteLog, cache, csv, lock, attached, isOpen, present, stopping,
                   status, job, queue, live, asked, requests, failures>>

(* The workbook is written from one read of the cache, the last bins included,
   and replaces the one before. *)
Snapshot(e) ==
    /\ At(e, "snapshot")
    /\ xlsx' = [counts |-> cache.bins, notes |-> [b \in Bins |-> NoteCells(noteLog, b)]]
    /\ Goto(e, "done")
    /\ UNCHANGED <<readings, noteLog, cache, csv, lock, attached, isOpen, present, stopping,
                   status, job, queue, live, asked, requests, failures>>

Fail(e) ==
    /\ failures < MaxFailures
    /\ failures' = failures + 1
    /\ AppendFails(e) \/ ExportFails(e)
    /\ UNCHANGED <<attached, isOpen, present, stopping, status, job, queue, live, xlsx,
                   asked, requests>>

-----------------------------------------------------------------------------
(* The holder of the export lock. *)

(* export_excel() while the folder is open: queued behind the live exports. *)
RequestQueued ==
    /\ present /\ isOpen
    /\ job = "none"
    /\ requests < MaxRequests
    /\ requests' = requests + 1
    /\ job' = "queued"
    /\ queue' = Append(queue, "excel")
    /\ asked' = readings
    /\ UNCHANGED <<readings, noteLog, cache, csv, lock, export, attached, isOpen, present,
                   stopping, status, live, xlsx, failures>>

(* A folder that is not being recorded is exported on the caller's thread.  The
   screen offers it as soon as readings have stopped, or after a restart. *)
RequestFolder ==
    /\ ~attached
    /\ job = "none"
    /\ requests < MaxRequests
    /\ requests' = requests + 1
    /\ job' = "excel"
    /\ asked' = readings
    /\ export' = [export EXCEPT ![Holder] = Begun(status # "recording", TRUE)]
    /\ UNCHANGED <<readings, noteLog, cache, csv, lock, attached, isOpen, present, stopping,
                   status, queue, live, xlsx, failures>>

RequestEnds ==
    /\ job = "excel"
    /\ export[Holder].step \in {"done", "failed"}
    /\ job' = "none"
    /\ export' = [export EXCEPT ![Holder] = Idle]
    /\ asked' = NoReadings
    /\ UNCHANGED <<readings, noteLog, cache, csv, lock, attached, isOpen, present, stopping,
                   status, queue, live, xlsx, requests, failures>>

(* stop() detaches the writer at once ... *)
Stop ==
    /\ attached
    /\ attached' = FALSE
    /\ stopping' = TRUE
    /\ UNCHANGED <<readings, noteLog, cache, csv, lock, export, isOpen, present, status, job,
                   queue, live, xlsx, asked, requests, failures>>

(* ... and closes the folder once it has the export lock. *)
Close ==
    /\ stopping
    /\ job = "none"
    /\ job' = "close"
    /\ UNCHANGED <<readings, noteLog, cache, csv, lock, export, attached, isOpen, present,
                   stopping, status, queue, live, xlsx, asked, requests, failures>>

(* The last live export is waited for; had it failed, closing fails. *)
Finalise ==
    /\ job = "close"
    /\ live \in {"none", "ok"}
    /\ job' = "finalise"
    /\ isOpen' = FALSE
    /\ asked' = readings
    /\ export' = [export EXCEPT ![Holder] = Begun(TRUE, TRUE)]
    /\ UNCHANGED <<readings, noteLog, cache, csv, lock, attached, present, stopping, status,
                   queue, live, xlsx, requests, failures>>

(* Mutation: a live export that failed is waited for. *)
CloseFailsLast ==
    /\ job = "finalise"
    /\ At(Holder, "failed")
    /\ isOpen' = FALSE
    /\ stopping' = FALSE
    /\ job' = "none"
    /\ export' = [export EXCEPT ![Holder] = Idle]
    /\ asked' = NoReadings
    /\ UNCHANGED <<readings, noteLog, cache, csv, lock, attached, present, status, queue, live,
                   xlsx, requests, failures>>

CloseFails ==
    /\ \/ job = "close" /\ live = "failed"
       \/ job = "finalise" /\ At(Holder, "failed")
    /\ isOpen' = FALSE
    /\ stopping' = FALSE
    /\ job' = "none"
    /\ export' = [export EXCEPT ![Holder] = Idle]
    /\ asked' = NoReadings
    /\ UNCHANGED <<readings, noteLog, cache, csv, lock, attached, present, status, queue, live,
                   xlsx, requests, failures>>

Closed ==
    /\ job = "finalise"
    /\ At(Holder, "done")
    /\ status' = "complete"
    /\ stopping' = FALSE
    /\ job' = "none"
    /\ export' = [export EXCEPT ![Holder] = Idle]
    /\ asked' = NoReadings
    /\ UNCHANGED <<readings, noteLog, cache, csv, lock, attached, isOpen, present, queue, live,
                   xlsx, requests, failures>>

(* The process ends wherever it is: the threads and the lock are gone, what was
   committed and the files stay.  The program may be started again. *)
ProcessEnds ==
    /\ present
    /\ present' = FALSE
    /\ attached' = FALSE
    /\ isOpen' = FALSE
    /\ stopping' = FALSE
    /\ job' = "none"
    /\ queue' = <<>>
    /\ live' = "none"
    /\ lock' = Nobody
    /\ export' = [e \in Exporters |-> Idle]
    /\ asked' = NoReadings
    /\ UNCHANGED <<readings, noteLog, cache, csv, status, xlsx, requests,
                   failures>>

Recording ==
    \/ \E b \in Bins, c \in Channels : Record(b, c)
    \/ \E note \in NoteRecords : Annotate(note)

Exporting(e) == Step(e) \/ Snapshot(e)

Holding == RequestEnds \/ Close \/ Finalise \/ CloseFails \/ Closed

Next ==
    \/ Recording
    \/ WorkerStarts \/ WorkerEnds
    \/ \E e \in Exporters : Exporting(e) \/ Fail(e)
    \/ RequestQueued \/ RequestFolder \/ Stop \/ Holding
    \/ ProcessEnds

Spec == Init /\ [][Next]_vars

(* A thread that can go on does; the recorder's callers decide what to ask. *)
FairSpec ==
    /\ Spec
    /\ WF_vars(WorkerStarts) /\ WF_vars(WorkerEnds) /\ WF_vars(Holding)
    /\ \A e \in Exporters : WF_vars(Exporting(e))

-----------------------------------------------------------------------------
(* incremental_export.py:140: "If writing CSV fails, a retry still knows which
   bins need exporting".  Between transactions, when nothing the cache saved asks
   for a rebuild, the file is what the cache takes it for: the table of its bins
   and notes as far as it reaches. *)
CacheKnowsCsv ==
    lock = Nobody /\ ~MustRebuild =>
        csv = [Table(cache.bins, cache.signals, noteLog, cache.through) EXCEPT !.torn = FALSE]

(* A run marked complete has every reading and note, in the CSV and the workbook. *)
CompleteIsWhole ==
    status = "complete" =>
        /\ csv = Table(readings, Signals(readings), noteLog, LastBin)
        /\ xlsx = Recorded

(* A workbook holds the readings that were recorded when it was asked for,
   whatever live export it waited behind, and none twice. *)
WorkbookIncludesPast ==
    \A e \in Exporters :
        export[e].excel /\ At(e, "done") =>
            \A b \in Bins, c \in Channels :
                asked[b][c] <= xlsx.counts[b][c] /\ xlsx.counts[b][c] <= readings[b][c]

(* What readers of the CSV are promised. *)
Promise == INSTANCE RunTable WITH
    recorded <- readings,
    shown <- [b \in Bins |-> [i \in DOMAIN csv.rows[b] |-> csv.rows[b][i].counts]],
    complete <- status = "complete"

CsvKeepsPromise == Promise!TableSpec

(* is_finalising ends: stopping a run comes back, whatever fails and whoever is
   exporting. *)
StoppingEnds == stopping ~> ~stopping

=============================================================================
