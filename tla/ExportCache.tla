----------------------------- MODULE ExportCache -----------------------------
(***************************************************************************)
(* A run's wide CSV and the SQLite cache it is kept up to date from        *)
(* (data/incremental_export.py), with the two journals it is made of.      *)
(*                                                                         *)
(* A reading is its time bin and its channel: what its value adds to the   *)
(* bin's average is that it is counted there, once.  The journal is then   *)
(* how many readings of each it holds, and the byte offset the cache saves *)
(* is the readings before it.  A CSV row is the readings averaged in it    *)
(* and the notes beside them.  Bins are 1..LastBin: 0 stands for none, and *)
(* for every bin before the first.                                         *)
(*                                                                         *)
(* Several threads may export the same folder.  An export is two           *)
(* transactions; each holds the cache's write lock (BEGIN IMMEDIATE).      *)
(***************************************************************************)
EXTENDS Naturals, Sequences, FiniteSets

CONSTANTS Channels,
          LastBin,
          Lag,          \* the bins a live export holds back: max(1, ceil(2 / bin_seconds))
          Notes,        \* note identifiers
          Exporters,    \* the threads that may export
          Nobody        \* no thread

ASSUME ChannelsAssumption == IsFiniteSet(Channels)
ASSUME BinsAssumption == LastBin \in Nat /\ Lag \in Nat \ {0}
ASSUME NobodyAssumption == Nobody \notin Exporters

VARIABLES readings,     \* measurements.journal.jsonl
          noteLog,      \* annotations.journal.jsonl, line by line
          cache,        \* export-cache.sqlite3, as committed
          csv,          \* <experiment ID>.csv
          lock,         \* the thread whose transaction holds the write lock
          export        \* what each thread's export is doing

exportVars == <<readings, noteLog, cache, csv, lock, export>>

Bins == 1..LastBin

Larger(m, n) == IF m >= n THEN m ELSE n

(* The latest bin of a set of bins, 0 when it is empty. *)
Latest(bins) == CHOOSE b \in bins \cup {0} : \A o \in bins : o <= b

Counts == [Bins -> [Channels -> Nat]]

NoReadings == [b \in Bins |-> [c \in Channels |-> 0]]

Filled(counts) == {b \in Bins : \E c \in Channels : counts[b][c] > 0}

Signals(counts) == {c \in Channels : \E b \in Bins : counts[b][c] > 0}

-----------------------------------------------------------------------------
(* Notes.  The text of a note is the line of the journal it was last given in. *)

NoteRecords == [id : Notes, action : {"create", "edit"}, bin : Bins]
               \cup [id : Notes, action : {"delete"}, bin : {0}]

(* A create for a note that exists, an edit of one that does not, and anything
   about one that was deleted are ignored. *)
Created(log, k, i) == i \in DOMAIN log /\ log[i].id = k /\ log[i].action = "create"

Deleted(log, k) == \E i \in DOMAIN log : log[i].id = k /\ log[i].action = "delete"

Defines(log, k, i) ==
    /\ i \in DOMAIN log
    /\ log[i].id = k
    /\ \/ log[i].action = "create" /\ \A j \in 1..(i - 1) : ~Created(log, k, j)
       \/ log[i].action = "edit" /\ \E j \in 1..(i - 1) : Created(log, k, j)

LiveNotes(log) == {k \in Notes : ~Deleted(log, k) /\ \E i \in DOMAIN log : Created(log, k, i)}

LineOf(log, k) == Latest({i \in DOMAIN log : Defines(log, k, i)})

NoteCells(log, b) ==
    {LineOf(log, k) : k \in {n \in LiveNotes(log) : log[LineOf(log, n)].bin = b}}

NoteBins(log) == {b \in Bins : NoteCells(log, b) # {}}

-----------------------------------------------------------------------------
(* The CSV: its columns, the rows it has for each bin in the order they come,
   and whether an append was cut short. *)

Rows == [counts : [Channels -> Nat], notes : SUBSET Nat]

NoFile == [exists |-> FALSE, columns |-> {}, rows |-> [b \in Bins |-> <<>>], torn |-> FALSE]

(* A bin with readings or notes has a row. *)
RowsOf(counts, log, b) ==
    IF b \in Filled(counts) \cup NoteBins(log)
    THEN <<[counts |-> counts[b], notes |-> NoteCells(log, b)]>>
    ELSE <<>>

Table(counts, columns, log, through) ==
    [exists |-> TRUE, columns |-> columns, torn |-> FALSE,
     rows |-> [b \in Bins |-> IF b <= through THEN RowsOf(counts, log, b) ELSE <<>>]]

Appended(counts, log, after, through) ==
    [csv EXCEPT !.rows =
        [b \in Bins |-> IF after < b /\ b <= through
                        THEN csv.rows[b] \o RowsOf(counts, log, b)
                        ELSE csv.rows[b]]]

(* What a file's size can tell: files of one size may differ, files of different
   sizes do. *)
Size(file) ==
    <<Cardinality(file.columns),
      Cardinality({p \in Bins \X (1..2) : p[2] \in DOMAIN file.rows[p[1]]}),
      file.torn>>

-----------------------------------------------------------------------------
Idle == [step |-> "idle", final |-> FALSE, excel |-> FALSE,
         through |-> 0, notesSize |-> 0]

ExportInit ==
    /\ readings = NoReadings
    /\ noteLog = <<>>
    /\ cache = [consumed |-> NoReadings, bins |-> NoReadings, signals |-> {},
                dirty |-> 0, schemaChanged |-> FALSE, through |-> 0,
                csvSize |-> Size(NoFile), notesSize |-> 0]
    /\ csv = NoFile
    /\ lock = Nobody
    /\ export = [e \in Exporters |-> Idle]

Goto(e, step) == export' = [export EXCEPT ![e].step = step]

At(e, step) == export[e].step = step

(* update(final=...), and for an Excel export the snapshot after it. *)
Begun(final, excel) ==
    [Idle EXCEPT !.step = "ingest", !.final = final, !.excel = excel]

(* The readings added to the journal since the offset, in their bins. *)
News == [b \in Bins |-> [c \in Channels |-> readings[b][c] - cache.consumed[b][c]]]

Plus(f, g) == [b \in Bins |-> [c \in Channels |-> f[b][c] + g[b][c]]]

Earliest(bins) == CHOOSE b \in bins : \A o \in bins : b <= o

Dirtied(dirty, bins) ==
    IF bins = {} THEN dirty
    ELSE IF dirty = 0 \/ Earliest(bins) < dirty THEN Earliest(bins) ELSE dirty

(* The first transaction: complete new journal lines go to their bins, and this
   is committed before the CSV is touched. *)
Ingest(e) ==
    /\ At(e, "ingest")
    /\ lock = Nobody
    /\ cache' = [cache EXCEPT
                    !.consumed = readings,
                    !.bins = Plus(@, News),
                    !.signals = @ \cup Signals(News),
                    !.dirty = Dirtied(@, Filled(News)),
                    !.schemaChanged = @ \/ ~(Signals(News) \subseteq cache.signals)]
    /\ Goto(e, "publish")
    /\ UNCHANGED <<readings, noteLog, csv, lock>>

(* Mutation: a note does not make the last bin of a final export later. *)
ThroughReadings(final) ==
    LET maximum == Latest(Filled(cache.bins))
    IN Larger(cache.through, IF final THEN maximum ELSE IF maximum > Lag THEN maximum - Lag ELSE 0)

(* How far the CSV reaches: all of it for a final export, and never less than
   before. *)
Through(final) ==
    LET maximum == Latest(Filled(cache.bins))
    IN Larger(cache.through,
              IF final THEN Latest(Filled(cache.bins) \cup NoteBins(noteLog))
              ELSE IF maximum > Lag THEN maximum - Lag ELSE 0)

(* Mutation: a late reading does not rebuild the file. *)
MustRebuildForSchema ==
    \/ cache.schemaChanged
    \/ ~csv.exists
    \/ Size(csv) # cache.csvSize
    \/ cache.notesSize # Len(noteLog)

MustRebuild ==
    \/ cache.schemaChanged
    \/ ~csv.exists
    \/ Size(csv) # cache.csvSize
    \/ cache.dirty # 0 /\ cache.dirty <= cache.through
    \/ cache.notesSize # Len(noteLog)

(* The second transaction, up to its commit: the CSV is replaced, or the rows
   after the last one appended.  Nothing is saved yet. *)
Publish(e) ==
    /\ At(e, "publish")
    /\ lock = Nobody
    /\ lock' = e
    /\ LET through == Through(export[e].final)
       IN /\ csv' = IF MustRebuild
                    THEN Table(cache.bins, cache.signals, noteLog, through)
                    ELSE Appended(cache.bins, noteLog, cache.through, through)
          /\ export' = [export EXCEPT ![e].step = "commit", ![e].through = through,
                                      ![e].notesSize = Len(noteLog)]
    /\ UNCHANGED <<readings, noteLog, cache>>

(* Mutation: the notes are measured when the transaction ends. *)
CommitNotesAsTheyAre(e) ==
    /\ At(e, "commit")
    /\ lock' = Nobody
    /\ cache' = [cache EXCEPT !.through = export[e].through, !.dirty = 0,
                              !.schemaChanged = FALSE, !.csvSize = Size(csv),
                              !.notesSize = Len(noteLog)]
    /\ Goto(e, IF export[e].excel THEN "snapshot" ELSE "done")
    /\ UNCHANGED <<readings, noteLog, csv>>

(* Its commit: what the CSV now holds is remembered. *)
Commit(e) ==
    /\ At(e, "commit")
    /\ lock' = Nobody
    /\ cache' = [cache EXCEPT !.through = export[e].through, !.dirty = 0,
                              !.schemaChanged = FALSE, !.csvSize = Size(csv),
                              !.notesSize = export[e].notesSize]
    /\ Goto(e, IF export[e].excel THEN "snapshot" ELSE "done")
    /\ UNCHANGED <<readings, noteLog, csv>>

(* An append that fails part-way leaves the rows up to some bin, and may leave
   the next one half written.  Its transaction is rolled back. *)
AppendFails(e) ==
    /\ At(e, "publish")
    /\ lock = Nobody
    /\ ~MustRebuild
    /\ cache.through < Through(export[e].final)
    /\ \E upto \in cache.through..Through(export[e].final) :
          csv' = [Appended(cache.bins, noteLog, cache.through, upto) EXCEPT !.torn = TRUE]
    /\ Goto(e, "failed")
    /\ UNCHANGED <<readings, noteLog, cache, lock>>

(* A step that raises: the cache stays busy for a minute, the file is open in
   Excel, the disk is full.  What its transaction had not committed is rolled
   back; a file already replaced stays so. *)
ExportFails(e) ==
    /\ export[e].step \in {"ingest", "publish", "commit", "snapshot"}
    /\ lock' = IF lock = e THEN Nobody ELSE lock
    /\ Goto(e, "failed")
    /\ UNCHANGED <<readings, noteLog, cache, csv>>

=============================================================================
