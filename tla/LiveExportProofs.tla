--------------------------- MODULE LiveExportProofs ---------------------------
(* Proofs about LiveExport for any number of channels, bins, notes, readings,
   workbooks and failures. *)
EXTENDS LiveExport, FiniteSetTheorems, SequenceTheorems, TLAPS

(***************************************************************************)
(* Bins.                                                                   *)
(***************************************************************************)

(* The sets of what lies below each member are well founded, and the least of
   them is that of the least member. *)
LEMMA EarliestExists ==
  ASSUME NEW s \in SUBSET Nat, s # {}
  PROVE  \E m \in s : \A o \in s : m <= o
  <1> DEFINE below(m) == {o \in s : o < m}
  <1>1. PICK family : family = {below(m) : m \in s}
    OBVIOUS
  <1>2. family \subseteq FiniteSubsetsOf(s)
    <2>1. ASSUME NEW m \in s PROVE below(m) \in SUBSET Nat /\ m \in Nat /\ \A o \in below(m) : o <= m
      <3>1. m \in Nat /\ \A o \in s : o \in Nat
        OBVIOUS
      <3>2. ASSUME NEW o \in below(m) PROVE o \in Nat /\ o <= m
        <4>1. o \in Nat /\ o < m
          BY <3>1, <3>2
        <4> QED
          BY <3>1, <4>1
      <3> QED
        BY <3>1, <3>2
    <2>2. \A m \in s : IsFiniteSet(below(m))
      BY <2>1, FS_BoundedSetOfNaturals
    <2> QED
      BY <1>1, <2>2 DEF FiniteSubsetsOf
  <1>3. \E x \in family : \A y \in family : ~(<<y, x>> \in StrictSubsetOrdering(s))
    <2>1. IsWellFoundedOn(StrictSubsetOrdering(s), FiniteSubsetsOf(s)) /\ family # {}
      BY <1>1, FS_StrictSubsetOrderingWellFounded
    <2> QED
      BY <1>2, <2>1, WFMin
  <1>4. PICK m \in s : \A o \in s : ~(<<below(o), below(m)>> \in StrictSubsetOrdering(s))
    BY <1>1, <1>3
  <1>5. ASSUME NEW o \in s, o < m PROVE FALSE
    <2>0. m \in Nat /\ o \in Nat /\ \A p \in s : p \in Nat
      OBVIOUS
    <2>1. below(o) \subseteq below(m) /\ o \in below(m) /\ o \notin below(o)
      <3>1. o \in below(m) /\ o \notin below(o)
        BY <1>5, <2>0
      <3>2. ASSUME NEW p \in below(o) PROVE p \in below(m)
        <4>1. p \in s /\ p \in Nat /\ p < o
          BY <2>0, <3>2
        <4>2. p < m
          BY <1>5, <2>0, <4>1
        <4> QED
          BY <4>1, <4>2
      <3> QED
        BY <3>1, <3>2
    <2>2. <<below(o), below(m)>> \in StrictSubsetOrdering(s)
      BY <2>1 DEF StrictSubsetOrdering
    <2> QED
      BY <1>4, <2>2
  <1> QED
    BY <1>5

LEMMA LatestExists ==
  ASSUME NEW n \in Nat, NEW s \in SUBSET (1..n), s # {}
  PROVE  \E m \in s : \A o \in s : o <= m
  <1>0. \A b \in s : n - b \in Nat
    OBVIOUS
  <1>1. PICK t \in SUBSET Nat : t = {n - b : b \in s}
    BY <1>0
  <1>2. t # {}
    BY <1>1
  <1>3. PICK d \in t : \A o \in t : d <= o
    BY <1>2, EarliestExists
  <1>4. PICK m \in s : d = n - m
    BY <1>1, <1>3
  <1>5. ASSUME NEW o \in s PROVE o <= m
    <2>1. n - o \in t
      BY <1>1
    <2>2. n - m <= n - o
      BY <1>3, <1>4, <2>1
    <2>3. n \in Int /\ m \in Int /\ o \in Int
      OBVIOUS
    <2> QED
      BY <2>2, <2>3
  <1> QED
    BY <1>5

(* The latest bin of a set is in it, or 0 when it is empty. *)
LEMMA LatestIs ==
  ASSUME NEW n \in Nat, NEW s \in SUBSET (1..n)
  PROVE  Latest(s) \in s \cup {0} /\ Latest(s) \in 0..n /\ \A o \in s : o <= Latest(s)
  <1>1. \E m \in s \cup {0} : \A o \in s : o <= m
    <2>1. CASE s = {}
      BY <2>1
    <2>2. CASE s # {}
      BY <2>2, LatestExists
    <2> QED
      BY <2>1, <2>2
  <1>2. Latest(s) \in s \cup {0} /\ \A o \in s : o <= Latest(s)
    BY <1>1 DEF Latest
  <1>3. s \cup {0} \subseteq 0..n
    OBVIOUS
  <1> QED
    BY <1>2, <1>3

LEMMA EarliestIs ==
  ASSUME NEW s \in SUBSET Nat, s # {}
  PROVE  Earliest(s) \in s /\ \A o \in s : Earliest(s) <= o
  BY EarliestExists DEF Earliest

LEMMA LargerIs ==
  ASSUME NEW m \in Nat, NEW n \in Nat
  PROVE  Larger(m, n) \in {m, n} /\ m <= Larger(m, n) /\ n <= Larger(m, n)
  BY DEF Larger

(***************************************************************************)
(* Tables.                                                                 *)
(***************************************************************************)

Files == [exists : BOOLEAN, columns : SUBSET Channels, rows : [Bins -> Seq(Rows)], torn : BOOLEAN]

LEMMA BinFacts ==
  /\ Bins \subseteq Nat \ {0} /\ Bins = 1..LastBin /\ LastBin \in Nat /\ Lag \in Nat /\ Lag # 0
  /\ \A b \in Bins : b <= LastBin
  BY BinsAssumption DEF Bins

LEMMA SameFile ==
  ASSUME NEW f \in Files, NEW g \in Files,
         f.exists = g.exists, f.columns = g.columns, f.rows = g.rows, f.torn = g.torn
  PROVE  f = g
  BY DEF Files

LEMMA FileFields ==
  ASSUME NEW f \in Files
  PROVE  /\ f.exists \in BOOLEAN /\ f.columns \in SUBSET Channels /\ f.torn \in BOOLEAN
         /\ f.rows \in [Bins -> Seq(Rows)]
  BY DEF Files

LEMMA FileMade ==
  ASSUME NEW e \in BOOLEAN, NEW c \in SUBSET Channels, NEW r \in [Bins -> Seq(Rows)], NEW t \in BOOLEAN
  PROVE  [exists |-> e, columns |-> c, rows |-> r, torn |-> t] \in Files
  BY Zenon DEF Files

LEMMA CountFields ==
  ASSUME NEW counts \in Counts
  PROVE  \A b \in Bins : counts[b] \in [Channels -> Nat] /\ \A c \in Channels : counts[b][c] \in Nat
  BY DEF Counts

LEMMA RowMade ==
  ASSUME NEW c \in [Channels -> Nat], NEW n \in SUBSET Nat
  PROVE  [counts |-> c, notes |-> n] \in Rows /\ [counts |-> c, notes |-> n].counts = c
  <1>1. [counts |-> c, notes |-> n] \in Rows
    BY Zenon DEF Rows
  <1> QED
    BY <1>1

(* The bins with notes are bins, and a cell names lines of the journal. *)
LEMMA NoteFacts ==
  ASSUME NEW log \in Seq(NoteRecords)
  PROVE  /\ NoteBins(log) \in SUBSET (1..LastBin)
         /\ \A b \in Bins : NoteCells(log, b) \in SUBSET Nat
  <1>1. Len(log) \in Nat /\ DOMAIN log = 1..Len(log)
    BY LenProperties
  <1>2. ASSUME NEW k \in Notes PROVE LineOf(log, k) \in Nat
    <2>1. {i \in DOMAIN log : Defines(log, k, i)} \in SUBSET (1..Len(log))
      BY <1>1
    <2> QED
      BY <1>1, <2>1, LatestIs DEF LineOf
  <1> QED
    BY <1>2 DEF NoteBins, NoteCells, LiveNotes, Bins

LEMMA FilledFacts ==
  ASSUME NEW counts
  PROVE  Filled(counts) \in SUBSET (1..LastBin)
  BY DEF Filled, Bins

(* The rows of a bin: none, or one. *)
LEMMA RowsOfIs ==
  ASSUME NEW counts \in Counts, NEW log \in Seq(NoteRecords), NEW b \in Bins
  PROVE  /\ RowsOf(counts, log, b) \in Seq(Rows)
         /\ b \in Filled(counts) \cup NoteBins(log)
            => /\ Len(RowsOf(counts, log, b)) = 1
               /\ RowsOf(counts, log, b)[1].counts = counts[b]
               /\ 1 \in DOMAIN RowsOf(counts, log, b)
         /\ b \notin Filled(counts) \cup NoteBins(log) => RowsOf(counts, log, b) = <<>>
  <1>0. counts[b] \in [Channels -> Nat] /\ NoteCells(log, b) \in SUBSET Nat
    BY CountFields, NoteFacts
  <1>1. PICK row \in Rows : row = [counts |-> counts[b], notes |-> NoteCells(log, b)] /\ row.counts = counts[b]
    BY <1>0, RowMade
  <1>2. <<row>> \in Seq(Rows) /\ Len(<<row>>) = 1 /\ <<row>>[1] = row /\ 1 \in DOMAIN <<row>>
    OBVIOUS
  <1>3. CASE b \in Filled(counts) \cup NoteBins(log)
    <2>1. RowsOf(counts, log, b) = <<row>>
      BY <1>1, <1>3 DEF RowsOf
    <2> QED
      BY <1>1, <1>2, <1>3, <2>1
  <1>4. CASE b \notin Filled(counts) \cup NoteBins(log)
    BY <1>4, EmptySeq DEF RowsOf
  <1> QED
    BY <1>3, <1>4

LEMMA TableIs ==
  ASSUME NEW counts \in Counts, NEW columns \in SUBSET Channels, NEW log \in Seq(NoteRecords), NEW t
  PROVE  /\ Table(counts, columns, log, t) \in Files
         /\ Table(counts, columns, log, t).exists = TRUE
         /\ Table(counts, columns, log, t).columns = columns
         /\ Table(counts, columns, log, t).torn = FALSE
         /\ \A b \in Bins : Table(counts, columns, log, t).rows[b]
                            = IF b <= t THEN RowsOf(counts, log, b) ELSE <<>>
  <1>1. PICK rows \in [Bins -> Seq(Rows)] :
           rows = [b \in Bins |-> IF b <= t THEN RowsOf(counts, log, b) ELSE <<>>]
    BY RowsOfIs, EmptySeq
  <1>2. Table(counts, columns, log, t) = [exists |-> TRUE, columns |-> columns, torn |-> FALSE, rows |-> rows]
    BY <1>1 DEF Table
  <1>3. Table(counts, columns, log, t) \in Files
    BY <1>2, FileMade
  <1> QED
    BY <1>1, <1>2, <1>3

LEMMA NoFileIs ==
  NoFile \in Files /\ NoFile.exists = FALSE /\ NoFile.columns = {} /\ NoFile.torn = FALSE
  /\ \A b \in Bins : NoFile.rows[b] = <<>>
  <1>1. [b \in Bins |-> <<>>] \in [Bins -> Seq(Rows)]
    BY EmptySeq
  <1> QED
    BY <1>1, FileMade DEF NoFile

(* The size of a file is of a fixed type. *)
LEMMA SizeIs ==
  ASSUME NEW f \in Files
  PROVE  /\ IsFiniteSet({p \in Bins \X (1..2) : p[2] \in DOMAIN f.rows[p[1]]})
         /\ Size(f) \in Nat \X Nat \X BOOLEAN
  <1> DEFINE cells == {p \in Bins \X (1..2) : p[2] \in DOMAIN f.rows[p[1]]}
  <1>1. IsFiniteSet(Bins) /\ IsFiniteSet(1..2)
    <2>1. 1 \in Int /\ 2 \in Int /\ LastBin \in Int /\ Bins = 1..LastBin
      BY BinFacts
    <2> QED
      BY <2>1, FS_Interval
  <1>2. IsFiniteSet(Bins \X (1..2)) /\ cells \subseteq Bins \X (1..2)
    <2>1. IsFiniteSet(Bins \X (1..2))
      BY <1>1, FS_Product, Zenon
    <2> QED
      BY <2>1
  <1>3. IsFiniteSet(cells)
    BY <1>2, FS_Subset
  <1>4. Cardinality(cells) \in Nat
    BY <1>3, FS_CardinalityType
  <1>5. f.columns \in SUBSET Channels /\ f.torn \in BOOLEAN
    BY FileFields
  <1>6. IsFiniteSet(f.columns)
    BY <1>5, ChannelsAssumption, FS_Subset
  <1>7. Cardinality(f.columns) \in Nat
    BY <1>6, FS_CardinalityType
  <1> QED
    BY <1>3, <1>4, <1>5, <1>7 DEF Size

(***************************************************************************)
(* Types.                                                                  *)
(***************************************************************************)

Steps == {"idle", "ingest", "publish", "commit", "snapshot", "done", "failed"}

Exports == [step : Steps, final : BOOLEAN, excel : BOOLEAN, through : 0..LastBin, notesSize : Nat]

Caches == [consumed : Counts, bins : Counts, signals : SUBSET Channels, dirty : 0..LastBin,
           schemaChanged : BOOLEAN, through : 0..LastBin, csvSize : Nat \X Nat \X BOOLEAN,
           notesSize : Nat]

Workbooks == [counts : Counts, notes : [Bins -> SUBSET Nat]]

Held ==
  /\ readings \in Counts /\ noteLog \in Seq(NoteRecords)
  /\ cache \in Caches /\ csv \in Files
  /\ lock \in Exporters \cup {Nobody}
  /\ export \in [Exporters -> Exports]

Kept ==
  /\ queue \in Seq({"live", "excel"})
  /\ asked \in Counts /\ xlsx \in Workbooks
  /\ attached \in BOOLEAN /\ isOpen \in BOOLEAN /\ present \in BOOLEAN /\ stopping \in BOOLEAN
  /\ status \in {"recording", "complete"}
  /\ job \in {"none", "close", "finalise", "queued", "excel"}
  /\ live \in {"none", "pending", "ok", "failed"}

Within(f, g) == \A b \in Bins, c \in Channels : f[b][c] <= g[b][c]

(* The cache has counted exactly the readings before the offset it saved, and
   its signals are those of the readings counted. *)
BinsInv ==
  /\ cache.consumed = cache.bins
  /\ cache.signals = Signals(cache.bins)
  /\ Within(cache.bins, readings)

DataInv == Held /\ BinsInv

LEMMA SameCounts ==
  ASSUME NEW f \in Counts, NEW g \in Counts, \A b \in Bins, c \in Channels : f[b][c] = g[b][c]
  PROVE  f = g
  <1>1. \A b \in Bins : f[b] = g[b]
    BY DEF Counts
  <1> QED
    BY <1>1 DEF Counts

LEMMA ExportFields ==
  ASSUME NEW x \in Exports
  PROVE  /\ x.step \in Steps /\ x.final \in BOOLEAN /\ x.excel \in BOOLEAN
         /\ x.through \in 0..LastBin /\ x.notesSize \in Nat
  BY DEF Exports

LEMMA CacheFields ==
  ASSUME NEW x \in Caches
  PROVE  /\ x.consumed \in Counts /\ x.bins \in Counts /\ x.signals \in SUBSET Channels
         /\ x.dirty \in 0..LastBin /\ x.dirty \in Nat /\ x.schemaChanged \in BOOLEAN
         /\ x.through \in 0..LastBin /\ x.through \in Nat
         /\ x.csvSize \in Nat \X Nat \X BOOLEAN /\ x.notesSize \in Nat
  <1>1. LastBin \in Nat
    BY BinFacts
  <1> QED
    BY <1>1 DEF Caches

(* An exporter that moves on keeps the rest, and the others are where they were. *)
LEMMA Moves ==
  ASSUME export \in [Exporters -> Exports], NEW e \in Exporters, NEW s \in Steps, Goto(e, s)
  PROVE  /\ export' \in [Exporters -> Exports]
         /\ export'[e].step = s
         /\ export'[e].final = export[e].final /\ export'[e].excel = export[e].excel
         /\ export'[e].through = export[e].through /\ export'[e].notesSize = export[e].notesSize
         /\ \A o \in Exporters \ {e} : export'[o] = export[o]
  BY DEF Goto, Exports

LEMMA Starts ==
  ASSUME NEW f \in BOOLEAN, NEW x \in BOOLEAN
  PROVE  /\ Begun(f, x) \in Exports /\ Idle \in Exports
         /\ Begun(f, x).step = "ingest" /\ Begun(f, x).final = f /\ Begun(f, x).excel = x
         /\ Idle.step = "idle" /\ Idle.final = FALSE /\ Idle.excel = FALSE
  <1>1. 0 \in 0..LastBin /\ 0 \in Nat
    BY BinFacts
  <1>0. "idle" \in Steps /\ "ingest" \in Steps /\ FALSE \in BOOLEAN
    BY DEF Steps
  <1>2. Idle \in Exports
    BY <1>0, <1>1, Zenon DEF Idle, Exports
  <1>3. PICK i \in Exports : i = Idle /\ i.step = "idle" /\ i.final = FALSE /\ i.excel = FALSE
    BY <1>2 DEF Idle
  <1>4. Begun(f, x) = [i EXCEPT !.step = "ingest", !.final = f, !.excel = x]
    BY <1>3 DEF Begun
  <1>5. /\ [i EXCEPT !.step = "ingest", !.final = f, !.excel = x] \in Exports
        /\ [i EXCEPT !.step = "ingest", !.final = f, !.excel = x].step = "ingest"
        /\ [i EXCEPT !.step = "ingest", !.final = f, !.excel = x].final = f
        /\ [i EXCEPT !.step = "ingest", !.final = f, !.excel = x].excel = x
    BY <1>0 DEF Exports
  <1> QED
    BY <1>3, <1>4, <1>5

(***************************************************************************)
(* What an export does.                                                    *)
(***************************************************************************)

(* A live export stops Lag bins before the latest with readings, or where the
   CSV already reaches; a final one leaves no bin out. *)
LEMMA ThroughIs ==
  ASSUME Held, NEW f \in BOOLEAN
  PROVE  /\ Through(f) \in 0..LastBin /\ Through(f) \in Nat /\ cache.through <= Through(f)
         /\ f => \A b \in Filled(cache.bins) \cup NoteBins(noteLog) : b <= Through(f)
         /\ ~f => Through(f) = cache.through \/ \E m \in Filled(cache.bins) : Through(f) + Lag = m
  <1>1. cache.through \in 0..LastBin /\ cache.through \in Nat /\ noteLog \in Seq(NoteRecords)
    BY CacheFields DEF Held
  <1>2. PICK filled \in SUBSET (1..LastBin) : filled = Filled(cache.bins)
    BY FilledFacts
  <1>3. PICK noted \in SUBSET (1..LastBin) : noted = NoteBins(noteLog)
    BY <1>1, NoteFacts
  <1>4. LastBin \in Nat /\ Lag \in Nat /\ Lag # 0
    BY BinFacts
  <1>5. PICK m \in 0..LastBin : m = Latest(filled) /\ m \in filled \cup {0} /\ \A o \in filled : o <= m
    BY <1>4, LatestIs
  <1>6. filled \cup noted \in SUBSET (1..LastBin)
    BY <1>2, <1>3
  <1>7. PICK n \in 0..LastBin : n = Latest(filled \cup noted) /\ \A o \in filled \cup noted : o <= n
    BY <1>4, <1>6, LatestIs
  <1>8. PICK reach : reach = IF f THEN n ELSE IF m > Lag THEN m - Lag ELSE 0
    OBVIOUS
  <1>9. reach \in 0..LastBin /\ reach \in Nat
    BY <1>4, <1>5, <1>7, <1>8
  <1>10. Through(f) = Larger(cache.through, reach)
    BY <1>2, <1>3, <1>5, <1>7, <1>8 DEF Through
  <1>11. Through(f) \in {cache.through, reach} /\ cache.through <= Through(f) /\ reach <= Through(f)
    BY <1>1, <1>9, <1>10, LargerIs
  <1>12. Through(f) \in 0..LastBin /\ Through(f) \in Nat
    BY <1>1, <1>9, <1>11
  <1>13. ASSUME f, NEW b \in filled \cup noted PROVE b <= Through(f)
    <2>1. reach = n /\ b <= n /\ b \in Nat
      BY <1>6, <1>7, <1>8, <1>13
    <2> QED
      BY <1>9, <1>11, <1>12, <2>1
  <1>14. ASSUME ~f PROVE Through(f) = cache.through \/ \E o \in filled : Through(f) + Lag = o
    <2>1. CASE m > Lag
      <3>1. m \in filled /\ reach = m - Lag /\ m \in Nat
        BY <1>4, <1>5, <1>8, <1>14, <2>1
      <3>2. reach + Lag = m
        BY <1>4, <3>1
      <3> QED
        BY <1>11, <3>1, <3>2
    <2>2. CASE ~(m > Lag)
      <3>1. reach = 0
        BY <1>8, <1>14, <2>2
      <3> QED
        BY <1>1, <1>11, <1>12, <3>1
    <2> QED
      BY <2>1, <2>2
  <1> QED
    BY <1>2, <1>3, <1>11, <1>12, <1>13, <1>14

LEMMA AppendedIs ==
  ASSUME Held, NEW t
  PROVE  /\ Appended(cache.bins, noteLog, cache.through, t) \in Files
         /\ Appended(cache.bins, noteLog, cache.through, t).exists = csv.exists
         /\ Appended(cache.bins, noteLog, cache.through, t).columns = csv.columns
         /\ Appended(cache.bins, noteLog, cache.through, t).torn = csv.torn
         /\ \A b \in Bins : Appended(cache.bins, noteLog, cache.through, t).rows[b]
                = IF cache.through < b /\ b <= t THEN csv.rows[b] \o RowsOf(cache.bins, noteLog, b)
                                                 ELSE csv.rows[b]
  <1>1. csv \in Files /\ csv.rows \in [Bins -> Seq(Rows)] /\ cache.bins \in Counts /\ noteLog \in Seq(NoteRecords)
    BY CacheFields, FileFields DEF Held
  <1>2. \A b \in Bins : csv.rows[b] \in Seq(Rows) /\ csv.rows[b] \o RowsOf(cache.bins, noteLog, b) \in Seq(Rows)
    BY <1>1, RowsOfIs, ConcatProperties
  <1>3. PICK rows \in [Bins -> Seq(Rows)] :
          rows = [b \in Bins |-> IF cache.through < b /\ b <= t
                                 THEN csv.rows[b] \o RowsOf(cache.bins, noteLog, b)
                                 ELSE csv.rows[b]]
    BY <1>2
  <1>4. Appended(cache.bins, noteLog, cache.through, t) = [csv EXCEPT !.rows = rows]
    BY <1>3 DEF Appended
  <1>5. /\ [csv EXCEPT !.rows = rows] \in Files /\ [csv EXCEPT !.rows = rows].rows = rows
        /\ [csv EXCEPT !.rows = rows].exists = csv.exists
        /\ [csv EXCEPT !.rows = rows].columns = csv.columns
        /\ [csv EXCEPT !.rows = rows].torn = csv.torn
    BY <1>1 DEF Files
  <1> QED
    BY <1>3, <1>4, <1>5

LEMMA DirtiedIs ==
  ASSUME NEW d \in 0..LastBin, NEW s \in SUBSET (1..LastBin)
  PROVE  /\ Dirtied(d, s) \in 0..LastBin
         /\ \A t \in Nat : ~(Dirtied(d, s) # 0 /\ Dirtied(d, s) <= t)
              => ~(d # 0 /\ d <= t) /\ \A b \in s : ~(b <= t)
  <1>0. LastBin \in Nat /\ d \in Nat
    BY BinFacts
  <1>1. CASE s = {}
    BY <1>1 DEF Dirtied
  <1>2. CASE s # {}
    <2>1. s \in SUBSET Nat
      BY <1>0
    <2>2. PICK m \in s : m = Earliest(s) /\ \A o \in s : m <= o
      BY <1>2, <2>1, EarliestIs
    <2>3. m \in 1..LastBin /\ m \in Nat /\ m # 0 /\ m \in 0..LastBin
      BY <1>0
    <2>4. Dirtied(d, s) = IF d = 0 \/ m < d THEN m ELSE d
      BY <1>2, <2>2 DEF Dirtied
    <2>5. CASE d = 0 \/ m < d
      <3>1. Dirtied(d, s) = m
        BY <2>4, <2>5
      <3>2. ASSUME NEW t \in Nat, ~(m # 0 /\ m <= t) PROVE ~(d # 0 /\ d <= t) /\ \A b \in s : ~(b <= t)
        <4>1. ~(m <= t)
          BY <2>3, <3>2
        <4>2. ~(d # 0 /\ d <= t)
          BY <1>0, <2>3, <2>5, <4>1
        <4>3. ASSUME NEW b \in s PROVE ~(b <= t)
          <5>1. m <= b /\ b \in Nat
            BY <2>1, <2>2
          <5> QED
            BY <2>3, <4>1, <5>1
        <4> QED
          BY <4>2, <4>3
      <3> QED
        BY <2>3, <3>1, <3>2
    <2>6. CASE ~(d = 0 \/ m < d)
      <3>1. Dirtied(d, s) = d /\ d # 0 /\ d <= m
        BY <1>0, <2>3, <2>4, <2>6
      <3>2. ASSUME NEW t \in Nat, ~(d # 0 /\ d <= t) PROVE \A b \in s : ~(b <= t)
        <4>1. ~(d <= t)
          BY <3>1, <3>2
        <4>2. ASSUME NEW b \in s PROVE ~(b <= t)
          <5>1. m <= b /\ b \in Nat
            BY <2>1, <2>2
          <5> QED
            BY <1>0, <2>3, <3>1, <4>1, <5>1
        <4> QED
          BY <4>2
      <3> QED
        BY <3>1, <3>2
    <2> QED
      BY <2>5, <2>6
  <1> QED
    BY <1>1, <1>2

(* The first transaction brings the cache level with the journal.  News in a
   bin the CSV has, or of a signal it has not, asks for a rebuild. *)
LEMMA IngestDoes ==
  ASSUME DataInv, NEW e \in Exporters, Ingest(e)
  PROVE  /\ cache' \in Caches
         /\ cache'.bins = readings /\ cache'.consumed = readings
         /\ cache'.signals = Signals(readings)
         /\ cache'.through = cache.through /\ cache'.csvSize = cache.csvSize
         /\ cache'.notesSize = cache.notesSize
         /\ ~cache'.schemaChanged => ~cache.schemaChanged /\ Signals(readings) = cache.signals
         /\ ~(cache'.dirty # 0 /\ cache'.dirty <= cache.through) =>
              /\ ~(cache.dirty # 0 /\ cache.dirty <= cache.through)
              /\ \A b \in Bins : b <= cache.through => readings[b] = cache.bins[b]
  <1>1. /\ cache \in Caches /\ readings \in Counts /\ cache.consumed = cache.bins
        /\ cache.signals = Signals(cache.bins) /\ cache.bins \in Counts
        /\ cache.through \in Nat /\ cache.dirty \in 0..LastBin
    BY CacheFields DEF DataInv, Held, BinsInv
  <1>2. PICK counts \in Counts : counts = cache.bins
    BY <1>1
  <1>3. \A b \in Bins, c \in Channels : counts[b][c] \in Nat /\ readings[b][c] \in Nat /\ counts[b][c] <= readings[b][c]
    BY <1>1, <1>2, CountFields DEF DataInv, BinsInv, Within
  <1>4. \A b \in Bins, c \in Channels : readings[b][c] - counts[b][c] \in Nat
    BY <1>3
  <1>5. PICK news \in Counts : news = News /\ \A b \in Bins, c \in Channels : news[b][c] = readings[b][c] - counts[b][c]
    <2>1. News = [b \in Bins |-> [c \in Channels |-> readings[b][c] - counts[b][c]]]
      BY <1>1, <1>2 DEF News
    <2>2. /\ [b \in Bins |-> [c \in Channels |-> readings[b][c] - counts[b][c]]] \in Counts
          /\ \A b \in Bins, c \in Channels :
               [p \in Bins |-> [q \in Channels |-> readings[p][q] - counts[p][q]]][b][c]
               = readings[b][c] - counts[b][c]
      BY <1>4 DEF Counts
    <2> QED
      BY <2>1, <2>2
  <1>6. Plus(counts, news) = readings
    <2>1. \A b \in Bins, c \in Channels : counts[b][c] + news[b][c] = readings[b][c]
      BY <1>3, <1>5
    <2>2. Plus(counts, news) \in Counts /\ \A b \in Bins, c \in Channels : Plus(counts, news)[b][c] = readings[b][c]
      BY <1>3, <2>1 DEF Plus, Counts
    <2> QED
      BY <1>1, <2>2, SameCounts
  <1>7. cache.signals \cup Signals(news) = Signals(readings)
    <2>1. ASSUME NEW b \in Bins, NEW c \in Channels
          PROVE  readings[b][c] > 0 <=> counts[b][c] > 0 \/ news[b][c] > 0
      BY <1>3, <1>5
    <2> QED
      BY <1>1, <1>2, <2>1 DEF Signals
  <1>8. PICK filled \in SUBSET (1..LastBin) : filled = Filled(news)
    BY FilledFacts
  <1>9. PICK dirty \in 0..LastBin : dirty = Dirtied(cache.dirty, filled)
    BY <1>1, <1>8, DirtiedIs
  <1>10. PICK changed \in BOOLEAN : changed = (cache.schemaChanged \/ ~(Signals(news) \subseteq cache.signals))
    OBVIOUS
  <1>11. PICK signals \in SUBSET Channels : signals = Signals(readings)
    BY DEF Signals
  <1>12. cache' = [cache EXCEPT !.consumed = readings, !.bins = readings, !.signals = signals,
                                !.dirty = dirty, !.schemaChanged = changed]
    <2>1. cache' = [cache EXCEPT !.consumed = readings, !.bins = Plus(cache.bins, News),
                                 !.signals = cache.signals \cup Signals(News),
                                 !.dirty = Dirtied(cache.dirty, Filled(News)),
                                 !.schemaChanged = cache.schemaChanged \/ ~(Signals(News) \subseteq cache.signals)]
      BY <1>1 DEF Ingest, Caches
    <2>2. /\ Plus(cache.bins, News) = readings
          /\ cache.signals \cup Signals(News) = signals
          /\ Dirtied(cache.dirty, Filled(News)) = dirty
          /\ (cache.schemaChanged \/ ~(Signals(News) \subseteq cache.signals)) = changed
      BY <1>2, <1>5, <1>6, <1>7, <1>8, <1>9, <1>10, <1>11, Zenon
    <2> QED
      BY <2>1, <2>2, Zenon
  <1>13. /\ cache' \in Caches
         /\ cache'.bins = readings /\ cache'.consumed = readings /\ cache'.signals = signals
         /\ cache'.through = cache.through /\ cache'.csvSize = cache.csvSize
         /\ cache'.notesSize = cache.notesSize /\ cache'.schemaChanged = changed /\ cache'.dirty = dirty
    BY <1>1, <1>12 DEF Caches
  <1>14. ~changed => ~cache.schemaChanged /\ signals = cache.signals
    BY <1>7, <1>10, <1>11
  <1>15. ASSUME ~(dirty # 0 /\ dirty <= cache.through)
         PROVE  /\ ~(cache.dirty # 0 /\ cache.dirty <= cache.through)
                /\ \A b \in Bins : b <= cache.through => readings[b] = cache.bins[b]
    <2>1. ~(cache.dirty # 0 /\ cache.dirty <= cache.through) /\ \A b \in filled : ~(b <= cache.through)
      BY <1>1, <1>8, <1>9, <1>15, DirtiedIs
    <2>2. ASSUME NEW b \in Bins, b <= cache.through PROVE readings[b] = counts[b]
      <3>1. \A c \in Channels : ~(news[b][c] > 0)
        BY <1>8, <2>1, <2>2 DEF Filled
      <3>2. \A c \in Channels : readings[b][c] = counts[b][c]
        BY <1>3, <1>5, <3>1
      <3>3. readings[b] \in [Channels -> Nat] /\ counts[b] \in [Channels -> Nat]
        BY <1>1, CountFields
      <3> QED
        BY <3>2, <3>3
    <2> QED
      BY <1>2, <2>1, <2>2
  <1> QED
    BY <1>11, <1>13, <1>14, <1>15

(* The second writes the table of the cache's bins, or adds rows to it. *)
LEMMA PublishDoes ==
  ASSUME Held, NEW e \in Exporters, Publish(e)
  PROVE  /\ csv' = IF MustRebuild
                   THEN Table(cache.bins, cache.signals, noteLog, Through(export[e].final))
                   ELSE Appended(cache.bins, noteLog, cache.through, Through(export[e].final))
         /\ csv' \in Files
         /\ export' \in [Exporters -> Exports]
         /\ export'[e].step = "commit"
         /\ export'[e].final = export[e].final /\ export'[e].excel = export[e].excel
         /\ export'[e].through = Through(export[e].final) /\ export'[e].notesSize = Len(noteLog)
         /\ \A o \in Exporters \ {e} : export'[o] = export[o]
  <1>1. PICK t : t = Through(export[e].final)
    OBVIOUS
  <1>2. cache.bins \in Counts /\ cache.signals \in SUBSET Channels /\ noteLog \in Seq(NoteRecords)
    BY CacheFields DEF Held
  <1>3. csv' = IF MustRebuild THEN Table(cache.bins, cache.signals, noteLog, t)
                              ELSE Appended(cache.bins, noteLog, cache.through, t)
    BY <1>1 DEF Publish
  <1>4. csv' \in Files
    BY <1>2, <1>3, TableIs, AppendedIs
  <1>5. export[e] \in Exports /\ export \in [Exporters -> Exports] /\ export[e].final \in BOOLEAN
    BY ExportFields DEF Held
  <1>6. t \in 0..LastBin
    BY <1>1, <1>5, ThroughIs
  <1>7. PICK n \in Nat : n = Len(noteLog)
    BY <1>2, LenProperties
  <1>8. export' = [export EXCEPT ![e].step = "commit", ![e].through = t, ![e].notesSize = n]
    BY <1>1, <1>7 DEF Publish
  <1>9. "commit" \in Steps
    BY DEF Steps
  <1>10. PICK x \in Exports : x = [export[e] EXCEPT !.step = "commit", !.through = t, !.notesSize = n]
    BY <1>5, <1>6, <1>9 DEF Exports
  <1>11. /\ x.step = "commit" /\ x.final = export[e].final /\ x.excel = export[e].excel
         /\ x.through = t /\ x.notesSize = n
    BY <1>5, <1>10 DEF Exports
  <1>12. export' = [export EXCEPT ![e] = x]
    BY <1>5, <1>8, <1>10
  <1> QED
    BY <1>1, <1>3, <1>4, <1>5, <1>7, <1>11, <1>12

(* The commit remembers what was written. *)
LEMMA CommitDoes ==
  ASSUME Held, NEW e \in Exporters, Commit(e)
  PROVE  /\ cache' \in Caches
         /\ cache'.bins = cache.bins /\ cache'.consumed = cache.consumed
         /\ cache'.signals = cache.signals /\ cache'.through = export[e].through
         /\ cache'.dirty = 0 /\ cache'.schemaChanged = FALSE
         /\ cache'.csvSize = Size(csv) /\ cache'.notesSize = export[e].notesSize
         /\ export' \in [Exporters -> Exports]
         /\ export'[e].step = (IF export[e].excel THEN "snapshot" ELSE "done")
         /\ export'[e].final = export[e].final /\ export'[e].excel = export[e].excel
         /\ \A o \in Exporters \ {e} : export'[o] = export[o]
  <1>1. /\ cache \in Caches /\ csv \in Files
        /\ export[e] \in Exports /\ export \in [Exporters -> Exports]
    BY DEF Held
  <1>2. PICK t \in 0..LastBin : t = export[e].through
    BY <1>1, ExportFields
  <1>3. PICK n \in Nat : n = export[e].notesSize
    BY <1>1, ExportFields
  <1>4. PICK size \in Nat \X Nat \X BOOLEAN : size = Size(csv)
    BY <1>1, SizeIs
  <1>5. 0 \in 0..LastBin
    BY BinFacts
  <1>6. cache' = [cache EXCEPT !.through = t, !.dirty = 0, !.schemaChanged = FALSE,
                               !.csvSize = size, !.notesSize = n]
    BY <1>2, <1>3, <1>4, Zenon DEF Commit
  <1>7. PICK s \in Steps : s = IF export[e].excel THEN "snapshot" ELSE "done"
    BY DEF Steps
  <1>8. Goto(e, s)
    BY <1>7, Zenon DEF Commit
  <1>9. /\ export' \in [Exporters -> Exports] /\ export'[e].step = s
        /\ export'[e].final = export[e].final /\ export'[e].excel = export[e].excel
        /\ \A o \in Exporters \ {e} : export'[o] = export[o]
    BY <1>1, <1>8, Moves
  <1>10. /\ cache' \in Caches
         /\ cache'.bins = cache.bins /\ cache'.consumed = cache.consumed
         /\ cache'.signals = cache.signals /\ cache'.through = t
         /\ cache'.dirty = 0 /\ cache'.schemaChanged = FALSE
         /\ cache'.csvSize = size /\ cache'.notesSize = n
    BY <1>1, <1>5, <1>6 DEF Caches
  <1> QED
    BY <1>2, <1>3, <1>4, <1>7, <1>9, <1>10

(* An append that is cut short has written the rows up to some bin. *)
LEMMA AppendFailsDoes ==
  ASSUME Held, NEW e \in Exporters, AppendFails(e)
  PROVE  \E upto \in cache.through..Through(export[e].final) :
           /\ upto \in Nat
           /\ csv' \in Files /\ csv'.exists = csv.exists /\ csv'.columns = csv.columns /\ csv'.torn = TRUE
           /\ csv'.rows = Appended(cache.bins, noteLog, cache.through, upto).rows
  <1>1. PICK upto \in cache.through..Through(export[e].final) :
          csv' = [Appended(cache.bins, noteLog, cache.through, upto) EXCEPT !.torn = TRUE]
    BY DEF AppendFails
  <1>2. export[e].final \in BOOLEAN /\ cache.through \in Nat
    BY ExportFields, CacheFields DEF Held
  <1>3. upto \in Nat
    BY <1>2, ThroughIs
  <1>4. PICK a \in Files : a = Appended(cache.bins, noteLog, cache.through, upto)
                           /\ a.exists = csv.exists /\ a.columns = csv.columns
    BY AppendedIs
  <1>5. csv' = [a EXCEPT !.torn = TRUE]
    BY <1>1, <1>4
  <1>6. csv' \in Files /\ csv'.exists = a.exists /\ csv'.columns = a.columns /\ csv'.torn = TRUE /\ csv'.rows = a.rows
    BY <1>5 DEF Files
  <1> QED
    BY <1>3, <1>4, <1>6

(***************************************************************************)
(* The data keeps to its types, and the cache to the journal.              *)
(***************************************************************************)

(* The steps that only move the threads and the recorder's state. *)
Quiet ==
  WorkerStarts \/ WorkerEnds \/ RequestQueued \/ RequestFolder \/ Stop \/ Holding \/ ProcessEnds

LEMMA QuietKeeps ==
  ASSUME Quiet
  PROVE  /\ UNCHANGED <<readings, noteLog, cache, csv, xlsx>>
         /\ status' = status \/ Closed
  BY Zenon DEF Quiet, Holding, WorkerStarts, WorkerEnds, RequestQueued, RequestFolder, RequestEnds,
               Stop, Close, Finalise, CloseFails, Closed, ProcessEnds

LEMMA ReplaceOne ==
  ASSUME export \in [Exporters -> Exports], NEW e \in Exporters, NEW x \in Exports,
         export' = [export EXCEPT ![e] = x]
  PROVE  /\ export' \in [Exporters -> Exports] /\ export'[e] = x
         /\ \A o \in Exporters \ {e} : export'[o] = export[o]
  OBVIOUS

LEMMA Threads ==
  Worker \in Exporters /\ Holder \in Exporters /\ Worker # Holder
  /\ \A e \in Exporters : e = Worker \/ e = Holder
  BY ExportersAssumption

(* Which thread a quiet step moves, and to what. *)
LEMMA QuietMoves ==
  ASSUME Held, Quiet
  PROVE  /\ export' \in [Exporters -> Exports]
         /\ lock' = lock \/ lock' = Nobody
         /\ \A e \in Exporters :
              \/ export'[e] = export[e]
              \/ export'[e] = Idle
              \/ export'[e].step = "ingest"
  <1> USE Threads
  <1>0. export \in [Exporters -> Exports] /\ Idle \in Exports
    BY Starts DEF Held
  <1>1. CASE WorkerStarts
    <2>1. PICK f \in BOOLEAN, x \in BOOLEAN : export' = [export EXCEPT ![Worker] = Begun(f, x)] /\ lock' = lock
      BY <1>1 DEF WorkerStarts
    <2>2. Begun(f, x) \in Exports /\ Begun(f, x).step = "ingest"
      BY Starts
    <2> QED
      BY <1>0, <2>1, <2>2, ReplaceOne
  <1>2. CASE RequestFolder
    <2>1. PICK f \in BOOLEAN : export' = [export EXCEPT ![Holder] = Begun(f, TRUE)] /\ lock' = lock
      BY <1>2 DEF RequestFolder
    <2>2. Begun(f, TRUE) \in Exports /\ Begun(f, TRUE).step = "ingest"
      BY Starts
    <2> QED
      BY <1>0, <2>1, <2>2, ReplaceOne
  <1>3. CASE Finalise
    <2>1. export' = [export EXCEPT ![Holder] = Begun(TRUE, TRUE)] /\ lock' = lock
      BY <1>3 DEF Finalise
    <2>2. Begun(TRUE, TRUE) \in Exports /\ Begun(TRUE, TRUE).step = "ingest"
      BY Starts
    <2> QED
      BY <1>0, <2>1, <2>2, ReplaceOne
  <1>4. CASE WorkerEnds
    <2>1. export' = [export EXCEPT ![Worker] = Idle] /\ lock' = lock
      BY <1>4 DEF WorkerEnds
    <2> QED
      BY <1>0, <2>1, ReplaceOne
  <1>5. CASE RequestEnds \/ CloseFails \/ Closed
    <2>1. export' = [export EXCEPT ![Holder] = Idle] /\ lock' = lock
      BY <1>5, Zenon DEF RequestEnds, CloseFails, Closed
    <2> QED
      BY <1>0, <2>1, ReplaceOne
  <1>6. CASE ProcessEnds
    <2>1. export' = [e \in Exporters |-> Idle] /\ lock' = Nobody
      BY <1>6 DEF ProcessEnds
    <2> QED
      BY <1>0, <2>1
  <1>7. CASE RequestQueued \/ Stop \/ Close
    <2>1. export' = export /\ lock' = lock
      BY <1>7, Zenon DEF RequestQueued, Stop, Close
    <2> QED
      BY <1>0, <2>1
  <1> QED
    BY <1>1, <1>2, <1>3, <1>4, <1>5, <1>6, <1>7, Zenon DEF Quiet, Holding

(* The steps of an export, and what they leave alone. *)
LEMMA NextIs ==
  ASSUME [Next]_vars
  PROVE  \/ \E b \in Bins, c \in Channels : Record(b, c)
         \/ \E note \in NoteRecords : Annotate(note)
         \/ \E e \in Exporters : (Ingest(e) \/ Publish(e) \/ Commit(e)) /\ UNCHANGED recorderVars
         \/ \E e \in Exporters : Snapshot(e)
         \/ \E e \in Exporters : Fail(e)
         \/ Quiet
         \/ UNCHANGED vars
  BY Zenon DEF Next, Recording, Exporting, Step, Quiet

LEMMA ReadingAdded ==
  ASSUME readings \in Counts, NEW b \in Bins, NEW c \in Channels,
         readings' = [readings EXCEPT ![b][c] = @ + 1]
  PROVE  /\ readings' \in Counts /\ Within(readings, readings')
         /\ readings'[b][c] = readings[b][c] + 1
         /\ \A p \in Bins, q \in Channels : p # b \/ q # c => readings'[p][q] = readings[p][q]
  <1>1. \A p \in Bins, q \in Channels : readings[p][q] \in Nat
    BY CountFields
  <1>2. readings' \in Counts
    BY <1>1 DEF Counts
  <1>3. readings'[b][c] = readings[b][c] + 1
        /\ \A p \in Bins, q \in Channels : p # b \/ q # c => readings'[p][q] = readings[p][q]
    BY DEF Counts
  <1>4. ASSUME NEW p \in Bins, NEW q \in Channels PROVE readings[p][q] <= readings'[p][q]
    <2>1. readings[p][q] \in Nat
      BY <1>1
    <2>2. readings'[p][q] = readings[p][q] \/ readings'[p][q] = readings[p][q] + 1
      BY <1>3
    <2> QED
      BY <2>1, <2>2
  <1> QED
    BY <1>2, <1>3, <1>4 DEF Within

LEMMA WithinTrans ==
  ASSUME NEW f \in Counts, NEW g \in Counts, NEW h \in Counts, Within(f, g), Within(g, h)
  PROVE  Within(f, h)
  <1>1. ASSUME NEW b \in Bins, NEW c \in Channels PROVE f[b][c] <= h[b][c]
    <2>1. f[b][c] \in Nat /\ g[b][c] \in Nat /\ h[b][c] \in Nat
      BY CountFields
    <2>2. f[b][c] <= g[b][c] /\ g[b][c] <= h[b][c]
      BY DEF Within
    <2> QED
      BY <2>1, <2>2
  <1> QED
    BY <1>1 DEF Within

LEMMA WithinItself ==
  ASSUME NEW f \in Counts
  PROVE  Within(f, f)
  <1>1. \A b \in Bins, c \in Channels : f[b][c] \in Nat /\ f[b][c] <= f[b][c]
    BY CountFields
  <1> QED
    BY <1>1 DEF Within

LEMMA NoneYet ==
  /\ NoReadings \in Counts
  /\ \A b \in Bins, c \in Channels : NoReadings[b][c] = 0
  /\ Filled(NoReadings) = {} /\ Signals(NoReadings) = {}
  /\ \A f \in Counts : Within(NoReadings, f)
  <1>1. NoReadings \in Counts /\ \A b \in Bins, c \in Channels : NoReadings[b][c] = 0
    BY DEF NoReadings, Counts
  <1>2. Filled(NoReadings) = {} /\ Signals(NoReadings) = {}
    BY <1>1 DEF Filled, Signals
  <1>3. ASSUME NEW f \in Counts PROVE Within(NoReadings, f)
    <2>1. \A b \in Bins, c \in Channels : f[b][c] \in Nat
      BY CountFields
    <2>2. \A b \in Bins, c \in Channels : NoReadings[b][c] <= f[b][c]
      BY <1>1, <2>1
    <2> QED
      BY <2>2 DEF Within
  <1> QED
    BY <1>1, <1>2, <1>3

LEMMA CacheMade ==
  ASSUME NEW c \in Counts, NEW b \in Counts, NEW g \in SUBSET Channels, NEW d \in 0..LastBin,
         NEW h \in BOOLEAN, NEW t \in 0..LastBin, NEW z \in Nat \X Nat \X BOOLEAN, NEW n \in Nat
  PROVE  [consumed |-> c, bins |-> b, signals |-> g, dirty |-> d, schemaChanged |-> h,
          through |-> t, csvSize |-> z, notesSize |-> n] \in Caches
  BY DEF Caches

LEMMA DataInitial ==
  ASSUME Init
  PROVE  DataInv
  <1>1. /\ readings = NoReadings /\ noteLog = <<>> /\ csv = NoFile /\ lock = Nobody
        /\ export = [e \in Exporters |-> Idle]
        /\ cache = [consumed |-> NoReadings, bins |-> NoReadings, signals |-> {},
                    dirty |-> 0, schemaChanged |-> FALSE, through |-> 0,
                    csvSize |-> Size(NoFile), notesSize |-> 0]
    BY DEF Init, ExportInit
  <1>2. noteLog \in Seq(NoteRecords)
    BY <1>1, EmptySeq
  <1>3. export \in [Exporters -> Exports]
    BY <1>1, Starts
  <1>4. /\ 0 \in 0..LastBin /\ 0 \in Nat /\ {} \in SUBSET Channels /\ FALSE \in BOOLEAN
        /\ Size(NoFile) \in Nat \X Nat \X BOOLEAN /\ NoReadings \in Counts
    <2>1. Size(NoFile) \in Nat \X Nat \X BOOLEAN
      BY SizeIs, NoFileIs, Zenon
    <2>2. 0 \in 0..LastBin /\ 0 \in Nat /\ {} \in SUBSET Channels /\ FALSE \in BOOLEAN
      BY BinFacts
    <2> QED
      BY <2>1, <2>2, NoneYet, Zenon
  <1>5. cache \in Caches
    BY <1>1, <1>4, CacheMade, Zenon
  <1>6. Held
    BY <1>1, <1>2, <1>3, <1>5, NoneYet, NoFileIs DEF Held
  <1>7. cache.consumed = NoReadings /\ cache.bins = NoReadings /\ cache.signals = {}
    BY <1>1
  <1> QED
    BY <1>1, <1>6, <1>7, NoneYet DEF DataInv, BinsInv

LEMMA DataStep ==
  ASSUME DataInv, [Next]_vars
  PROVE  DataInv'
  <1>0. /\ Held /\ BinsInv
        /\ readings \in Counts /\ noteLog \in Seq(NoteRecords) /\ cache \in Caches /\ csv \in Files
        /\ lock \in Exporters \cup {Nobody} /\ export \in [Exporters -> Exports]
        /\ cache.bins \in Counts
        /\ cache.consumed = cache.bins /\ cache.signals = Signals(cache.bins)
        /\ Within(cache.bins, readings)
    BY CacheFields DEF DataInv, Held, BinsInv
  <1>1. ASSUME UNCHANGED <<readings, cache>> PROVE BinsInv'
    BY <1>0, <1>1 DEF BinsInv
  <1>2. CASE \E b \in Bins, c \in Channels : Record(b, c)
    <2>1. PICK b \in Bins, c \in Channels : Record(b, c)
      BY <1>2
    <2>2. readings' = [readings EXCEPT ![b][c] = @ + 1] /\ UNCHANGED <<noteLog, cache, csv, lock, export>>
      BY <2>1 DEF Record
    <2>3. readings' \in Counts /\ Within(readings, readings')
      BY <1>0, <2>2, ReadingAdded
    <2>4. Held'
      BY <1>0, <2>2, <2>3 DEF Held
    <2>5. PICK bins \in Counts : bins = cache.bins /\ bins = cache'.bins
      BY <1>0, <2>2
    <2>6. Within(bins, readings')
      BY <1>0, <2>3, <2>5, WithinTrans
    <2>7. cache' = cache
      BY <2>2
    <2>8. BinsInv'
      BY <1>0, <2>5, <2>6, <2>7 DEF BinsInv
    <2> QED
      BY <2>4, <2>8 DEF DataInv
  <1>3. CASE \E note \in NoteRecords : Annotate(note)
    <2>1. PICK note \in NoteRecords : Annotate(note)
      BY <1>3
    <2>2. noteLog' = Append(noteLog, note) /\ UNCHANGED <<readings, cache, csv, lock, export>>
      BY <2>1 DEF Annotate
    <2>3. noteLog' \in Seq(NoteRecords)
      BY <1>0, <2>2, AppendProperties
    <2> QED
      BY <1>0, <1>1, <2>2, <2>3 DEF Held, DataInv
  <1>4. CASE Quiet
    <2>1. UNCHANGED <<readings, noteLog, cache, csv>>
      BY <1>4, QuietKeeps
    <2>2. export' \in [Exporters -> Exports] /\ lock' \in Exporters \cup {Nobody}
      BY <1>0, <1>4, QuietMoves
    <2> QED
      BY <1>0, <1>1, <2>1, <2>2 DEF Held, DataInv
  <1>5. CASE \E e \in Exporters : (Ingest(e) \/ Publish(e) \/ Commit(e)) /\ UNCHANGED recorderVars
    <2>1. PICK e \in Exporters : Ingest(e) \/ Publish(e) \/ Commit(e)
      BY <1>5
    <2>2. CASE Ingest(e)
      <3>1. /\ cache' \in Caches /\ cache'.bins = readings /\ cache'.consumed = readings
            /\ cache'.signals = Signals(readings)
        BY <1>0, <2>2, IngestDoes DEF DataInv
      <3>2. UNCHANGED <<readings, noteLog, csv, lock>> /\ Goto(e, "publish") /\ "publish" \in Steps
        BY <2>2 DEF Ingest, Steps
      <3>3. export' \in [Exporters -> Exports]
        BY <1>0, <3>2, Moves
      <3>4. readings' = readings /\ Within(readings, readings)
        BY <1>0, <3>2, WithinItself
      <3>5. BinsInv'
        BY <3>1, <3>4 DEF BinsInv
      <3> QED
        BY <1>0, <3>1, <3>2, <3>3, <3>5 DEF Held, DataInv
    <2>3. CASE Publish(e)
      <3>1. UNCHANGED <<readings, noteLog, cache>> /\ lock' = e
        BY <2>3 DEF Publish
      <3> QED
        BY <1>0, <1>1, <2>3, <3>1, PublishDoes DEF Held, DataInv
    <2>4. CASE Commit(e)
      <3>1. UNCHANGED <<readings, noteLog, csv>> /\ lock' = Nobody
        BY <2>4 DEF Commit
      <3>2. /\ cache' \in Caches /\ export' \in [Exporters -> Exports]
            /\ cache'.bins = cache.bins /\ cache'.consumed = cache.consumed /\ cache'.signals = cache.signals
        BY <1>0, <2>4, CommitDoes
      <3>3. BinsInv'
        BY <1>0, <3>1, <3>2 DEF BinsInv
      <3> QED
        BY <1>0, <3>1, <3>2, <3>3 DEF Held, DataInv
    <2> QED
      BY <2>1, <2>2, <2>3, <2>4
  <1>6. CASE \E e \in Exporters : Snapshot(e)
    <2>1. PICK e \in Exporters : Snapshot(e)
      BY <1>6
    <2>2. UNCHANGED <<readings, noteLog, cache, csv, lock>> /\ Goto(e, "done") /\ "done" \in Steps
      BY <2>1 DEF Snapshot, Steps
    <2>3. export' \in [Exporters -> Exports]
      BY <1>0, <2>2, Moves
    <2> QED
      BY <1>0, <1>1, <2>2, <2>3 DEF Held, DataInv
  <1>7. CASE \E e \in Exporters : Fail(e)
    <2>1. PICK e \in Exporters : AppendFails(e) \/ ExportFails(e)
      BY <1>7 DEF Fail
    <2>2. UNCHANGED <<readings, noteLog, cache>> /\ Goto(e, "failed") /\ "failed" \in Steps
      BY <2>1 DEF AppendFails, ExportFails, Steps
    <2>3. export' \in [Exporters -> Exports]
      BY <1>0, <2>2, Moves
    <2>4. CASE AppendFails(e)
      <3>1. lock' = lock
        BY <2>4 DEF AppendFails
      <3>2. csv' \in Files
        BY <1>0, <2>4, AppendFailsDoes
      <3> QED
        BY <1>0, <1>1, <2>2, <2>3, <3>1, <3>2 DEF Held, DataInv
    <2>5. CASE ExportFails(e)
      <3>1. csv' = csv /\ lock' \in {lock, Nobody}
        BY <2>5 DEF ExportFails
      <3> QED
        BY <1>0, <1>1, <2>2, <2>3, <3>1 DEF Held, DataInv
    <2> QED
      BY <2>1, <2>4, <2>5
  <1>8. CASE UNCHANGED vars
    BY <1>0, <1>1, <1>8 DEF vars, Held, DataInv
  <1> QED
    BY <1>2, <1>3, <1>4, <1>5, <1>6, <1>7, <1>8, NextIs

(***************************************************************************)
(* The worker's tasks and the export lock.                                 *)
(***************************************************************************)

Distinct == \A i, j \in DOMAIN queue : queue[i] = queue[j] => i = j

Waiting(task) == \E i \in DOMAIN queue : queue[i] = task

Working(task) == export[Worker].step # "idle" /\ export[Worker].excel = (task = "excel")

(* One live export at a time, and one workbook: a workbook being asked for
   holds the export lock until the worker or the holder is through with it. *)
TaskInv ==
  /\ Distinct
  /\ \A task \in {"live", "excel"} : ~(Waiting(task) /\ Working(task))
  /\ Waiting("live") \/ Working("live") => live = "pending"
  /\ Waiting("excel") \/ Working("excel") => job = "queued"
  /\ export[Holder].step # "idle" <=> job \in {"excel", "finalise"}
  /\ export[Holder].step # "idle" => export[Holder].excel
  /\ \A e \in Exporters : export[e].step = "idle" => ~export[e].excel
  /\ \A e \in Exporters : export[e].step = "snapshot" => export[e].excel

LEMMA PutOn ==
  ASSUME NEW S, queue \in Seq(S), NEW task \in S, Distinct, ~Waiting(task),
         queue' = Append(queue, task)
  PROVE  /\ queue' \in Seq(S) /\ Distinct' /\ queue' # <<>>
         /\ \A t : Waiting(t)' <=> Waiting(t) \/ t = task
  <1>1. /\ queue' \in Seq(S) /\ Len(queue') = Len(queue) + 1 /\ Len(queue) \in Nat
        /\ \A i \in 1..Len(queue) : queue'[i] = queue[i]
        /\ queue'[Len(queue) + 1] = task
    BY AppendProperties, LenProperties
  <1>2. DOMAIN queue = 1..Len(queue) /\ DOMAIN queue' = 1..(Len(queue) + 1)
    BY <1>1, LenProperties
  <1>3. Distinct'
    BY <1>1, <1>2 DEF Distinct, Waiting
  <1>4. ASSUME NEW t PROVE Waiting(t)' <=> Waiting(t) \/ t = task
    BY <1>1, <1>2 DEF Waiting
  <1> QED
    BY <1>1, <1>2, <1>3, <1>4, EmptySeq

LEMMA TakenOff ==
  ASSUME NEW S, queue \in Seq(S), queue # <<>>, Distinct, queue' = Tail(queue)
  PROVE  /\ queue' \in Seq(S) /\ Distinct' /\ Head(queue) \in S /\ Waiting(Head(queue))
         /\ \A t : Waiting(t)' <=> Waiting(t) /\ t # Head(queue)
  <1>1. /\ queue' \in Seq(S) /\ Len(queue') = Len(queue) - 1 /\ Len(queue) \in Nat /\ Len(queue) # 0
        /\ \A i \in 1..Len(queue') : queue'[i] = queue[i + 1]
        /\ Head(queue) = queue[1] /\ Head(queue) \in S
    BY HeadTailProperties, LenProperties, EmptySeq
  <1>2. DOMAIN queue = 1..Len(queue) /\ DOMAIN queue' = 1..(Len(queue) - 1)
    BY <1>1, LenProperties
  <1>3. Distinct'
    BY <1>1, <1>2 DEF Distinct
  <1>4. Waiting(Head(queue))
    BY <1>1, <1>2 DEF Waiting
  <1>5. ASSUME NEW t PROVE Waiting(t)' => Waiting(t) /\ t # Head(queue)
    BY <1>1, <1>2 DEF Waiting, Distinct
  <1>6. ASSUME NEW t, Waiting(t), t # Head(queue) PROVE Waiting(t)'
    <2>1. PICK i \in 1..Len(queue) : queue[i] = t /\ i # 1
      BY <1>1, <1>2, <1>6 DEF Waiting
    <2>2. i - 1 \in 1..Len(queue') /\ queue'[i - 1] = queue[(i - 1) + 1] /\ (i - 1) + 1 = i
      BY <1>1, <2>1
    <2> QED
      BY <1>1, <1>2, <2>1, <2>2 DEF Waiting
  <1> QED
    BY <1>1, <1>3, <1>4, <1>5, <1>6

(* A step of an export. *)
Works(e) == Ingest(e) \/ Publish(e) \/ Commit(e) \/ Snapshot(e) \/ AppendFails(e) \/ ExportFails(e)

LEMMA WorksDoes ==
  ASSUME Held, NEW e \in Exporters, Works(e)
  PROVE  /\ export[e].step \in {"ingest", "publish", "commit", "snapshot"}
         /\ export'[e].step \in {"publish", "commit", "snapshot", "done", "failed"}
         /\ export'[e].step = "snapshot" => export[e].excel
         /\ export'[e].final = export[e].final /\ export'[e].excel = export[e].excel
         /\ \A o \in Exporters \ {e} : export'[o] = export[o]
  <1>0. export \in [Exporters -> Exports]
    BY DEF Held
  <1>1. ASSUME NEW s \in Steps, Goto(e, s)
        PROVE  /\ export'[e].step = s /\ export'[e].final = export[e].final
               /\ export'[e].excel = export[e].excel
               /\ \A o \in Exporters \ {e} : export'[o] = export[o]
    BY <1>0, <1>1, Moves
  <1>2. "publish" \in Steps /\ "done" \in Steps /\ "failed" \in Steps
    BY DEF Steps
  <1>3. CASE Ingest(e)
    <2>1. Goto(e, "publish") /\ export[e].step = "ingest"
      BY <1>3 DEF Ingest, At
    <2> QED
      BY <1>1, <1>2, <2>1
  <1>4. CASE Publish(e)
    <2>1. export[e].step = "publish"
      BY <1>4 DEF Publish, At
    <2> QED
      BY <1>4, <2>1, PublishDoes
  <1>5. CASE Commit(e)
    <2>1. export[e].step = "commit" /\ export[e].excel \in BOOLEAN
      BY <1>0, <1>5, ExportFields DEF Commit, At
    <2> QED
      BY <1>5, <2>1, CommitDoes
  <1>6. CASE Snapshot(e)
    <2>1. Goto(e, "done") /\ export[e].step = "snapshot"
      BY <1>6 DEF Snapshot, At
    <2> QED
      BY <1>1, <1>2, <2>1
  <1>7. CASE AppendFails(e) \/ ExportFails(e)
    <2>1. Goto(e, "failed") /\ export[e].step \in {"ingest", "publish", "commit", "snapshot"}
      BY <1>7 DEF AppendFails, ExportFails, At
    <2> QED
      BY <1>1, <1>2, <2>1
  <1> QED
    BY <1>3, <1>4, <1>5, <1>6, <1>7 DEF Works

LEMMA WorksKeeps ==
  ASSUME NEW e \in Exporters,
         \/ (Ingest(e) \/ Publish(e) \/ Commit(e)) /\ UNCHANGED recorderVars
         \/ Snapshot(e)
         \/ Fail(e)
  PROVE  /\ Works(e)
         /\ UNCHANGED <<readings, noteLog, attached, isOpen, present, stopping, status, job, queue,
                        live, asked>>
         /\ UNCHANGED xlsx \/ Snapshot(e)
  BY Zenon DEF Works, Fail, recorderVars, Ingest, Publish, Commit, Snapshot, AppendFails, ExportFails

(* Every step is one of these. *)
LEMMA Cases ==
  ASSUME [Next]_vars
  PROVE  \/ \E b \in Bins, c \in Channels : Record(b, c)
         \/ \E note \in NoteRecords : Annotate(note)
         \/ \E e \in Exporters :
              /\ Works(e)
              /\ UNCHANGED <<readings, noteLog, attached, isOpen, present, stopping, status, job,
                             queue, live, asked>>
              /\ UNCHANGED xlsx \/ Snapshot(e)
         \/ Quiet
         \/ UNCHANGED vars
  BY NextIs, WorksKeeps, Zenon

Locked == export[Holder].step # "idle"

Recorder == DataInv /\ Kept /\ TaskInv

LEMMA RecorderInitial ==
  ASSUME Init
  PROVE  Recorder
  <1>1. DataInv
    BY DataInitial
  <1>2. /\ queue = <<>> /\ asked = NoReadings /\ job = "none" /\ live = "none" /\ status = "recording"
        /\ attached = TRUE /\ isOpen = TRUE /\ present = TRUE /\ stopping = FALSE
        /\ xlsx = [counts |-> NoReadings, notes |-> [b \in Bins |-> {}]]
        /\ export = [e \in Exporters |-> Idle]
    BY DEF Init, ExportInit, Nothing
  <1>3. xlsx \in Workbooks
    BY <1>2, NoneYet DEF Workbooks
  <1>4. queue \in Seq({"live", "excel"}) /\ DOMAIN queue = {}
    BY <1>2, EmptySeq
  <1>5. Kept
    BY <1>2, <1>3, <1>4, NoneYet DEF Kept
  <1>6. \A e \in Exporters : export[e].step = "idle" /\ export[e].excel = FALSE
    BY <1>2, Starts
  <1>7. TaskInv
    BY <1>2, <1>4, <1>6, Threads DEF TaskInv, Distinct, Waiting, Working
  <1> QED
    BY <1>1, <1>5, <1>7 DEF Recorder

LEMMA KeptStep ==
  ASSUME DataInv, Kept, TaskInv, [Next]_vars
  PROVE  Kept'
  <1>0. /\ Held /\ readings \in Counts /\ cache.bins \in Counts /\ noteLog \in Seq(NoteRecords)
        /\ NoReadings \in Counts
    BY CacheFields, NoneYet DEF DataInv, Held
  <1>1. ASSUME \/ UNCHANGED <<queue, live>>
               \/ live # "pending" /\ live' = "pending" /\ queue' = Append(queue, "live")
        PROVE  queue' \in Seq({"live", "excel"}) /\ live' \in {"none", "pending", "ok", "failed"}
    BY <1>1, AppendProperties DEF Kept
  <1>2. CASE \E b \in Bins, c \in Channels : Record(b, c)
    <2>1. RefreshIfDue /\ UNCHANGED <<attached, isOpen, present, stopping, status, job, xlsx, asked>>
      BY <1>2 DEF Record
    <2> QED
      BY <1>1, <2>1 DEF Kept, RefreshIfDue
  <1>3. CASE \E note \in NoteRecords : Annotate(note)
    <2>1. RefreshIfDue /\ UNCHANGED <<attached, isOpen, present, stopping, status, job, xlsx, asked>>
      BY <1>3 DEF Annotate
    <2> QED
      BY <1>1, <2>1 DEF Kept, RefreshIfDue
  <1>4. ASSUME NEW e \in Exporters,
               UNCHANGED <<readings, noteLog, attached, isOpen, present, stopping, status, job, queue, live, asked>>,
               UNCHANGED xlsx \/ Snapshot(e)
        PROVE  Kept'
    <2>1. xlsx' \in Workbooks
      <3>1. CASE UNCHANGED xlsx
        BY <3>1 DEF Kept
      <3>2. CASE Snapshot(e)
        <4>1. [b \in Bins |-> NoteCells(noteLog, b)] \in [Bins -> SUBSET Nat]
          BY <1>0, NoteFacts
        <4>2. xlsx' = [counts |-> cache.bins, notes |-> [b \in Bins |-> NoteCells(noteLog, b)]]
          BY <3>2 DEF Snapshot
        <4> QED
          BY <1>0, <4>1, <4>2 DEF Workbooks
      <3> QED
        BY <1>4, <3>1, <3>2
    <2> QED
      BY <1>4, <2>1 DEF Kept
  <1>5. CASE Quiet
    <2>1. UNCHANGED xlsx
      BY <1>5, QuietKeeps
    <2>2. queue' \in Seq({"live", "excel"})
      <3>1. CASE WorkerStarts
        <4>1. queue # <<>> /\ queue' = Tail(queue) /\ queue \in Seq({"live", "excel"})
          BY <3>1 DEF WorkerStarts, Kept
        <4> QED
          BY <4>1, HeadTailProperties
      <3>2. CASE RequestQueued
        BY <3>2, AppendProperties DEF RequestQueued, Kept
      <3>3. CASE ProcessEnds
        BY <3>3, EmptySeq DEF ProcessEnds
      <3>4. CASE WorkerEnds \/ RequestFolder \/ Stop \/ Holding
        BY <3>4, Zenon DEF WorkerEnds, RequestFolder, Stop, Holding, RequestEnds, Close, Finalise,
                           CloseFails, Closed, Kept
      <3> QED
        BY <1>5, <3>1, <3>2, <3>3, <3>4, Zenon DEF Quiet
    <2>3. /\ asked' \in {asked, readings, NoReadings}
          /\ job' \in {job, "none", "close", "finalise", "queued", "excel"}
          /\ live' \in {live, "none", "ok", "failed"}
          /\ status' \in {status, "complete"}
          /\ attached' \in {attached, FALSE} /\ isOpen' \in {isOpen, FALSE}
          /\ present' \in {present, FALSE} /\ stopping' \in {stopping, TRUE, FALSE}
      <3>1. CASE WorkerStarts \/ WorkerEnds \/ RequestQueued \/ RequestFolder
        BY <3>1 DEF WorkerStarts, WorkerEnds, RequestQueued, RequestFolder
      <3>2. CASE Stop \/ ProcessEnds \/ RequestEnds \/ Close
        BY <3>2 DEF Stop, RequestEnds, Close, ProcessEnds
      <3>3. CASE Finalise \/ CloseFails \/ Closed
        BY <3>3 DEF Finalise, CloseFails, Closed
      <3> QED
        BY <1>5, <3>1, <3>2, <3>3, Zenon DEF Quiet, Holding
    <2>4. asked' \in Counts /\ xlsx' \in Workbooks
      BY <1>0, <2>1, <2>3 DEF Kept
    <2>5. /\ attached' \in BOOLEAN /\ isOpen' \in BOOLEAN /\ present' \in BOOLEAN /\ stopping' \in BOOLEAN
          /\ status' \in {"recording", "complete"}
          /\ job' \in {"none", "close", "finalise", "queued", "excel"}
      BY <2>3 DEF Kept
    <2>6. live' \in {"none", "pending", "ok", "failed"}
      BY <2>3 DEF Kept
    <2> QED
      BY <2>2, <2>4, <2>5, <2>6, Zenon DEF Kept
  <1>6. CASE UNCHANGED vars
    BY <1>6 DEF vars, Kept
  <1> QED
    BY <1>2, <1>3, <1>4, <1>5, <1>6, Cases, Zenon

LEMMA TaskStep ==
  ASSUME DataInv, Kept, TaskInv, [Next]_vars
  PROVE  TaskInv'
  <1> USE Threads
  <1>0. /\ queue \in Seq({"live", "excel"}) /\ export \in [Exporters -> Exports] /\ Held
        /\ \A e \in Exporters : export[e].excel \in BOOLEAN
    BY ExportFields DEF Kept, DataInv, Held
  <1>1. ASSUME RefreshIfDue, UNCHANGED <<export, job>>
        PROVE  TaskInv'
    <2>1. CASE UNCHANGED <<queue, live>>
      BY <1>1, <2>1 DEF TaskInv, Distinct, Waiting, Working
    <2>2. CASE live # "pending" /\ live' = "pending" /\ queue' = Append(queue, "live")
      <3>1. ~Waiting("live") /\ ~Working("live") /\ Distinct
        BY <2>2 DEF TaskInv
      <3>2. Distinct' /\ \A t : Waiting(t)' <=> Waiting(t) \/ t = "live"
        BY <1>0, <2>2, <3>1, PutOn
      <3>3. \A t : Working(t)' <=> Working(t)
        BY <1>1 DEF Working
      <3>4. "live" # "excel"
        OBVIOUS
      <3>5. \A task \in {"live", "excel"} : ~(Waiting(task)' /\ Working(task)')
        BY <3>1, <3>2, <3>3 DEF TaskInv
      <3>6. Waiting("excel")' \/ Working("excel")' => job' = "queued"
        BY <1>1, <3>2, <3>3, <3>4 DEF TaskInv
      <3> QED
        BY <1>1, <2>2, <3>2, <3>5, <3>6 DEF TaskInv
    <2> QED
      BY <1>1, <2>1, <2>2 DEF RefreshIfDue
  <1>2. CASE \E b \in Bins, c \in Channels : Record(b, c)
    BY <1>1, <1>2 DEF Record
  <1>3. CASE \E note \in NoteRecords : Annotate(note)
    BY <1>1, <1>3 DEF Annotate
  <1>4. ASSUME NEW e \in Exporters, Works(e), UNCHANGED <<queue, live, job>>
        PROVE  TaskInv'
    <2>1. /\ export[e].step \in {"ingest", "publish", "commit", "snapshot"}
          /\ export'[e].step \in {"publish", "commit", "snapshot", "done", "failed"}
          /\ export'[e].step = "snapshot" => export[e].excel
          /\ export'[e].excel = export[e].excel
          /\ \A o \in Exporters \ {e} : export'[o] = export[o]
      BY <1>0, <1>4, WorksDoes
    <2>2. \A o \in Exporters : (export'[o].step = "idle" <=> export[o].step = "idle") /\ export'[o].excel = export[o].excel
      BY <2>1
    <2>3. \A o \in Exporters : export'[o].step = "snapshot" => export'[o].excel
      BY <2>1 DEF TaskInv
    <2>4. \A t : (Waiting(t)' <=> Waiting(t)) /\ (Working(t)' <=> Working(t))
      BY <1>4, <2>2 DEF Waiting, Working
    <2>5. Distinct'
      BY <1>4 DEF TaskInv, Distinct
    <2> QED
      BY <1>4, <2>2, <2>3, <2>4, <2>5 DEF TaskInv
  <1>5. CASE WorkerStarts
    <2>1. /\ export[Worker].step = "idle" /\ queue # <<>> /\ queue' = Tail(queue) /\ UNCHANGED <<job, live>>
          /\ export' = [export EXCEPT ![Worker] =
                          Begun(Head(queue) = "excel" /\ status # "recording", Head(queue) = "excel")]
      BY <1>5 DEF WorkerStarts, At
    <2>2. PICK task \in {"live", "excel"} : task = Head(queue)
      BY <1>0, <2>1, TakenOff DEF TaskInv
    <2>3. Distinct' /\ Waiting(task) /\ \A t : Waiting(t)' <=> Waiting(t) /\ t # task
      BY <1>0, <2>1, <2>2, TakenOff DEF TaskInv
    <2>4. PICK f \in BOOLEAN, x \in BOOLEAN : x = (task = "excel") /\ export' = [export EXCEPT ![Worker] = Begun(f, x)]
      BY <2>1, <2>2
    <2>5. Begun(f, x) \in Exports /\ Begun(f, x).step = "ingest" /\ Begun(f, x).excel = x
      BY Starts
    <2>6. export'[Worker].step = "ingest" /\ export'[Worker].excel = (task = "excel") /\ export'[Holder] = export[Holder]
      BY <1>0, <2>4, <2>5, ReplaceOne
    <2>7. \A t \in {"live", "excel"} : Working(t)' <=> t = task
      BY <2>6 DEF Working
    <2>8. \A t \in {"live", "excel"} : ~(Waiting(t)' /\ Working(t)')
      BY <2>3, <2>7
    <2>9. /\ Waiting("live")' \/ Working("live")' => live' = "pending"
          /\ Waiting("excel")' \/ Working("excel")' => job' = "queued"
      BY <2>1, <2>3, <2>7 DEF TaskInv
    <2>10. \A e \in Exporters : /\ export'[e].step = "idle" => ~export'[e].excel
                                /\ export'[e].step = "snapshot" => export'[e].excel
      BY <2>6 DEF TaskInv
    <2> QED
      BY <2>1, <2>3, <2>6, <2>8, <2>9, <2>10 DEF TaskInv
  <1>6. CASE WorkerEnds
    <2>1. /\ export[Worker].step \in {"done", "failed"} /\ UNCHANGED queue
          /\ IF export[Worker].excel THEN job' = "none" /\ live' = live ELSE job' = job
          /\ export' = [export EXCEPT ![Worker] = Idle]
      BY <1>6 DEF WorkerEnds
    <2>2. export'[Worker].step = "idle" /\ export'[Worker].excel = FALSE /\ export'[Holder] = export[Holder]
      BY <1>0, <2>1, Starts, ReplaceOne
    <2>3. \A t : ~Working(t)' /\ (Waiting(t)' <=> Waiting(t))
      BY <2>1, <2>2 DEF Working, Waiting
    <2>4. Distinct'
      BY <2>1 DEF TaskInv, Distinct
    <2>5. \A e \in Exporters : /\ export'[e].step = "idle" => ~export'[e].excel
                               /\ export'[e].step = "snapshot" => export'[e].excel
      BY <2>2 DEF TaskInv
    <2>6. CASE export[Worker].excel
      <3>1. Working("excel") /\ job' = "none" /\ live' = live
        BY <2>1, <2>6 DEF Working
      <3>2. ~Waiting("excel") /\ job = "queued" /\ export[Holder].step = "idle"
        BY <3>1 DEF TaskInv
      <3>3. /\ Waiting("live")' \/ Working("live")' => live' = "pending"
            /\ Waiting("excel")' \/ Working("excel")' => job' = "queued"
        BY <2>3, <3>1, <3>2 DEF TaskInv
      <3> QED
        BY <2>2, <2>3, <2>4, <2>5, <3>1, <3>2, <3>3 DEF TaskInv
    <2>7. CASE ~export[Worker].excel
      <3>1. Working("live") /\ job' = job
        <4>1. export[Worker].excel = FALSE /\ "live" # "excel"
          BY <1>0, <2>7
        <4> QED
          BY <2>1, <4>1 DEF Working
      <3>2. ~Waiting("live")
        BY <3>1 DEF TaskInv
      <3>3. /\ Waiting("live")' \/ Working("live")' => live' = "pending"
            /\ Waiting("excel")' \/ Working("excel")' => job' = "queued"
        BY <2>3, <3>1, <3>2 DEF TaskInv
      <3> QED
        BY <2>2, <2>3, <2>4, <2>5, <3>1, <3>3 DEF TaskInv
    <2> QED
      BY <2>6, <2>7
  <1>7. CASE RequestQueued
    <2>1. job = "none" /\ job' = "queued" /\ queue' = Append(queue, "excel") /\ UNCHANGED <<export, live>>
      BY <1>7 DEF RequestQueued
    <2>2. ~Waiting("excel") /\ ~Working("excel") /\ Distinct
      BY <2>1 DEF TaskInv
    <2>3. Distinct' /\ \A t : Waiting(t)' <=> Waiting(t) \/ t = "excel"
      BY <1>0, <2>1, <2>2, PutOn
    <2>4. \A t : Working(t)' <=> Working(t)
      BY <2>1 DEF Working
    <2>5. \A task \in {"live", "excel"} : ~(Waiting(task)' /\ Working(task)')
      BY <2>2, <2>3, <2>4 DEF TaskInv
    <2>6. Waiting("live")' \/ Working("live")' => live' = "pending"
      BY <2>1, <2>3, <2>4 DEF TaskInv
    <2> QED
      BY <2>1, <2>3, <2>5, <2>6 DEF TaskInv
  <1>8. ASSUME UNCHANGED <<queue, live>>, NEW x \in Exports, export' = [export EXCEPT ![Holder] = x],
               job # "queued", job' # "queued",
               x.step # "idle" <=> job' \in {"excel", "finalise"}, x.step # "idle" => x.excel,
               x.step = "idle" => ~x.excel
        PROVE  TaskInv'
    <2>1. export'[Worker] = export[Worker] /\ export'[Holder] = x
      BY <1>0, <1>8, ReplaceOne
    <2>2. \A t : (Waiting(t)' <=> Waiting(t)) /\ (Working(t)' <=> Working(t))
      BY <1>8, <2>1 DEF Waiting, Working
    <2>3. Distinct'
      BY <1>8 DEF TaskInv, Distinct
    <2>4. \A e \in Exporters : /\ export'[e].step = "idle" => ~export'[e].excel
                               /\ export'[e].step = "snapshot" => export'[e].excel
      BY <1>8, <2>1 DEF TaskInv
    <2>5. ~Waiting("excel") /\ ~Working("excel")
      BY <1>8 DEF TaskInv
    <2>6. /\ Waiting("live")' \/ Working("live")' => live' = "pending"
          /\ Waiting("excel")' \/ Working("excel")' => job' = "queued"
          /\ \A task \in {"live", "excel"} : ~(Waiting(task)' /\ Working(task)')
      BY <1>8, <2>2, <2>5 DEF TaskInv
    <2> QED
      BY <1>8, <2>1, <2>3, <2>4, <2>6 DEF TaskInv
  <1>9. CASE RequestFolder
    <2>1. PICK f \in BOOLEAN : /\ job = "none" /\ job' = "excel" /\ UNCHANGED <<queue, live>>
                               /\ export' = [export EXCEPT ![Holder] = Begun(f, TRUE)]
      BY <1>9 DEF RequestFolder
    <2> QED
      BY <1>8, <2>1, Starts
  <1>10. CASE Finalise
    <2>1. /\ job = "close" /\ job' = "finalise" /\ UNCHANGED <<queue, live>>
          /\ export' = [export EXCEPT ![Holder] = Begun(TRUE, TRUE)]
      BY <1>10 DEF Finalise
    <2> QED
      BY <1>8, <2>1, Starts
  <1>11. CASE RequestEnds \/ CloseFails \/ Closed
    <2>1. /\ job \in {"excel", "close", "finalise"} /\ job' = "none" /\ UNCHANGED <<queue, live>>
          /\ export' = [export EXCEPT ![Holder] = Idle]
      BY <1>11 DEF RequestEnds, CloseFails, Closed
    <2>2. Idle \in Exports /\ Idle.step = "idle" /\ Idle.excel = FALSE
      BY Starts
    <2> QED
      BY <1>8, <2>1, <2>2
  <1>12. CASE Stop \/ Close
    <2>1. UNCHANGED <<queue, live, export>> /\ (job' = job \/ (job = "none" /\ job' = "close"))
      BY <1>12, Zenon DEF Stop, Close
    <2>2. \A t : (Waiting(t)' <=> Waiting(t)) /\ (Working(t)' <=> Working(t))
      BY <2>1 DEF Waiting, Working
    <2>3. Distinct'
      BY <2>1 DEF TaskInv, Distinct
    <2> QED
      BY <2>1, <2>2, <2>3 DEF TaskInv
  <1>13. CASE ProcessEnds
    <2>1. queue' = <<>> /\ job' = "none" /\ export' = [e \in Exporters |-> Idle]
      BY <1>13 DEF ProcessEnds
    <2>2. DOMAIN queue' = {}
      BY <2>1, EmptySeq
    <2>3. \A e \in Exporters : export'[e].step = "idle" /\ export'[e].excel = FALSE
      BY <2>1, Starts
    <2>4. Distinct' /\ \A t : ~Waiting(t)' /\ ~Working(t)'
      BY <2>2, <2>3 DEF Distinct, Waiting, Working
    <2> QED
      BY <2>1, <2>3, <2>4 DEF TaskInv
  <1>14. CASE UNCHANGED vars
    BY <1>14 DEF vars, TaskInv, Distinct, Waiting, Working
  <1>15. CASE Quiet
    BY <1>5, <1>6, <1>7, <1>9, <1>10, <1>11, <1>12, <1>13, <1>15, Zenon DEF Quiet, Holding
  <1> QED
    BY <1>2, <1>3, <1>4, <1>14, <1>15, Cases, Zenon

LEMMA RecorderStep ==
  ASSUME Recorder, [Next]_vars
  PROVE  Recorder'
  BY DataStep, KeptStep, TaskStep DEF Recorder

(***************************************************************************)
(* What a workbook holds.                                                  *)
(***************************************************************************)

(* What was asked for is in the journal; once the workbook's export has taken
   the journal in it is in the cache, and in the end in the workbook. *)
AskInv ==
  /\ Within(asked, readings)
  /\ Within(xlsx.counts, readings)
  /\ \A e \in Exporters : export[e].excel =>
       /\ export[e].step \in {"publish", "commit", "snapshot", "done"} => Within(asked, cache.bins)
       /\ export[e].step = "done" => Within(asked, xlsx.counts)

LEMMA AskInitial ==
  ASSUME Init
  PROVE  AskInv
  <1>1. /\ asked = NoReadings /\ readings = NoReadings
        /\ xlsx = [counts |-> NoReadings, notes |-> [b \in Bins |-> {}]]
        /\ export = [e \in Exporters |-> Idle]
    BY DEF Init, ExportInit, Nothing
  <1>2. xlsx.counts = NoReadings /\ \A e \in Exporters : export[e].excel = FALSE
    BY <1>1, Starts
  <1> QED
    BY <1>1, <1>2, NoneYet DEF AskInv

LEMMA AskStep ==
  ASSUME Recorder, AskInv, [Next]_vars
  PROVE  AskInv'
  <1> USE Threads
  <1>0. /\ Held /\ DataInv /\ readings \in Counts /\ cache.bins \in Counts /\ asked \in Counts
        /\ xlsx.counts \in Counts /\ Within(cache.bins, readings)
        /\ export \in [Exporters -> Exports] /\ \A e \in Exporters : export[e].excel \in BOOLEAN
    BY CacheFields, ExportFields DEF Recorder, DataInv, Held, Kept, Workbooks, BinsInv
  <1>1. CASE \E b \in Bins, c \in Channels : Record(b, c)
    <2>1. PICK b \in Bins, c \in Channels : Record(b, c)
      BY <1>1
    <2>2. readings' = [readings EXCEPT ![b][c] = @ + 1] /\ UNCHANGED <<cache, export, xlsx, asked>>
      BY <2>1 DEF Record
    <2>3. readings' \in Counts /\ Within(readings, readings')
      BY <1>0, <2>2, ReadingAdded
    <2>4. Within(asked, readings') /\ Within(xlsx.counts, readings')
      BY <1>0, <2>3, WithinTrans DEF AskInv
    <2>5. Within(asked', readings') /\ Within(xlsx'.counts, readings')
      BY <2>2, <2>4
    <2> QED
      BY <2>2, <2>5 DEF AskInv
  <1>2. CASE \E note \in NoteRecords : Annotate(note)
    <2>1. UNCHANGED <<readings, cache, export, xlsx, asked>>
      BY <1>2 DEF Annotate
    <2> QED
      BY <2>1 DEF AskInv
  <1>3. ASSUME NEW e \in Exporters, Works(e), UNCHANGED <<readings, asked>>, UNCHANGED xlsx \/ Snapshot(e)
        PROVE  AskInv'
    <2>1. /\ export[e].step \in {"ingest", "publish", "commit", "snapshot"}
          /\ export'[e].step \in {"publish", "commit", "snapshot", "done", "failed"}
          /\ export'[e].excel = export[e].excel
          /\ \A o \in Exporters \ {e} : export'[o] = export[o]
      BY <1>0, <1>3, WorksDoes
    <2>2. CASE Ingest(e)
      <3>1. cache'.bins = readings /\ Goto(e, "publish") /\ "publish" \in Steps /\ ~Snapshot(e)
        BY <1>0, <2>2, IngestDoes DEF Ingest, Snapshot, At, Steps
      <3>2. export'[e].step = "publish"
        BY <1>0, <3>1, Moves
      <3>3. UNCHANGED xlsx
        BY <1>3, <3>1
      <3>4. Within(asked', cache'.bins) /\ Within(asked', readings') /\ Within(xlsx'.counts, readings')
        BY <1>3, <3>1, <3>3 DEF AskInv
      <3>5. ASSUME NEW o \in Exporters, export'[o].excel, export'[o].step = "done"
            PROVE  Within(asked', xlsx'.counts)
        BY <1>3, <2>1, <3>2, <3>3, <3>5 DEF AskInv
      <3> QED
        BY <3>4, <3>5 DEF AskInv
    <2>3. CASE ~Snapshot(e) /\ (Publish(e) \/ Commit(e) \/ AppendFails(e) \/ ExportFails(e))
      <3>1. cache'.bins = cache.bins
        BY <1>0, <2>3, CommitDoes DEF Publish, AppendFails, ExportFails
      <3>2. export[e].step = "ingest" => export'[e].step = "failed"
        <4>1. CASE Publish(e) \/ Commit(e) \/ AppendFails(e)
          BY <4>1 DEF Publish, Commit, AppendFails, At
        <4>2. CASE ExportFails(e)
          <5>1. Goto(e, "failed") /\ "failed" \in Steps
            BY <4>2 DEF ExportFails, Steps
          <5> QED
            BY <1>0, <5>1, Moves
        <4> QED
          BY <2>3, <4>1, <4>2
      <3>3. CASE UNCHANGED xlsx
        <4>1. Within(asked', readings') /\ Within(xlsx'.counts, readings')
          BY <1>3, <3>3 DEF AskInv
        <4>2. ASSUME NEW o \in Exporters, export'[o].excel,
                     export'[o].step \in {"publish", "commit", "snapshot", "done"}
              PROVE  Within(asked', cache'.bins)
          <5>1. export[o].excel /\ export[o].step \in {"publish", "commit", "snapshot", "done"}
            BY <2>1, <3>2, <4>2
          <5> QED
            BY <1>3, <3>1, <5>1 DEF AskInv
        <4>3. ASSUME NEW o \in Exporters, export'[o].excel, export'[o].step = "done"
              PROVE  Within(asked', xlsx'.counts)
          <5>1. CASE o = e
            <6>1. Commit(e) \/ Publish(e) \/ AppendFails(e) \/ ExportFails(e)
              BY <2>3
            <6>2. ASSUME Publish(e) PROVE FALSE
              BY <1>0, <4>3, <5>1, <6>2, PublishDoes
            <6>3. ASSUME AppendFails(e) \/ ExportFails(e) PROVE FALSE
              <7>1. Goto(e, "failed") /\ "failed" \in Steps
                BY <6>3 DEF AppendFails, ExportFails, Steps
              <7> QED
                BY <1>0, <4>3, <5>1, <7>1, Moves
            <6>4. ASSUME Commit(e) PROVE FALSE
              <7>1. export'[e].step = "snapshot"
                BY <1>0, <2>1, <4>3, <5>1, <6>4, CommitDoes
              <7> QED
                BY <4>3, <5>1, <7>1
            <6> QED
              BY <6>1, <6>2, <6>3, <6>4
          <5>2. CASE o # e
            <6>1. export[o].excel /\ export[o].step = "done"
              BY <2>1, <4>3, <5>2
            <6> QED
              BY <1>3, <3>3, <6>1 DEF AskInv
          <5> QED
            BY <5>1, <5>2
        <4> QED
          BY <4>1, <4>2, <4>3 DEF AskInv
      <3> QED
        BY <1>3, <2>3, <3>3
    <2>4. CASE Snapshot(e)
      <3>1. /\ export[e].step = "snapshot" /\ cache' = cache
            /\ xlsx' = [counts |-> cache.bins, notes |-> [b \in Bins |-> NoteCells(noteLog, b)]]
        BY <2>4 DEF Snapshot, At
      <3>2. xlsx'.counts = cache.bins
        BY <3>1
      <3>3. Within(asked', readings') /\ Within(xlsx'.counts, readings')
        BY <1>0, <1>3, <3>2 DEF AskInv
      <3>4. ASSUME NEW o \in Exporters, export'[o].excel,
                   export'[o].step \in {"publish", "commit", "snapshot", "done"}
            PROVE  Within(asked', cache'.bins) /\ Within(asked', xlsx'.counts)
        <4>1. export[o].excel /\ export[o].step \in {"publish", "commit", "snapshot", "done"}
          BY <2>1, <3>1, <3>4
        <4>2. Within(asked, cache.bins)
          BY <4>1 DEF AskInv
        <4> QED
          BY <1>3, <3>1, <3>2, <4>2
      <3> QED
        BY <3>3, <3>4 DEF AskInv
    <2> QED
      BY <1>3, <2>2, <2>3, <2>4 DEF Works
  <1>4. CASE Quiet
    <2>1. UNCHANGED <<readings, cache, xlsx>>
      BY <1>4, QuietKeeps
    <2>2. \A e \in Exporters : export'[e] = export[e] \/ export'[e] = Idle \/ export'[e].step = "ingest"
      BY <1>0, <1>4, QuietMoves
    <2>3. ASSUME NEW e \in Exporters, export'[e].excel,
                 export'[e].step \in {"publish", "commit", "snapshot", "done"}
          PROVE  export'[e] = export[e]
      BY <2>2, <2>3, Starts
    <2>4. CASE asked' = asked
      BY <2>1, <2>3, <2>4 DEF AskInv
    <2>5. CASE asked' = NoReadings
      <3>1. Within(asked', readings') /\ Within(asked', cache'.bins) /\ Within(asked', xlsx'.counts)
            /\ Within(xlsx'.counts, readings')
        BY <1>0, <2>1, <2>5, NoneYet DEF AskInv
      <3> QED
        BY <3>1 DEF AskInv
    <2>6. CASE RequestQueued \/ RequestFolder \/ Finalise
      <3>1. job \in {"none", "close"} /\ asked' = readings
        BY <2>6 DEF RequestQueued, RequestFolder, Finalise
      <3>2. \A e \in Exporters : ~export[e].excel
        <4>1. export[Holder].step = "idle" /\ ~Working("excel")
          BY <3>1 DEF Recorder, TaskInv
        <4> QED
          BY <1>0, <4>1 DEF Recorder, TaskInv, Working
      <3>3. Within(asked', readings') /\ Within(xlsx'.counts, readings')
        BY <1>0, <2>1, <3>1, WithinItself DEF AskInv
      <3>4. \A e \in Exporters : export'[e].excel => ~(export'[e].step \in {"publish", "commit", "snapshot", "done"})
        BY <2>3, <3>2
      <3> QED
        BY <3>3, <3>4 DEF AskInv
    <2>7. asked' = asked \/ asked' = NoReadings \/ RequestQueued \/ RequestFolder \/ Finalise
      BY <1>4, Zenon DEF Quiet, Holding, WorkerStarts, WorkerEnds, RequestEnds, Stop, Close, CloseFails,
                         Closed, ProcessEnds
    <2> QED
      BY <2>4, <2>5, <2>6, <2>7
  <1>5. CASE UNCHANGED vars
    BY <1>5 DEF vars, AskInv
  <1> QED
    BY <1>1, <1>2, <1>3, <1>4, <1>5, Cases, Zenon

(* A workbook asked for at any moment, queued behind a live export or made on
   the caller's thread, holds the readings recorded by then, and none twice:
   whatever else is recorded, exported or fails meanwhile. *)
THEOREM WorkbooksIncludeThePast == Spec => []WorkbookIncludesPast
  <1>1. Init => Recorder /\ AskInv
    BY RecorderInitial, AskInitial
  <1>2. Recorder /\ AskInv /\ [Next]_vars => Recorder' /\ AskInv'
    BY RecorderStep, AskStep
  <1>3. Recorder /\ AskInv => WorkbookIncludesPast
    BY DEF AskInv, Within, WorkbookIncludesPast, At
  <1> QED
    BY <1>1, <1>2, <1>3, PTL DEF Spec

(***************************************************************************)
(* The write lock, and what the cache knows of the CSV.                    *)
(***************************************************************************)

LockInv == \A e \in Exporters : lock = e <=> export[e].step = "commit"

(* No thread is inside a transaction when another's export is begun or put away. *)
LEMMA QuietRests ==
  ASSUME Recorder, Quiet
  PROVE  \/ lock' = Nobody /\ \A e \in Exporters : export'[e].step = "idle"
         \/ /\ lock' = lock
            /\ \A e \in Exporters :
                 \/ export'[e] = export[e]
                 \/ export[e].step # "commit" /\ export'[e].step \in {"idle", "ingest"}
  <1> USE Threads
  <1>0. /\ Held /\ Idle \in Exports /\ Idle.step = "idle" /\ export \in [Exporters -> Exports]
        /\ job \notin {"excel", "finalise"} => export[Holder].step = "idle"
    BY Starts DEF Recorder, DataInv, Held, TaskInv
  <1>1. CASE ProcessEnds
    BY <1>0, <1>1 DEF ProcessEnds
  <1>2. CASE WorkerStarts
    <2>1. PICK f \in BOOLEAN, x \in BOOLEAN :
            export' = [export EXCEPT ![Worker] = Begun(f, x)] /\ lock' = lock /\ export[Worker].step = "idle"
      BY <1>2 DEF WorkerStarts, At
    <2> QED
      BY <1>0, <2>1, Starts, ReplaceOne
  <1>3. CASE RequestFolder \/ Finalise
    <2>1. PICK f \in BOOLEAN :
            export' = [export EXCEPT ![Holder] = Begun(f, TRUE)] /\ lock' = lock /\ job \in {"none", "close"}
      BY <1>3 DEF RequestFolder, Finalise
    <2> QED
      BY <1>0, <2>1, Starts, ReplaceOne
  <1>4. CASE WorkerEnds
    <2>1. export' = [export EXCEPT ![Worker] = Idle] /\ lock' = lock /\ export[Worker].step \in {"done", "failed"}
      BY <1>4 DEF WorkerEnds
    <2> QED
      BY <1>0, <2>1, ReplaceOne
  <1>5. CASE RequestEnds \/ CloseFails \/ Closed
    <2>1. /\ export' = [export EXCEPT ![Holder] = Idle] /\ lock' = lock
          /\ job = "close" \/ export[Holder].step \in {"done", "failed"}
      BY <1>5 DEF RequestEnds, CloseFails, Closed, At
    <2> QED
      BY <1>0, <2>1, ReplaceOne
  <1>6. CASE RequestQueued \/ Stop \/ Close
    BY <1>6 DEF RequestQueued, Stop, Close
  <1> QED
    BY <1>1, <1>2, <1>3, <1>4, <1>5, <1>6, Zenon DEF Quiet, Holding

LEMMA LockStep ==
  ASSUME Recorder, LockInv, [Next]_vars
  PROVE  LockInv'
  <1>0. Held /\ Nobody \notin Exporters
    BY NobodyAssumption DEF Recorder, DataInv
  <1>1. ASSUME NEW e \in Exporters, Works(e) PROVE LockInv'
    <2>1. /\ export[e].step \in {"ingest", "publish", "commit", "snapshot"}
          /\ export'[e].step \in {"publish", "commit", "snapshot", "done", "failed"}
          /\ \A o \in Exporters \ {e} : export'[o] = export[o]
      BY <1>0, <1>1, WorksDoes
    <2>2. ASSUME NEW s \in Steps, Goto(e, s) PROVE export'[e].step = s
      <3>1. export \in [Exporters -> Exports]
        BY <1>0 DEF Held
      <3> QED
        BY <2>2, <3>1, Moves
    <2>3. "publish" \in Steps /\ "done" \in Steps /\ "failed" \in Steps
      BY DEF Steps
    <2>4. CASE Ingest(e)
      <3>1. lock' = lock /\ export[e].step = "ingest" /\ export'[e].step = "publish"
        BY <2>2, <2>3, <2>4 DEF Ingest, At
      <3> QED
        BY <2>1, <3>1 DEF LockInv
    <2>5. CASE Publish(e)
      <3>1. lock = Nobody /\ lock' = e /\ export'[e].step = "commit"
        BY <1>0, <2>5, PublishDoes DEF Publish
      <3> QED
        BY <1>0, <2>1, <3>1 DEF LockInv
    <2>6. CASE Commit(e)
      <3>1. export[e].step = "commit" /\ lock' = Nobody /\ export'[e].step # "commit"
        BY <1>0, <2>6, CommitDoes DEF Commit, At
      <3>2. lock = e
        BY <3>1 DEF LockInv
      <3> QED
        BY <1>0, <2>1, <3>1, <3>2 DEF LockInv
    <2>7. CASE Snapshot(e)
      <3>1. lock' = lock /\ export[e].step = "snapshot" /\ export'[e].step = "done"
        BY <2>2, <2>3, <2>7 DEF Snapshot, At
      <3> QED
        BY <2>1, <3>1 DEF LockInv
    <2>8. CASE AppendFails(e)
      <3>1. lock' = lock /\ export[e].step = "publish" /\ export'[e].step = "failed"
        BY <2>2, <2>3, <2>8 DEF AppendFails, At
      <3> QED
        BY <2>1, <3>1 DEF LockInv
    <2>9. CASE ExportFails(e)
      <3>1. lock' = (IF lock = e THEN Nobody ELSE lock) /\ export'[e].step = "failed"
        BY <2>2, <2>3, <2>9 DEF ExportFails
      <3>2. \A o \in Exporters \ {e} : lock' = o <=> lock = o
        BY <1>0, <3>1
      <3>3. lock' # e
        BY <1>0, <3>1
      <3> QED
        BY <2>1, <3>1, <3>2, <3>3 DEF LockInv
    <2> QED
      BY <1>1, <2>4, <2>5, <2>6, <2>7, <2>8, <2>9 DEF Works
  <1>2. CASE Quiet
    BY <1>0, <1>2, QuietRests DEF LockInv
  <1>3. CASE UNCHANGED <<lock, export>>
    BY <1>3 DEF LockInv
  <1>4. (\E b \in Bins, c \in Channels : Record(b, c)) \/ (\E note \in NoteRecords : Annotate(note))
           \/ UNCHANGED vars => UNCHANGED <<lock, export>>
    BY DEF Record, Annotate, vars
  <1> QED
    BY <1>1, <1>2, <1>3, <1>4, Cases, Zenon

(* Nothing the cache saved asks for a rebuild. *)
Clean ==
  /\ ~cache.schemaChanged
  /\ ~(cache.dirty # 0 /\ cache.dirty <= cache.through)
  /\ cache.notesSize = Len(noteLog)

(* The table the cache takes the CSV for. *)
ToThere == Table(cache.bins, cache.signals, noteLog, cache.through)

(* The size the cache saved is that table's.  A file of another size may have
   more rows, of an append that failed, but up to there it agrees.  What a
   transaction has written is the table as far as it goes, unless a note has
   come since. *)
CsvInv ==
  /\ cache.notesSize <= Len(noteLog)
  /\ Clean => /\ cache.csvSize = Size(ToThere)
              /\ csv.exists =>
                   /\ csv.columns = cache.signals
                   /\ \A b \in Bins : b <= cache.through => csv.rows[b] = RowsOf(cache.bins, noteLog, b)
  /\ \A e \in Exporters : export[e].step = "commit" =>
       /\ cache.through <= export[e].through
       /\ export[e].notesSize <= Len(noteLog)
       /\ export[e].notesSize = Len(noteLog)
          => csv = Table(cache.bins, cache.signals, noteLog, export[e].through)

(* A row is made of the readings of its bin only. *)
LEMMA SameRows ==
  ASSUME NEW f, NEW g, NEW b \in Bins, f[b] = g[b]
  PROVE  RowsOf(f, noteLog, b) = RowsOf(g, noteLog, b)
  <1>1. b \in Filled(f) <=> b \in Filled(g)
    BY DEF Filled
  <1> QED
    BY <1>1 DEF RowsOf

LEMMA TableOf ==
  ASSUME Held, NEW t
  PROVE  \E f \in Files :
           /\ f = Table(cache.bins, cache.signals, noteLog, t)
           /\ f.exists = TRUE /\ f.columns = cache.signals /\ f.torn = FALSE
           /\ \A b \in Bins : /\ b <= t => f.rows[b] = RowsOf(cache.bins, noteLog, b)
                              /\ ~(b <= t) => f.rows[b] = <<>>
  <1>1. PICK counts \in Counts : counts = cache.bins
    BY CacheFields DEF Held
  <1>2. PICK columns \in SUBSET Channels : columns = cache.signals
    BY CacheFields DEF Held
  <1>3. noteLog \in Seq(NoteRecords)
    BY DEF Held
  <1>4. /\ Table(counts, columns, noteLog, t) \in Files
        /\ Table(counts, columns, noteLog, t).exists = TRUE
        /\ Table(counts, columns, noteLog, t).columns = columns
        /\ Table(counts, columns, noteLog, t).torn = FALSE
        /\ \A b \in Bins : Table(counts, columns, noteLog, t).rows[b]
                           = IF b <= t THEN RowsOf(counts, noteLog, b) ELSE <<>>
    BY <1>3, TableIs, Zenon
  <1>5. PICK f \in Files :
          /\ f = Table(counts, columns, noteLog, t)
          /\ f.exists = TRUE /\ f.columns = columns /\ f.torn = FALSE
          /\ \A b \in Bins : f.rows[b] = IF b <= t THEN RowsOf(counts, noteLog, b) ELSE <<>>
    BY <1>4, Zenon
  <1>6. \A b \in Bins : (b <= t => f.rows[b] = RowsOf(cache.bins, noteLog, b))
                       /\ (~(b <= t) => f.rows[b] = <<>>)
    BY <1>1, <1>5
  <1> QED
    BY <1>1, <1>2, <1>5, <1>6, Zenon

LEMMA Triples ==
  ASSUME NEW a, NEW b, NEW c, NEW x, NEW y, NEW z, <<a, b, c>> = <<x, y, z>>
  PROVE  a = x /\ b = y /\ c = z
  OBVIOUS

(* The sizes tell the rest: a file that agrees with a table as far as that goes
   and has its size has no row more. *)
LEMMA SizeTells ==
  ASSUME Held, csv.exists, Size(csv) = Size(ToThere), csv.columns = cache.signals,
         \A b \in Bins : b <= cache.through => csv.rows[b] = RowsOf(cache.bins, noteLog, b)
  PROVE  csv = ToThere
  <1>0. /\ cache.bins \in Counts /\ cache.signals \in SUBSET Channels /\ noteLog \in Seq(NoteRecords)
        /\ csv \in Files /\ cache.through \in Nat
    BY CacheFields DEF Held
  <1>1. PICK t \in Files :
          /\ t = ToThere /\ t.exists = TRUE /\ t.columns = cache.signals /\ t.torn = FALSE
          /\ \A b \in Bins : /\ b <= cache.through => t.rows[b] = RowsOf(cache.bins, noteLog, b)
                             /\ ~(b <= cache.through) => t.rows[b] = <<>>
    BY TableOf, Zenon DEF ToThere
  <1>2. csv.rows \in [Bins -> Seq(Rows)] /\ t.rows \in [Bins -> Seq(Rows)] /\ csv.exists = TRUE
    BY <1>0, <1>1, FileFields
  <1>3. PICK cells : cells = {p \in Bins \X (1..2) : p[2] \in DOMAIN csv.rows[p[1]]}
    OBVIOUS
  <1>4. PICK known : known = {p \in Bins \X (1..2) : p[2] \in DOMAIN t.rows[p[1]]}
    OBVIOUS
  <1>5. known \subseteq cells
    <2>1. DOMAIN <<>> = {}
      BY EmptySeq
    <2>2. ASSUME NEW p \in known PROVE p \in cells
      <3>1. p \in Bins \X (1..2) /\ p[1] \in Bins /\ p[2] \in DOMAIN t.rows[p[1]]
        BY <1>4, <2>2
      <3>2. p[1] <= cache.through
        BY <1>1, <2>1, <3>1
      <3>3. csv.rows[p[1]] = t.rows[p[1]]
        BY <1>1, <3>1, <3>2, Zenon
      <3> QED
        BY <1>3, <3>1, <3>3
    <2> QED
      BY <2>2
  <1>6. IsFiniteSet(cells)
    BY <1>0, <1>3, SizeIs
  <1>7. Size(csv) = <<Cardinality(csv.columns), Cardinality(cells), csv.torn>>
        /\ Size(t) = <<Cardinality(t.columns), Cardinality(known), t.torn>>
    BY <1>3, <1>4, Zenon DEF Size
  <1>8. Cardinality(cells) = Cardinality(known) /\ csv.torn = FALSE
    <2>1. <<Cardinality(csv.columns), Cardinality(cells), csv.torn>>
          = <<Cardinality(t.columns), Cardinality(known), t.torn>>
      BY <1>1, <1>7, Zenon
    <2> QED
      BY <1>1, <2>1, Triples, Zenon
  <1>9. cells = known
    BY <1>5, <1>6, <1>8, FS_Subset
  <1>10. ASSUME NEW b \in Bins PROVE csv.rows[b] = t.rows[b]
    <2>1. CASE b <= cache.through
      BY <1>1, <2>1, Zenon
    <2>2. CASE ~(b <= cache.through)
      <3>1. t.rows[b] = <<>> /\ DOMAIN <<>> = {}
        BY <1>1, <2>2, EmptySeq
      <3>2. <<b, 1>> \in Bins \X (1..2) /\ <<b, 1>>[1] = b /\ <<b, 1>>[2] = 1
        OBVIOUS
      <3>3. <<b, 1>> \notin known
        BY <1>4, <3>1, <3>2
      <3>4. 1 \notin DOMAIN csv.rows[b]
        BY <1>3, <1>9, <3>2, <3>3
      <3>5. csv.rows[b] \in Seq(Rows)
        BY <1>2
      <3>6. Len(csv.rows[b]) = 0
        BY <3>4, <3>5, LenProperties
      <3> QED
        BY <3>1, <3>5, <3>6, EmptySeq
    <2> QED
      BY <2>1, <2>2
  <1>11. csv.rows = t.rows
    BY <1>2, <1>10
  <1> QED
    BY <1>0, <1>1, <1>2, <1>8, <1>11, SameFile

LEMMA CsvKnown ==
  ASSUME Held, CsvInv, ~MustRebuild
  PROVE  csv = ToThere
  <1>1. Clean /\ csv.exists /\ Size(csv) = cache.csvSize
    BY DEF MustRebuild, Clean
  <1> QED
    BY <1>1, SizeTells DEF CsvInv

(* Added to or replaced, the file is the table of the cache's bins as far as
   the export goes. *)
LEMMA PublishResult ==
  ASSUME Held, CsvInv, NEW e \in Exporters, Publish(e)
  PROVE  csv' = Table(cache.bins, cache.signals, noteLog, Through(export[e].final))
  <1>0. /\ cache.bins \in Counts /\ cache.signals \in SUBSET Channels /\ noteLog \in Seq(NoteRecords)
        /\ cache.through \in Nat /\ export[e].final \in BOOLEAN
    BY CacheFields, ExportFields DEF Held
  <1>1. PICK t \in Nat : t = Through(export[e].final) /\ cache.through <= t
    BY <1>0, ThroughIs
  <1>2. CASE MustRebuild
    BY <1>2, PublishDoes
  <1>3. CASE ~MustRebuild
    <2>1. PICK a \in Files :
            /\ a = Appended(cache.bins, noteLog, cache.through, t)
            /\ a.exists = csv.exists /\ a.columns = csv.columns /\ a.torn = csv.torn
            /\ \A b \in Bins : a.rows[b] = IF cache.through < b /\ b <= t
                                           THEN csv.rows[b] \o RowsOf(cache.bins, noteLog, b)
                                           ELSE csv.rows[b]
      BY AppendedIs
    <2>2. csv' = a
      BY <1>1, <1>3, <2>1, PublishDoes
    <2>3. /\ csv.exists = TRUE /\ csv.columns = cache.signals /\ csv.torn = FALSE
          /\ \A b \in Bins : /\ b <= cache.through => csv.rows[b] = RowsOf(cache.bins, noteLog, b)
                             /\ ~(b <= cache.through) => csv.rows[b] = <<>>
      <3>1. csv = Table(cache.bins, cache.signals, noteLog, cache.through)
        BY <1>3, CsvKnown DEF ToThere
      <3>2. PICK f \in Files :
              /\ f = Table(cache.bins, cache.signals, noteLog, cache.through)
              /\ f.exists = TRUE /\ f.columns = cache.signals /\ f.torn = FALSE
              /\ \A b \in Bins : /\ b <= cache.through => f.rows[b] = RowsOf(cache.bins, noteLog, b)
                                 /\ ~(b <= cache.through) => f.rows[b] = <<>>
        BY TableOf, Zenon
      <3>3. f = csv
        BY <3>1, <3>2
      <3> QED
        BY <3>2, <3>3
    <2>4. PICK g \in Files :
            /\ g = Table(cache.bins, cache.signals, noteLog, t)
            /\ g.exists = TRUE /\ g.columns = cache.signals /\ g.torn = FALSE
            /\ \A b \in Bins : /\ b <= t => g.rows[b] = RowsOf(cache.bins, noteLog, b)
                               /\ ~(b <= t) => g.rows[b] = <<>>
      BY TableOf, Zenon
    <2>5. ASSUME NEW b \in Bins PROVE a.rows[b] = g.rows[b]
      <3>0. b \in Nat /\ RowsOf(cache.bins, noteLog, b) \in Seq(Rows)
        BY <1>0, BinFacts, RowsOfIs
      <3>1. CASE b <= cache.through
        <4>1. ~(cache.through < b) /\ b <= t
          BY <1>0, <1>1, <3>0, <3>1
        <4> QED
          BY <2>1, <2>3, <2>4, <3>1, <4>1, Zenon
      <3>2. CASE ~(b <= cache.through) /\ b <= t
        <4>1. cache.through < b
          BY <1>0, <3>0, <3>2
        <4>2. a.rows[b] = <<>> \o RowsOf(cache.bins, noteLog, b)
          BY <2>1, <2>3, <3>2, <4>1
        <4>3. a.rows[b] = RowsOf(cache.bins, noteLog, b)
          BY <3>0, <4>2, ConcatEmptySeq
        <4> QED
          BY <2>4, <3>2, <4>3, Zenon
      <3>3. CASE ~(b <= cache.through) /\ ~(b <= t)
        BY <2>1, <2>3, <2>4, <3>3
      <3> QED
        BY <3>1, <3>2, <3>3
    <2>6. a.rows = g.rows
      <3>1. a.rows \in [Bins -> Seq(Rows)] /\ g.rows \in [Bins -> Seq(Rows)]
        BY FileFields
      <3> QED
        BY <2>5, <3>1
    <2>7. a = g
      BY <2>1, <2>3, <2>4, <2>6, SameFile
    <2> QED
      BY <1>1, <2>2, <2>4, <2>7
  <1> QED
    BY <1>2, <1>3

LEMMA CsvInitial ==
  ASSUME Init
  PROVE  LockInv /\ CsvInv
  <1>0. Held
    BY DataInitial DEF DataInv
  <1>1. /\ lock = Nobody /\ export = [e \in Exporters |-> Idle] /\ csv = NoFile /\ noteLog = <<>>
        /\ cache = [consumed |-> NoReadings, bins |-> NoReadings, signals |-> {},
                    dirty |-> 0, schemaChanged |-> FALSE, through |-> 0,
                    csvSize |-> Size(NoFile), notesSize |-> 0]
    BY DEF Init, ExportInit
  <1>2. \A e \in Exporters : export[e].step = "idle"
    BY <1>1, Starts
  <1>3. /\ cache.bins = NoReadings /\ cache.signals = {} /\ cache.through = 0
        /\ cache.csvSize = Size(NoFile) /\ cache.notesSize = 0 /\ Len(noteLog) = 0
    BY <1>1, EmptySeq
  <1>4. LockInv
    BY <1>1, <1>2, NobodyAssumption DEF LockInv
  <1>5. PICK t \in Files :
          /\ t = Table(cache.bins, cache.signals, noteLog, cache.through)
          /\ t.columns = cache.signals /\ t.torn = FALSE
          /\ \A b \in Bins : ~(b <= cache.through) => t.rows[b] = <<>>
    BY <1>0, TableOf
  <1>6. \A b \in Bins : ~(b <= cache.through)
    BY <1>3, BinFacts
  <1>7. \A b \in Bins : t.rows[b] = <<>>
    BY <1>5, <1>6
  <1>8. PICK none \in Files : /\ none = NoFile /\ none.exists = FALSE /\ none.columns = {}
                              /\ none.torn = FALSE /\ \A b \in Bins : none.rows[b] = <<>>
    BY NoFileIs
  <1>9. {p \in Bins \X (1..2) : p[2] \in DOMAIN t.rows[p[1]]}
        = {p \in Bins \X (1..2) : p[2] \in DOMAIN none.rows[p[1]]}
    BY <1>7, <1>8
  <1>10. Size(t) = Size(none)
    BY <1>3, <1>5, <1>8, <1>9, Zenon DEF Size
  <1>11. cache.csvSize = Size(ToThere)
    BY <1>3, <1>5, <1>8, <1>10, Zenon DEF ToThere
  <1>12. ~csv.exists
    BY <1>1, NoFileIs
  <1>13. cache.notesSize <= Len(noteLog)
    BY <1>3
  <1> QED
    BY <1>2, <1>4, <1>11, <1>12, <1>13 DEF CsvInv

(* As far as the CSV goes nothing changes while the cache asks for no rebuild. *)
LEMMA IngestKeepsThere ==
  ASSUME DataInv, NEW e \in Exporters, Ingest(e), Clean'
  PROVE  /\ Clean /\ ToThere' = ToThere
         /\ cache'.signals = cache.signals
         /\ \A b \in Bins : b <= cache.through
              => RowsOf(cache'.bins, noteLog, b) = RowsOf(cache.bins, noteLog, b)
  <1>0. /\ readings \in Counts /\ noteLog \in Seq(NoteRecords) /\ cache.bins \in Counts /\ Held
        /\ cache.signals \in SUBSET Channels
    BY CacheFields DEF DataInv, Held
  <1>1. noteLog' = noteLog
    BY DEF Ingest
  <1>2. /\ cache'.bins = readings /\ cache'.signals = Signals(readings)
        /\ cache'.through = cache.through /\ cache'.notesSize = cache.notesSize
        /\ ~cache'.schemaChanged => ~cache.schemaChanged /\ Signals(readings) = cache.signals
        /\ ~(cache'.dirty # 0 /\ cache'.dirty <= cache.through) =>
             /\ ~(cache.dirty # 0 /\ cache.dirty <= cache.through)
             /\ \A b \in Bins : b <= cache.through => readings[b] = cache.bins[b]
    BY IngestDoes
  <1>3. /\ ~cache'.schemaChanged /\ ~(cache'.dirty # 0 /\ cache'.dirty <= cache.through)
        /\ cache'.notesSize = Len(noteLog)
    BY <1>1, <1>2 DEF Clean
  <1>4. /\ Clean /\ Signals(readings) = cache.signals
        /\ \A b \in Bins : b <= cache.through => readings[b] = cache.bins[b]
    BY <1>2, <1>3 DEF Clean
  <1>5. \A b \in Bins : b <= cache.through => RowsOf(readings, noteLog, b) = RowsOf(cache.bins, noteLog, b)
    BY <1>4, SameRows
  <1>6. Table(readings, cache.signals, noteLog, cache.through) = ToThere
    <2>1. [b \in Bins |-> IF b <= cache.through THEN RowsOf(readings, noteLog, b) ELSE <<>>]
          = [b \in Bins |-> IF b <= cache.through THEN RowsOf(cache.bins, noteLog, b) ELSE <<>>]
      BY <1>5
    <2> QED
      BY <2>1, Zenon DEF Table, ToThere
  <1>7. ToThere' = Table(cache'.bins, cache'.signals, noteLog', cache'.through)
    BY DEF ToThere
  <1> QED
    BY <1>1, <1>2, <1>4, <1>5, <1>6, <1>7

LEMMA CsvStep ==
  ASSUME Recorder, LockInv, CsvInv, [Next]_vars
  PROVE  CsvInv'
  <1>0. /\ Held /\ DataInv /\ Nobody \notin Exporters /\ export \in [Exporters -> Exports]
        /\ noteLog \in Seq(NoteRecords) /\ Len(noteLog) \in Nat /\ cache.notesSize \in Nat
        /\ \A e \in Exporters : export[e].notesSize \in Nat
    BY NobodyAssumption, CacheFields, ExportFields, LenProperties DEF Recorder, DataInv, Held
  <1>1. CASE \E b \in Bins, c \in Channels : Record(b, c)
    <2>1. UNCHANGED <<noteLog, cache, csv, export>>
      BY <1>1 DEF Record
    <2> QED
      BY <2>1, Zenon DEF CsvInv, Clean, ToThere
  <1>2. CASE \E note \in NoteRecords : Annotate(note)
    <2>1. PICK note \in NoteRecords : noteLog' = Append(noteLog, note) /\ UNCHANGED <<cache, csv, export>>
      BY <1>2 DEF Annotate
    <2>2. PICK n \in Nat : n = Len(noteLog) /\ Len(noteLog') = n + 1
      BY <1>0, <2>1, AppendProperties
    <2>3. cache.notesSize <= n /\ \A e \in Exporters : export[e].step = "commit" => export[e].notesSize <= n
      BY <2>2 DEF CsvInv
    <2>4. cache.notesSize # n + 1 /\ cache.notesSize <= n + 1
      BY <1>0, <2>2, <2>3
    <2>5. ASSUME NEW e \in Exporters, export[e].step = "commit"
          PROVE  export[e].notesSize # n + 1 /\ export[e].notesSize <= n + 1
      BY <1>0, <2>2, <2>3, <2>5
    <2>6. ~Clean'
      BY <2>1, <2>2, <2>4 DEF Clean
    <2>7. cache'.notesSize <= Len(noteLog')
      BY <2>1, <2>2, <2>4
    <2>8. ASSUME NEW e \in Exporters, export'[e].step = "commit"
          PROVE  /\ cache'.through <= export'[e].through
                 /\ export'[e].notesSize <= Len(noteLog') /\ export'[e].notesSize # Len(noteLog')
      BY <2>1, <2>2, <2>5, <2>8 DEF CsvInv
    <2> QED
      BY <2>6, <2>7, <2>8 DEF CsvInv
  <1>3. CASE Quiet
    <2>1. UNCHANGED <<noteLog, cache, csv>>
      BY <1>3, QuietKeeps
    <2>2. \A e \in Exporters : export'[e].step = "commit" => export'[e] = export[e]
      BY <1>3, QuietRests
    <2>3. Clean' = Clean /\ ToThere' = ToThere
      BY <2>1 DEF Clean, ToThere
    <2> QED
      BY <2>1, <2>2, <2>3 DEF CsvInv
  <1>4. ASSUME NEW e \in Exporters, Works(e), UNCHANGED noteLog
        PROVE  CsvInv'
    <2>1. /\ export'[e].step \in {"publish", "commit", "snapshot", "done", "failed"}
          /\ \A o \in Exporters \ {e} : export'[o] = export[o]
      BY <1>0, <1>4, WorksDoes
    <2>2. ASSUME NEW s \in Steps, Goto(e, s) PROVE export'[e].step = s
      BY <1>0, <2>2, Moves
    <2>3. "publish" \in Steps /\ "done" \in Steps /\ "failed" \in Steps
      BY DEF Steps
    <2>4. CASE Ingest(e)
      <3>1. lock = Nobody /\ export'[e].step = "publish" /\ csv' = csv
        BY <2>2, <2>3, <2>4 DEF Ingest
      <3>2. \A o \in Exporters : export'[o].step # "commit"
        BY <1>0, <2>1, <3>1 DEF LockInv
      <3>3. cache'.notesSize = cache.notesSize /\ cache'.csvSize = cache.csvSize /\ cache'.through = cache.through
        BY <1>0, <2>4, IngestDoes
      <3>4. ASSUME Clean'
            PROVE  /\ cache'.csvSize = Size(ToThere')
                   /\ csv'.exists =>
                        /\ csv'.columns = cache'.signals
                        /\ \A b \in Bins : b <= cache'.through => csv'.rows[b] = RowsOf(cache'.bins, noteLog', b)
        <4>1. /\ Clean /\ ToThere' = ToThere /\ cache'.signals = cache.signals
              /\ \A b \in Bins : b <= cache.through
                   => RowsOf(cache'.bins, noteLog, b) = RowsOf(cache.bins, noteLog, b)
          BY <1>0, <2>4, <3>4, IngestKeepsThere
        <4>2. /\ cache.csvSize = Size(ToThere)
              /\ csv.exists => /\ csv.columns = cache.signals
                               /\ \A b \in Bins : b <= cache.through => csv.rows[b] = RowsOf(cache.bins, noteLog, b)
          BY <4>1 DEF CsvInv
        <4> QED
          BY <1>4, <3>1, <3>3, <4>1, <4>2
      <3>5. cache'.notesSize <= Len(noteLog')
        BY <1>4, <3>3 DEF CsvInv
      <3>6. Size(ToThere)' = Size(ToThere')
        BY DEF Size
      <3> QED
        BY <3>2, <3>4, <3>5, <3>6 DEF CsvInv
    <2>5. CASE Publish(e)
      <3>0. export[e].final \in BOOLEAN
        BY <1>0, ExportFields
      <3>1. PICK t \in Nat : t = Through(export[e].final) /\ cache.through <= t
        BY <1>0, <3>0, ThroughIs
      <3>2. csv' = Table(cache.bins, cache.signals, noteLog, t)
        BY <1>0, <2>5, <3>1, PublishResult
      <3>3. cache' = cache /\ lock = Nobody /\ noteLog' = noteLog
        BY <2>5 DEF Publish
      <3>4. PICK f \in Files :
              /\ f = Table(cache.bins, cache.signals, noteLog, t)
              /\ f.columns = cache.signals
              /\ \A b \in Bins : b <= t => f.rows[b] = RowsOf(cache.bins, noteLog, b)
        BY <1>0, TableOf
      <3>5. export'[e].through = t /\ export'[e].notesSize = Len(noteLog)
        BY <1>0, <2>5, <3>1, PublishDoes
      <3>6. Clean' = Clean /\ ToThere' = ToThere
        BY <3>3 DEF Clean, ToThere
      <3>7. ASSUME NEW b \in Bins, b <= cache.through PROVE b <= t
        <4>1. b \in Nat /\ cache.through \in Nat
          BY <1>0, BinFacts, CacheFields DEF Held
        <4> QED
          BY <3>1, <3>7, <4>1
      <3>8. /\ csv'.columns = cache.signals
            /\ \A b \in Bins : b <= cache.through => csv'.rows[b] = RowsOf(cache.bins, noteLog, b)
        BY <3>2, <3>4, <3>7
      <3>9. /\ cache'.notesSize <= Len(noteLog')
            /\ Clean' => cache'.csvSize = Size(ToThere')
        BY <3>3, <3>6 DEF CsvInv
      <3>10. \A o \in Exporters : export'[o].step = "commit" => o = e
        BY <1>0, <2>1, <3>3 DEF LockInv
      <3>11. export'[e].notesSize <= Len(noteLog')
        BY <1>0, <3>3, <3>5
      <3>12. Size(ToThere)' = Size(ToThere')
        BY DEF Size
      <3> QED
        BY <3>1, <3>2, <3>3, <3>5, <3>8, <3>9, <3>10, <3>11, <3>12 DEF CsvInv
    <2>6. CASE Commit(e)
      <3>1. /\ cache'.bins = cache.bins /\ cache'.signals = cache.signals
            /\ cache'.through = export[e].through /\ cache'.csvSize = Size(csv)
            /\ cache'.notesSize = export[e].notesSize
            /\ export'[e].step # "commit" /\ csv' = csv /\ export[e].step = "commit"
        BY <1>0, <2>6, CommitDoes DEF Commit, At
      <3>2. /\ export[e].notesSize <= Len(noteLog)
            /\ export[e].notesSize = Len(noteLog)
               => csv = Table(cache.bins, cache.signals, noteLog, export[e].through)
        BY <3>1 DEF CsvInv
      <3>3. ASSUME Clean'
            PROVE  /\ cache'.csvSize = Size(ToThere')
                   /\ csv'.columns = cache'.signals
                   /\ \A b \in Bins : b <= cache'.through => csv'.rows[b] = RowsOf(cache'.bins, noteLog', b)
        <4>1. csv = Table(cache.bins, cache.signals, noteLog, export[e].through)
          BY <1>4, <3>1, <3>2, <3>3 DEF Clean
        <4>2. ToThere' = csv
          BY <1>4, <3>1, <4>1 DEF ToThere
        <4>3. PICK f \in Files :
                /\ f = Table(cache.bins, cache.signals, noteLog, export[e].through)
                /\ f.columns = cache.signals
                /\ \A b \in Bins : b <= export[e].through => f.rows[b] = RowsOf(cache.bins, noteLog, b)
          BY <1>0, TableOf
        <4>4. f = csv
          BY <4>1, <4>3
        <4> QED
          BY <1>4, <3>1, <4>2, <4>3, <4>4
      <3>4. \A o \in Exporters : export'[o].step # "commit"
        BY <2>1, <3>1 DEF LockInv
      <3>5. Size(ToThere)' = Size(ToThere')
        BY DEF Size
      <3>6. cache'.notesSize <= Len(noteLog')
        BY <1>4, <3>1, <3>2
      <3> QED
        BY <3>3, <3>4, <3>5, <3>6 DEF CsvInv
    <2>7. CASE Snapshot(e) \/ ExportFails(e)
      <3>1. UNCHANGED <<cache, csv>> /\ export'[e].step # "commit"
        BY <2>2, <2>3, <2>7 DEF Snapshot, ExportFails
      <3>2. Clean' = Clean /\ ToThere' = ToThere
        BY <1>4, <3>1 DEF Clean, ToThere
      <3> QED
        BY <1>4, <2>1, <3>1, <3>2 DEF CsvInv
    <2>8. CASE AppendFails(e)
      <3>1. cache' = cache /\ lock = Nobody /\ ~MustRebuild /\ export'[e].step # "commit"
        BY <2>2, <2>3, <2>8 DEF AppendFails
      <3>2. PICK upto \in Nat :
              /\ csv'.exists = csv.exists /\ csv'.columns = csv.columns
              /\ csv'.rows = Appended(cache.bins, noteLog, cache.through, upto).rows
        BY <1>0, <2>8, AppendFailsDoes
      <3>3. ASSUME NEW b \in Bins, b <= cache.through PROVE csv'.rows[b] = csv.rows[b]
        <4>1. ~(cache.through < b)
          <5>1. b \in Nat /\ cache.through \in Nat
            BY <1>0, BinFacts, CacheFields DEF Held
          <5> QED
            BY <3>3, <5>1
        <4>2. PICK a \in Files : /\ a = Appended(cache.bins, noteLog, cache.through, upto)
                                 /\ a.rows[b] = csv.rows[b]
          BY <1>0, <4>1, AppendedIs
        <4> QED
          BY <3>2, <4>2
      <3>4. Clean' = Clean /\ ToThere' = ToThere
        BY <1>4, <3>1 DEF Clean, ToThere
      <3>5. \A o \in Exporters : export'[o].step # "commit"
        BY <1>0, <2>1, <3>1 DEF LockInv
      <3>6. Size(ToThere)' = Size(ToThere')
        BY DEF Size
      <3>7. cache'.notesSize <= Len(noteLog')
        BY <1>4, <3>1 DEF CsvInv
      <3>8. Clean' => /\ cache'.csvSize = Size(ToThere')
                      /\ csv'.exists =>
                           /\ csv'.columns = cache'.signals
                           /\ \A b \in Bins : b <= cache'.through => csv'.rows[b] = RowsOf(cache'.bins, noteLog', b)
        BY <1>4, <3>1, <3>2, <3>3, <3>4 DEF CsvInv
      <3> QED
        BY <3>5, <3>6, <3>7, <3>8 DEF CsvInv
    <2> QED
      BY <1>4, <2>4, <2>5, <2>6, <2>7, <2>8, Zenon DEF Works
  <1>5. CASE UNCHANGED vars
    BY <1>5, Zenon DEF vars, CsvInv, Clean, ToThere
  <1> QED
    BY <1>1, <1>2, <1>3, <1>4, <1>5, Cases, Zenon

(* Between transactions the cache knows the CSV: after appends that failed part
   way, exports that failed, notes and late readings, when nothing asks for a
   rebuild the file is the table of the cache's bins and notes, so that appending
   to it is right. *)
THEOREM CacheAlwaysKnows == Spec => []CacheKnowsCsv
  <1>1. Init => Recorder /\ LockInv /\ CsvInv
    BY RecorderInitial, CsvInitial
  <1>2. Recorder /\ LockInv /\ CsvInv /\ [Next]_vars => Recorder' /\ LockInv' /\ CsvInv'
    BY RecorderStep, LockStep, CsvStep
  <1>3. Recorder /\ LockInv /\ CsvInv => CacheKnowsCsv
    <2>1. SUFFICES ASSUME Recorder, CsvInv, ~MustRebuild
                   PROVE  csv = [Table(cache.bins, cache.signals, noteLog, cache.through) EXCEPT !.torn = FALSE]
      BY DEF CacheKnowsCsv
    <2>2. PICK t \in Files : t = ToThere /\ t.torn = FALSE
      <3>1. Held
        BY <2>1 DEF Recorder, DataInv
      <3>2. \E f \in Files : f = Table(cache.bins, cache.signals, noteLog, cache.through) /\ f.torn = FALSE
        BY <3>1, TableOf, Zenon
      <3> QED
        BY <3>2, Zenon DEF ToThere
    <2>3. [t EXCEPT !.torn = FALSE] = t
      BY <2>2 DEF Files
    <2>4. csv = t
      BY <2>1, <2>2, CsvKnown DEF Recorder, DataInv
    <2> QED
      BY <2>2, <2>3, <2>4 DEF ToThere
  <1> QED
    BY <1>1, <1>2, <1>3, PTL DEF Spec

(***************************************************************************)
(* Stopping, and what a complete run has.                                  *)
(***************************************************************************)

Past == {"publish", "commit", "snapshot", "done"}

(* A final export is one of a recording that has stopped, and has all of the
   journal once it has taken it in.  The folder is finalised, and complete, with
   no task left for the worker. *)
StopInv ==
  /\ attached => status = "recording" /\ isOpen /\ ~stopping
  /\ job = "close" => stopping
  /\ job = "finalise" => stopping /\ ~isOpen /\ queue = <<>> /\ export[Worker].step = "idle" /\ export[Holder].final
  /\ stopping => ~attached /\ status = "recording"
  /\ \A e \in Exporters : export[e].final =>
       ~attached /\ (export[e].step \in Past => cache.bins = readings)
  /\ status = "complete" =>
       /\ ~isOpen /\ job \in {"none", "excel"} /\ queue = <<>> /\ export[Worker].step = "idle"
       /\ export[Holder].step # "idle" => export[Holder].final

LEMMA StopInitial ==
  ASSUME Init
  PROVE  StopInv
  <1>1. /\ status = "recording" /\ isOpen = TRUE /\ stopping = FALSE /\ job = "none"
        /\ export = [e \in Exporters |-> Idle]
    BY DEF Init, ExportInit
  <1>2. \A e \in Exporters : export[e].final = FALSE
    BY <1>1, Starts
  <1> QED
    BY <1>1, <1>2 DEF StopInv

(* The holder may finalise when the last live export is through: the worker has
   nothing to do, and nothing waits. *)
LEMMA NothingLeft ==
  ASSUME Recorder, job = "close", live \in {"none", "ok"}
  PROVE  queue = <<>> /\ export[Worker].step = "idle"
  <1>0. queue \in Seq({"live", "excel"}) /\ export[Worker].excel \in BOOLEAN
    BY Threads, ExportFields DEF Recorder, Kept, DataInv, Held
  <1>1. /\ ~Waiting("live") /\ ~Waiting("excel") /\ ~Working("live") /\ ~Working("excel")
    BY DEF Recorder, TaskInv
  <1>2. export[Worker].step = "idle"
    <2>1. (export[Worker].excel = TRUE \/ export[Worker].excel = FALSE) /\ "live" # "excel"
      BY <1>0
    <2> QED
      BY <1>1, <2>1 DEF Working
  <1>3. Len(queue) \in Nat /\ DOMAIN queue = 1..Len(queue)
    BY <1>0, LenProperties
  <1>4. Len(queue) = 0
    <2>1. ASSUME Len(queue) # 0 PROVE FALSE
      <3>1. 1 \in DOMAIN queue /\ queue[1] \in {"live", "excel"}
        BY <1>0, <1>3, <2>1, ElementOfSeq
      <3> QED
        BY <1>1, <3>1 DEF Waiting
    <2> QED
      BY <2>1
  <1> QED
    BY <1>0, <1>2, <1>4, EmptySeq

LEMMA StopQuiet ==
  ASSUME Recorder, StopInv, Quiet
  PROVE  StopInv'
  <1> USE Threads
  <1>0. /\ export \in [Exporters -> Exports] /\ UNCHANGED <<readings, cache>>
        /\ status \in {"recording", "complete"} /\ queue \in Seq({"live", "excel"})
        /\ Idle \in Exports /\ Idle.step = "idle" /\ Idle.final = FALSE
        /\ \A f \in BOOLEAN, x \in BOOLEAN :
             Begun(f, x) \in Exports /\ Begun(f, x).step = "ingest" /\ Begun(f, x).final = f
    BY QuietKeeps, Starts DEF Recorder, Kept, DataInv, Held
  <1>1. "ingest" \notin Past /\ "idle" \notin Past /\ "ingest" # "idle"
    BY DEF Past
  <1>2. CASE WorkerStarts
    <2>1. /\ queue # <<>> /\ UNCHANGED <<attached, isOpen, stopping, status, job>>
          /\ export' = [export EXCEPT ![Worker] =
                          Begun(Head(queue) = "excel" /\ status # "recording", Head(queue) = "excel")]
      BY <1>2 DEF WorkerStarts
    <2>2. status = "recording" /\ job # "finalise"
      BY <1>0, <2>1 DEF StopInv
    <2>3. PICK x \in BOOLEAN : export' = [export EXCEPT ![Worker] = Begun(FALSE, x)]
      BY <2>1, <2>2
    <2>4. export'[Holder] = export[Holder] /\ export'[Worker].final = FALSE
      BY <1>0, <2>3, ReplaceOne
    <2> QED
      BY <1>0, <2>1, <2>2, <2>4 DEF StopInv
  <1>3. CASE WorkerEnds
    <2>1. /\ UNCHANGED <<attached, isOpen, stopping, status, queue>> /\ export[Worker].step # "idle"
          /\ export' = [export EXCEPT ![Worker] = Idle] /\ job' \in {job, "none"}
      BY <1>3 DEF WorkerEnds
    <2>2. status = "recording" /\ job # "finalise"
      BY <1>0, <2>1 DEF StopInv
    <2>3. export'[Holder] = export[Holder] /\ export'[Worker].final = FALSE
      BY <1>0, <2>1, ReplaceOne
    <2> QED
      BY <1>0, <2>1, <2>2, <2>3 DEF StopInv
  <1>4. CASE RequestQueued
    <2>1. /\ isOpen /\ job' = "queued" /\ UNCHANGED <<attached, isOpen, stopping, status, export>>
      BY <1>4 DEF RequestQueued
    <2> QED
      BY <1>0, <2>1 DEF StopInv
  <1>5. CASE RequestFolder
    <2>1. PICK f \in BOOLEAN :
            /\ f = (status # "recording") /\ ~attached /\ job = "none" /\ job' = "excel"
            /\ export' = [export EXCEPT ![Holder] = Begun(f, TRUE)]
            /\ UNCHANGED <<attached, isOpen, stopping, status, queue>>
      BY <1>5 DEF RequestFolder
    <2>2. /\ export'[Worker] = export[Worker] /\ export'[Holder].final = f
          /\ export'[Holder].step = "ingest"
      BY <1>0, <2>1, ReplaceOne
    <2>3. status = "complete" => f
      BY <2>1
    <2> QED
      BY <1>0, <1>1, <2>1, <2>2, <2>3 DEF StopInv
  <1>6. CASE RequestEnds
    <2>1. /\ job = "excel" /\ job' = "none" /\ export' = [export EXCEPT ![Holder] = Idle]
          /\ UNCHANGED <<attached, isOpen, stopping, status, queue>>
      BY <1>6 DEF RequestEnds
    <2>2. export'[Worker] = export[Worker] /\ export'[Holder].final = FALSE /\ export'[Holder].step = "idle"
      BY <1>0, <2>1, ReplaceOne
    <2> QED
      BY <1>0, <2>1, <2>2 DEF StopInv
  <1>7. CASE Stop
    <2>1. attached /\ attached' = FALSE /\ stopping' = TRUE /\ UNCHANGED <<isOpen, status, job, queue, export>>
      BY <1>7 DEF Stop
    <2> QED
      BY <1>0, <2>1 DEF StopInv
  <1>8. CASE Close
    <2>1. stopping /\ job' = "close" /\ UNCHANGED <<attached, isOpen, stopping, status, queue, export>>
      BY <1>8 DEF Close
    <2> QED
      BY <1>0, <2>1 DEF StopInv
  <1>9. CASE Finalise
    <2>1. /\ job = "close" /\ live \in {"none", "ok"} /\ job' = "finalise" /\ isOpen' = FALSE
          /\ export' = [export EXCEPT ![Holder] = Begun(TRUE, TRUE)]
          /\ UNCHANGED <<attached, stopping, status, queue>>
      BY <1>9 DEF Finalise
    <2>2. queue = <<>> /\ export[Worker].step = "idle"
      BY <2>1, NothingLeft
    <2>3. export'[Worker] = export[Worker] /\ export'[Holder].final = TRUE /\ export'[Holder].step = "ingest"
      BY <1>0, <2>1, ReplaceOne
    <2>4. stopping /\ ~attached /\ status = "recording"
      BY <2>1 DEF StopInv
    <2> QED
      BY <1>0, <1>1, <2>1, <2>2, <2>3, <2>4 DEF StopInv
  <1>10. CASE CloseFails
    <2>1. /\ job \in {"close", "finalise"} /\ isOpen' = FALSE /\ stopping' = FALSE /\ job' = "none"
          /\ export' = [export EXCEPT ![Holder] = Idle] /\ UNCHANGED <<attached, status, queue>>
      BY <1>10 DEF CloseFails
    <2>2. export'[Worker] = export[Worker] /\ export'[Holder].final = FALSE /\ export'[Holder].step = "idle"
      BY <1>0, <2>1, ReplaceOne
    <2>3. stopping /\ ~attached /\ status = "recording"
      BY <2>1 DEF StopInv
    <2> QED
      BY <1>0, <2>1, <2>2, <2>3 DEF StopInv
  <1>11. CASE Closed
    <2>1. /\ job = "finalise" /\ status' = "complete" /\ stopping' = FALSE /\ job' = "none"
          /\ export' = [export EXCEPT ![Holder] = Idle] /\ UNCHANGED <<attached, isOpen, queue>>
      BY <1>11 DEF Closed
    <2>2. export'[Worker] = export[Worker] /\ export'[Holder].final = FALSE /\ export'[Holder].step = "idle"
      BY <1>0, <2>1, ReplaceOne
    <2>3. ~attached /\ ~isOpen /\ queue = <<>> /\ export[Worker].step = "idle"
      BY <2>1 DEF StopInv
    <2> QED
      BY <1>0, <2>1, <2>2, <2>3 DEF StopInv
  <1>12. CASE ProcessEnds
    <2>1. /\ attached' = FALSE /\ isOpen' = FALSE /\ stopping' = FALSE /\ job' = "none" /\ queue' = <<>>
          /\ export' = [e \in Exporters |-> Idle]
      BY <1>12 DEF ProcessEnds
    <2>2. \A e \in Exporters : export'[e].step = "idle" /\ export'[e].final = FALSE
      BY <1>0, <2>1
    <2> QED
      BY <1>0, <2>1, <2>2 DEF StopInv
  <1> QED
    BY <1>2, <1>3, <1>4, <1>5, <1>6, <1>7, <1>8, <1>9, <1>10, <1>11, <1>12, Zenon DEF Quiet, Holding

LEMMA StopStep ==
  ASSUME Recorder, StopInv, [Next]_vars
  PROVE  StopInv'
  <1>0. Held /\ DataInv
    BY DEF Recorder, DataInv
  <1>1. ASSUME attached, UNCHANGED <<attached, isOpen, stopping, status, job, export>>
        PROVE  StopInv'
    <2>1. /\ status = "recording" /\ isOpen /\ ~stopping /\ job # "close" /\ job # "finalise"
          /\ \A e \in Exporters : ~export[e].final
      BY <1>1 DEF StopInv
    <2> QED
      BY <1>1, <2>1 DEF StopInv
  <1>2. CASE \E b \in Bins, c \in Channels : Record(b, c)
    BY <1>1, <1>2 DEF Record
  <1>3. CASE \E note \in NoteRecords : Annotate(note)
    BY <1>1, <1>3 DEF Annotate
  <1>4. ASSUME NEW e \in Exporters, Works(e),
               UNCHANGED <<readings, attached, isOpen, stopping, status, job, queue>>
        PROVE  StopInv'
    <2>1. /\ export[e].step \in {"ingest", "publish", "commit", "snapshot"}
          /\ export'[e].step \in {"publish", "commit", "snapshot", "done", "failed"}
          /\ export'[e].final = export[e].final
          /\ \A o \in Exporters \ {e} : export'[o] = export[o]
      BY <1>0, <1>4, WorksDoes
    <2>2. \A o \in Exporters : /\ export'[o].final = export[o].final
                               /\ export'[o].step = "idle" <=> export[o].step = "idle"
      BY <2>1
    <2>3. ASSUME NEW o \in Exporters, export'[o].final, export'[o].step \in Past
          PROVE  cache'.bins = readings
      <3>1. CASE Ingest(e)
        BY <1>0, <3>1, IngestDoes
      <3>2. CASE ~Ingest(e)
        <4>1. cache'.bins = cache.bins
          BY <1>0, <1>4, <3>2, CommitDoes DEF Works, Publish, Snapshot, AppendFails, ExportFails
        <4>2. export[o].step \in Past
          <5>1. CASE o # e
            BY <2>1, <2>3, <5>1
          <5>2. CASE o = e
            <6>1. CASE ExportFails(e) \/ AppendFails(e)
              <7>1. Goto(e, "failed") /\ "failed" \in Steps /\ export \in [Exporters -> Exports]
                BY <1>0, <6>1 DEF ExportFails, AppendFails, Steps, Held
              <7>2. export'[e].step = "failed"
                BY <7>1, Moves
              <7> QED
                BY <2>3, <5>2, <7>2 DEF Past
            <6>2. CASE Publish(e) \/ Commit(e) \/ Snapshot(e)
              BY <5>2, <6>2 DEF Publish, Commit, Snapshot, At, Past
            <6> QED
              BY <1>4, <3>2, <6>1, <6>2 DEF Works
          <5> QED
            BY <5>1, <5>2
        <4> QED
          BY <2>2, <2>3, <4>1, <4>2 DEF StopInv
      <3> QED
        BY <3>1, <3>2
    <2> QED
      BY <1>4, <2>2, <2>3, Threads DEF StopInv
  <1>5. CASE Quiet
    BY <1>5, StopQuiet
  <1>6. CASE UNCHANGED vars
    BY <1>6, Zenon DEF vars, StopInv
  <1> QED
    BY <1>2, <1>3, <1>4, <1>5, <1>6, Cases, Zenon

(* The CSV has all of the journals, and t leaves no bin out. *)
Whole(t) ==
  /\ cache.bins = readings
  /\ csv = Table(readings, Signals(readings), noteLog, LastBin)
  /\ \A b \in Filled(readings) \cup NoteBins(noteLog) : b <= t

Finalising == job = "finalise"

(* The final export makes the CSV whole, with nothing recorded any more, and the
   workbook after it; exports of a complete run find nothing to change. *)
WholeInv ==
  /\ status = "complete" \/ (Finalising /\ export[Holder].step \in {"snapshot", "done"})
       => Whole(cache.through)
  /\ (Finalising \/ status = "complete") /\ export[Holder].step = "commit"
       => Whole(export[Holder].through)
  /\ status = "complete" \/ (Finalising /\ export[Holder].step = "done") => xlsx = Recorded

LEMMA WholeInitial ==
  ASSUME Init
  PROVE  WholeInv
  BY DEF Init, WholeInv, Finalising

(* Past the last bin with readings or notes there are no rows. *)
LEMMA SameTable ==
  ASSUME NEW counts, NEW columns, NEW t,
         \A b \in Filled(counts) \cup NoteBins(noteLog) : b <= t
  PROVE  Table(counts, columns, noteLog, t) = Table(counts, columns, noteLog, LastBin)
  <1>1. ASSUME NEW b \in Bins
        PROVE  (IF b <= t THEN RowsOf(counts, noteLog, b) ELSE <<>>)
               = IF b <= LastBin THEN RowsOf(counts, noteLog, b) ELSE <<>>
    <2>1. b <= LastBin
      BY BinFacts
    <2>2. CASE b \in Filled(counts) \cup NoteBins(noteLog)
      <3>1. b <= t
        BY <2>2
      <3> QED
        BY <2>1, <3>1
    <2>3. CASE b \notin Filled(counts) \cup NoteBins(noteLog)
      <3>1. RowsOf(counts, noteLog, b) = <<>>
        BY <2>3 DEF RowsOf
      <3> QED
        BY <2>1, <3>1
    <2> QED
      BY <2>2, <2>3
  <1>2. [b \in Bins |-> IF b <= t THEN RowsOf(counts, noteLog, b) ELSE <<>>]
        = [b \in Bins |-> IF b <= LastBin THEN RowsOf(counts, noteLog, b) ELSE <<>>]
    BY <1>1
  <1> QED
    BY <1>2, Zenon DEF Table

LEMMA ThroughAll ==
  ASSUME Held, \A b \in Filled(cache.bins) \cup NoteBins(noteLog) : b <= cache.through
  PROVE  Through(TRUE) = cache.through
  <1>0. cache.through \in Nat /\ noteLog \in Seq(NoteRecords) /\ LastBin \in Nat
    BY CacheFields, BinFacts DEF Held
  <1>1. PICK all \in SUBSET (1..LastBin) : all = Filled(cache.bins) \cup NoteBins(noteLog)
    BY <1>0, FilledFacts, NoteFacts
  <1>2. PICK n \in 0..LastBin : n = Latest(all) /\ n \in all \cup {0}
    BY <1>0, LatestIs
  <1>3. n <= cache.through /\ n \in Nat
    BY <1>0, <1>1, <1>2
  <1>4. Through(TRUE) = Larger(cache.through, n)
    BY <1>1, <1>2 DEF Through
  <1> QED
    BY <1>0, <1>3, <1>4 DEF Larger

LEMMA WholeStep ==
  ASSUME Recorder, CsvInv, StopInv, WholeInv, [Next]_vars
  PROVE  WholeInv'
  <1>0. /\ Held /\ DataInv /\ export \in [Exporters -> Exports] /\ cache.signals = Signals(cache.bins)
        /\ Holder \in Exporters
    BY Threads DEF Recorder, DataInv, Held, BinsInv
  <1>1. ASSUME UNCHANGED <<status, job>>, ~(status = "complete"), ~Finalising PROVE WholeInv'
    BY <1>1 DEF WholeInv, Finalising
  <1>2. CASE \E b \in Bins, c \in Channels : Record(b, c)
    <2>1. attached /\ UNCHANGED <<status, job>>
      BY <1>2 DEF Record
    <2> QED
      BY <1>1, <2>1 DEF StopInv, Finalising
  <1>3. CASE \E note \in NoteRecords : Annotate(note)
    <2>1. attached /\ UNCHANGED <<status, job>>
      BY <1>3 DEF Annotate
    <2> QED
      BY <1>1, <2>1 DEF StopInv, Finalising
  <1>4. ASSUME NEW e \in Exporters, Works(e), UNCHANGED <<readings, noteLog, status, job>>,
               UNCHANGED xlsx \/ Snapshot(e)
        PROVE  WholeInv'
    <2>1. SUFFICES ASSUME status = "complete" \/ Finalising PROVE WholeInv'
      BY <1>1, <1>4
    <2>2. /\ export[e].step \in {"ingest", "publish", "commit", "snapshot"}
          /\ export'[e].step \in {"publish", "commit", "snapshot", "done", "failed"}
      BY <1>0, <1>4, WorksDoes
    <2>3. export[Worker].step = "idle" /\ e = Holder
      BY <2>1, <2>2, Threads DEF StopInv, Finalising
    <2>4. export[Holder].final = TRUE
      <3>1. export[Holder].final \in BOOLEAN /\ export[Holder].step # "idle"
        BY <1>0, <2>2, <2>3, ExportFields
      <3> QED
        BY <2>1, <3>1 DEF StopInv, Finalising
    <2>5. ASSUME NEW s \in Steps, Goto(e, s) PROVE export'[Holder].step = s
      BY <1>0, <2>3, <2>5, Moves
    <2>6. "publish" \in Steps /\ "done" \in Steps /\ "failed" \in Steps
      BY DEF Steps
    <2>7. CASE Ingest(e)
      <3>1. cache'.bins = readings /\ cache'.through = cache.through
        BY <1>0, <2>7, IngestDoes
      <3>2. csv' = csv /\ export'[Holder].step = "publish" /\ ~Snapshot(e)
        BY <2>5, <2>6, <2>7 DEF Ingest, Snapshot, At
      <3>3. status = "complete" => Whole(cache.through) /\ xlsx = Recorded
        BY DEF WholeInv
      <3>4. status = "complete" => Whole(cache.through)'
        BY <1>4, <3>1, <3>2, <3>3 DEF Whole
      <3>5. Recorded' = Recorded /\ xlsx' = xlsx
        BY <1>4, <3>2 DEF Recorded
      <3> QED
        BY <1>4, <3>2, <3>3, <3>4, <3>5 DEF WholeInv, Finalising
    <2>8. CASE Publish(e)
      <3>1. cache.bins = readings /\ cache' = cache /\ ~Snapshot(e)
        BY <2>3, <2>4, <2>8 DEF StopInv, Publish, Snapshot, At, Past
      <3>2. PICK t : t = Through(TRUE) /\ \A b \in Filled(cache.bins) \cup NoteBins(noteLog) : b <= t
        BY <1>0, ThroughIs
      <3>3. /\ csv' = Table(cache.bins, cache.signals, noteLog, t)
            /\ export'[Holder].step = "commit" /\ export'[Holder].through = t
        BY <1>0, <2>3, <2>4, <2>8, <3>2, PublishDoes, PublishResult
      <3>4. csv' = Table(readings, Signals(readings), noteLog, LastBin)
        BY <1>0, <3>1, <3>2, <3>3, SameTable
      <3>5. Whole(export[Holder].through)'
        BY <1>4, <3>1, <3>2, <3>3, <3>4 DEF Whole
      <3>6. status = "complete" => Whole(cache.through) /\ xlsx = Recorded
        BY DEF WholeInv
      <3>7. status = "complete" => Whole(cache.through)'
        BY <1>4, <3>1, <3>4, <3>6 DEF Whole
      <3>8. Recorded' = Recorded /\ xlsx' = xlsx
        BY <1>4, <3>1 DEF Recorded
      <3> QED
        BY <1>4, <3>3, <3>5, <3>6, <3>7, <3>8 DEF WholeInv, Finalising
    <2>9. CASE Commit(e)
      <3>1. /\ cache'.bins = cache.bins /\ cache'.through = export[Holder].through
            /\ export'[Holder].step \in {"snapshot", "done"}
        BY <1>0, <2>3, <2>9, CommitDoes
      <3>2. csv' = csv /\ export[Holder].step = "commit" /\ ~Snapshot(e)
        BY <2>3, <2>9 DEF Commit, Snapshot, At
      <3>3. Whole(export[Holder].through)
        BY <2>1, <3>2 DEF WholeInv
      <3>4. Whole(cache.through)'
        BY <1>4, <3>1, <3>2, <3>3 DEF Whole
      <3>5. export[Holder].excel
        BY <3>2 DEF Recorder, TaskInv
      <3>6. export'[Holder].step = "snapshot"
        BY <1>0, <2>3, <2>9, <3>5, CommitDoes
      <3>7. Recorded' = Recorded /\ xlsx' = xlsx
        BY <1>4, <3>2 DEF Recorded
      <3>8. status = "complete" => xlsx = Recorded
        BY DEF WholeInv
      <3> QED
        BY <1>4, <3>4, <3>6, <3>7, <3>8 DEF WholeInv, Finalising
    <2>10. CASE Snapshot(e)
      <3>1. /\ export[Holder].step = "snapshot" /\ UNCHANGED <<cache, csv>>
            /\ xlsx' = [counts |-> cache.bins, notes |-> [b \in Bins |-> NoteCells(noteLog, b)]]
            /\ export'[Holder].step = "done"
        BY <2>3, <2>5, <2>6, <2>10 DEF Snapshot, At
      <3>2. Whole(cache.through)
        BY <2>1, <3>1 DEF WholeInv
      <3>3. cache.bins = readings
        BY <3>2 DEF Whole
      <3>4. xlsx' = Recorded'
        BY <1>4, <3>1, <3>3 DEF Recorded
      <3>5. Whole(cache.through)'
        BY <1>4, <3>1, <3>2 DEF Whole
      <3> QED
        BY <1>4, <3>1, <3>4, <3>5 DEF WholeInv
    <2>11. CASE ExportFails(e) \/ AppendFails(e)
      <3>1. cache' = cache /\ export'[Holder].step = "failed"
        BY <2>5, <2>6, <2>11 DEF AppendFails, ExportFails
      <3>2. status = "complete" => Whole(cache.through) /\ xlsx = Recorded
        BY DEF WholeInv
      <3>3. xlsx' = xlsx
        <4>1. Snapshot(e) => export'[Holder].step = "done"
          BY <2>5, <2>6 DEF Snapshot
        <4> QED
          BY <1>4, <3>1, <4>1
      <3>4. ASSUME status = "complete" PROVE csv' = csv
        <4>1. CASE AppendFails(e)
          <5>1. cache.through < Through(TRUE) /\ cache.through \in Nat
            BY <1>0, <2>3, <2>4, <4>1, CacheFields DEF AppendFails, Held
          <5>2. Through(TRUE) = cache.through
            BY <1>0, <3>2, <3>4, ThroughAll DEF Whole
          <5>3. PICK c \in Nat : c = cache.through
            BY <5>1
          <5>4. c < c
            BY <5>1, <5>2, <5>3, Zenon
          <5>5. FALSE
            BY <5>4
          <5> QED
            BY <5>5
        <4>2. CASE ExportFails(e)
          BY <4>2 DEF ExportFails
        <4> QED
          BY <2>11, <4>1, <4>2
      <3>5. status = "complete" => Whole(cache.through)'
        BY <1>4, <3>1, <3>2, <3>4 DEF Whole
      <3>6. Recorded' = Recorded
        BY <1>4 DEF Recorded
      <3> QED
        BY <1>4, <3>1, <3>2, <3>3, <3>5, <3>6 DEF WholeInv, Finalising
    <2> QED
      BY <1>4, <2>7, <2>8, <2>9, <2>10, <2>11, Zenon DEF Works
  <1>5. CASE Quiet
    <2>1. UNCHANGED <<readings, noteLog, cache, csv, xlsx>> /\ (status' = status \/ Closed)
      BY <1>5, QuietKeeps
    <2>2. export'[Holder] = export[Holder] \/ export'[Holder].step \in {"idle", "ingest"}
      BY <1>0, <1>5, QuietRests
    <2>3. Recorded' = Recorded /\ \A t : Whole(t)' <=> Whole(t)
      BY <2>1 DEF Recorded, Whole
    <2>4. CASE Closed
      <3>1. Finalising /\ export[Holder].step = "done" /\ status' = "complete"
        BY <2>4 DEF Closed, Finalising, At
      <3>2. export'[Holder].step = "idle"
        <4>1. export' = [export EXCEPT ![Holder] = Idle]
          BY <2>4 DEF Closed
        <4> QED
          BY <1>0, <4>1, Starts
      <3>3. Whole(cache.through) /\ xlsx = Recorded
        BY <3>1 DEF WholeInv
      <3> QED
        BY <2>1, <2>3, <3>2, <3>3 DEF WholeInv
    <2>5. CASE ~Closed
      <3>1. status' = status
        BY <2>1, <2>5
      <3>2. job' = "finalise" => job = "finalise" \/ export'[Holder].step = "ingest"
        <4>1. CASE Finalise
          <5>1. export' = [export EXCEPT ![Holder] = Begun(TRUE, TRUE)]
            BY <4>1 DEF Finalise
          <5> QED
            BY <1>0, <5>1, Starts
        <4>2. CASE ~Finalise
          BY <1>5, <2>5, <4>2, Zenon DEF Quiet, Holding, WorkerStarts, WorkerEnds, RequestQueued, RequestFolder,
                                     RequestEnds, Stop, Close, CloseFails, ProcessEnds
        <4> QED
          BY <4>1, <4>2
      <3>3. /\ status' = "complete" => Whole(cache.through)' /\ xlsx' = Recorded'
            /\ Finalising' /\ export'[Holder].step \in {"snapshot", "done"} => Whole(cache.through)'
        BY <2>1, <2>2, <2>3, <3>1, <3>2 DEF WholeInv, Finalising
      <3>4. (Finalising' \/ status' = "complete") /\ export'[Holder].step = "commit"
              => Whole(export[Holder].through)'
        BY <2>2, <2>3, <3>1, <3>2 DEF WholeInv, Finalising
      <3>5. Finalising' /\ export'[Holder].step = "done" => xlsx' = Recorded'
        BY <2>1, <2>2, <2>3, <3>2 DEF WholeInv, Finalising
      <3> QED
        BY <3>3, <3>4, <3>5 DEF WholeInv
    <2> QED
      BY <2>4, <2>5
  <1>6. CASE UNCHANGED vars
    <2>1. UNCHANGED <<readings, noteLog, cache, csv, xlsx, status, job, export>>
      BY <1>6 DEF vars
    <2>2. Recorded' = Recorded /\ \A t : Whole(t)' <=> Whole(t)
      BY <2>1 DEF Recorded, Whole
    <2> QED
      BY <2>1, <2>2 DEF WholeInv, Finalising
  <1> QED
    BY <1>2, <1>3, <1>4, <1>5, <1>6, Cases, Zenon

(* The invariant of the recording and its exports. *)
IInv == Recorder /\ LockInv /\ CsvInv /\ StopInv /\ WholeInv

LEMMA Invariance == Spec => []IInv
  <1>1. Init => IInv
    BY RecorderInitial, CsvInitial, StopInitial, WholeInitial DEF IInv
  <1>2. IInv /\ [Next]_vars => IInv'
    BY RecorderStep, LockStep, CsvStep, StopStep, WholeStep DEF IInv
  <1> QED
    BY <1>1, <1>2, PTL DEF Spec

(* A run is marked complete only with every reading and note in its CSV and in
   its workbook, and exporting it again never takes any out, whatever fails. *)
THEOREM CompleteRunsAreWhole == Spec => []CompleteIsWhole
  <1>1. IInv => CompleteIsWhole
    BY DEF IInv, WholeInv, Whole, CompleteIsWhole
  <1> QED
    BY <1>1, Invariance, PTL

(***************************************************************************)
(* The CSV keeps what its readers are promised.                            *)
(***************************************************************************)

(* What a reader sees of a file: the readings in each row. *)
View(file) == [b \in Bins |-> [i \in DOMAIN file.rows[b] |-> file.rows[b][i].counts]]

LEMMA ViewIs ==
  ASSUME NEW f \in Files, NEW b \in Bins
  PROVE  /\ f.rows[b] = <<>> => View(f)[b] = <<>>
         /\ Len(f.rows[b]) = 1 =>
              /\ View(f)[b] = <<f.rows[b][1].counts>>
              /\ Len(View(f)[b]) = 1 /\ View(f)[b] # <<>>
              /\ View(f)[b][1] = f.rows[b][1].counts
  <1>0. f.rows[b] \in Seq(Rows)
    BY FileFields
  <1>1. PICK rows \in Seq(Rows) : rows = f.rows[b] /\ Len(rows) \in Nat /\ DOMAIN rows = 1..Len(rows)
    BY <1>0, LenProperties
  <1>2. PICK v : v = [i \in 1..Len(rows) |-> rows[i].counts]
    OBVIOUS
  <1>3. View(f)[b] = v
    BY <1>1, <1>2 DEF View
  <1>4. ASSUME NEW i \in 1..Len(rows) PROVE rows[i].counts \in [Channels -> Nat]
    <2>1. rows[i] \in Rows
      BY <1>1, ElementOfSeq
    <2> QED
      BY <2>1 DEF Rows
  <1>5. v \in [1..Len(rows) -> [Channels -> Nat]]
    BY <1>2, <1>4
  <1>6. v \in Seq([Channels -> Nat])
    BY <1>1, <1>5, IsASeq
  <1>7. Len(v) = Len(rows)
    BY <1>1, <1>5, <1>6, LenProperties
  <1>8. CASE rows = <<>>
    <2>1. Len(v) = 0
      BY <1>7, <1>8, EmptySeq
    <2>2. v = <<>>
      BY <1>6, <2>1, EmptySeq
    <2>3. Len(rows) # 1
      BY <1>7, <2>1
    <2> QED
      BY <1>1, <1>3, <2>2, <2>3
  <1>9. CASE rows # <<>> /\ Len(rows) = 1
    <2>1. Len(v) = 1 /\ v[1] = rows[1].counts
      BY <1>2, <1>7, <1>9
    <2>2. v = <<v[1]>>
      <3>1. PICK x \in [Channels -> Nat] : x = v[1]
        BY <1>5, <1>9
      <3>2. <<x>> \in Seq([Channels -> Nat]) /\ Len(<<x>>) = 1 /\ <<x>>[1] = x
        OBVIOUS
      <3>3. \A i \in 1..Len(v) : v[i] = <<x>>[i]
        BY <2>1, <3>1, <3>2
      <3>4. v = <<x>>
        BY <1>6, <2>1, <3>2, <3>3, SeqEqual
      <3> QED
        BY <3>1, <3>4
    <2>3. v # <<>>
      <3>1. Len(<<>>) = 0 /\ 1 # 0
        OBVIOUS
      <3> QED
        BY <2>1, <3>1, Zenon
    <2> QED
      BY <1>1, <1>3, <1>9, <2>1, <2>2, <2>3
  <1> QED
    BY <1>1, <1>8, <1>9

(* A row stands alone in its bin and claims no more than the cache has counted.
   Rows past what was committed, of an export that did not come to its end, are
   of bins that later readings had settled, or of a recording that had stopped. *)
RowInv ==
  \A b \in Bins : csv.rows[b] # <<>> =>
    /\ Len(csv.rows[b]) = 1
    /\ \A c \in Channels : csv.rows[b][1].counts[c] <= cache.bins[b][c]
    /\ \/ b <= cache.through
       \/ \E later \in Filled(cache.bins) : b + Lag <= later
       \/ ~attached /\ cache.bins = readings

(* An export reaches every bin that readings Lag bins later have settled. *)
LEMMA ThroughReaches ==
  ASSUME Held, NEW f \in BOOLEAN, NEW b \in Bins, NEW later \in Filled(cache.bins), b + Lag <= later
  PROVE  b <= Through(f)
  <1>1. cache.through \in Nat /\ noteLog \in Seq(NoteRecords) /\ LastBin \in Nat /\ Lag \in Nat /\ b \in Nat
    BY CacheFields, BinFacts DEF Held
  <1>2. PICK filled \in SUBSET (1..LastBin) : filled = Filled(cache.bins)
    BY FilledFacts
  <1>3. PICK all \in SUBSET (1..LastBin) : all = filled \cup NoteBins(noteLog)
    BY <1>1, NoteFacts
  <1>4. PICK m \in 0..LastBin : m = Latest(filled) /\ \A o \in filled : o <= m
    BY <1>1, LatestIs
  <1>5. PICK n \in 0..LastBin : n = Latest(all) /\ \A o \in all : o <= n
    BY <1>1, LatestIs
  <1>6. later \in Nat /\ later <= m /\ later <= n /\ m \in Nat /\ n \in Nat
    <2>1. later \in filled /\ later \in all
      BY <1>2, <1>3
    <2>2. later <= m /\ later <= n
      BY <1>4, <1>5, <2>1
    <2>3. later \in Nat /\ m \in Nat /\ n \in Nat
      BY <1>1, <2>1
    <2> QED
      BY <2>2, <2>3
  <1>7. PICK reach : reach = IF f THEN n ELSE IF m > Lag THEN m - Lag ELSE 0
    OBVIOUS
  <1>8. Through(f) = Larger(cache.through, reach)
    BY <1>2, <1>3, <1>4, <1>5, <1>7 DEF Through
  <1>9. b # 0
    BY BinFacts
  <1>10. reach \in Nat /\ b <= reach
    <2>1. CASE f
      <3>1. reach = n
        BY <1>7, <2>1
      <3> QED
        BY <1>1, <1>6, <3>1
    <2>2. CASE ~f
      <3>1. m > Lag /\ b <= m - Lag /\ m - Lag \in Nat
        BY <1>1, <1>6, <1>9
      <3>2. reach = m - Lag
        BY <1>7, <2>2, <3>1
      <3> QED
        BY <3>1, <3>2
    <2> QED
      BY <2>1, <2>2
  <1>11. Through(f) \in Nat /\ reach <= Through(f)
    BY <1>1, <1>8, <1>10, LargerIs
  <1> QED
    BY <1>1, <1>10, <1>11

(* What is newly written is of bins that are settled, or of a stopped recording. *)
LEMMA WrittenMay ==
  ASSUME Held, StopInv, NEW e \in Exporters, export[e].step = "publish",
         NEW b \in Bins, b <= Through(export[e].final)
  PROVE  \/ b <= cache.through
         \/ \E later \in Filled(cache.bins) : b + Lag <= later
         \/ ~attached /\ cache.bins = readings
  <1>0. export[e].final \in BOOLEAN
    BY ExportFields DEF Held
  <1>1. CASE export[e].final
    BY <1>1 DEF StopInv, Past
  <1>2. CASE ~export[e].final
    <2>0. b \in Nat /\ Lag \in Nat /\ cache.through \in Nat
      BY BinFacts, CacheFields DEF Held
    <2>1. PICK t \in Nat : t = Through(export[e].final) /\ b <= t
      BY <1>0, ThroughIs
    <2>2. t = cache.through \/ \E m \in Filled(cache.bins) : t + Lag = m
      BY <1>0, <1>2, <2>1, ThroughIs
    <2>3. CASE t = cache.through
      BY <2>1, <2>3
    <2>4. ASSUME NEW m \in Filled(cache.bins), t + Lag = m PROVE b + Lag <= m
      <3>1. b + Lag <= t + Lag
        BY <2>0, <2>1
      <3> QED
        BY <2>4, <3>1
    <2> QED
      BY <2>2, <2>3, <2>4
  <1> QED
    BY <1>0, <1>1, <1>2

(* Each row of a table is made of the readings of its bin. *)
LEMMA TableRows ==
  ASSUME Held, NEW t, NEW b \in Bins
  PROVE  \E f \in Files :
           /\ f = Table(cache.bins, cache.signals, noteLog, t)
           /\ f.rows[b] # <<>> => /\ Len(f.rows[b]) = 1 /\ f.rows[b][1].counts = cache.bins[b]
                                  /\ b <= t
           /\ f.rows[b] = <<>> => ~(b <= t) \/ b \notin Filled(cache.bins)
           /\ f.rows[b] = <<>> \/ Len(f.rows[b]) = 1
  <1>0. cache.bins \in Counts /\ noteLog \in Seq(NoteRecords)
    BY CacheFields DEF Held
  <1>1. PICK f \in Files :
          /\ f = Table(cache.bins, cache.signals, noteLog, t)
          /\ b <= t => f.rows[b] = RowsOf(cache.bins, noteLog, b)
          /\ ~(b <= t) => f.rows[b] = <<>>
    BY TableOf
  <1>2. PICK rows \in Seq(Rows) :
          /\ rows = RowsOf(cache.bins, noteLog, b)
          /\ b \in Filled(cache.bins) \cup NoteBins(noteLog) => Len(rows) = 1 /\ rows[1].counts = cache.bins[b]
          /\ b \notin Filled(cache.bins) \cup NoteBins(noteLog) => rows = <<>>
    BY <1>0, RowsOfIs
  <1>3. Len(<<>>) = 0
    OBVIOUS
  <1>4. CASE b <= t
    <2>1. f.rows[b] = rows
      BY <1>1, <1>2, <1>4
    <2> QED
      BY <1>1, <1>2, <1>3, <1>4, <2>1
  <1>5. CASE ~(b <= t)
    BY <1>1, <1>5
  <1> QED
    BY <1>4, <1>5

LEMMA RowInitial ==
  ASSUME Init
  PROVE  RowInv
  <1>1. \A b \in Bins : csv.rows[b] = <<>>
    BY NoFileIs DEF Init, ExportInit
  <1> QED
    BY <1>1 DEF RowInv

(* The file an append that failed has left: rows of the cache's bins, added to
   the table it was. *)
LEMMA AppendedRows ==
  ASSUME Held, CsvInv, NEW e \in Exporters, AppendFails(e)
  PROVE  \E upto \in Nat :
           /\ upto <= Through(export[e].final)
           /\ csv' \in Files
           /\ \A b \in Bins :
                \/ csv'.rows[b] = csv.rows[b]
                \/ /\ csv.rows[b] = <<>> /\ b <= upto
                   /\ csv'.rows[b] = RowsOf(cache.bins, noteLog, b)
  <1>0. /\ cache.bins \in Counts /\ noteLog \in Seq(NoteRecords) /\ cache.through \in Nat
        /\ export[e].final \in BOOLEAN
    BY CacheFields, ExportFields DEF Held
  <1>1. PICK t \in Nat : t = Through(export[e].final)
    BY <1>0, ThroughIs
  <1>2. PICK upto \in cache.through..t :
          /\ upto \in Nat /\ csv' \in Files
          /\ csv'.rows = Appended(cache.bins, noteLog, cache.through, upto).rows
    BY <1>1, AppendFailsDoes
  <1>3. upto <= t
    BY <1>0, <1>1, <1>2
  <1>4. csv = ToThere
    BY CsvKnown DEF AppendFails
  <1>5. PICK f \in Files :
          /\ f = Table(cache.bins, cache.signals, noteLog, cache.through)
          /\ \A b \in Bins : ~(b <= cache.through) => f.rows[b] = <<>>
    BY TableOf
  <1>6. ASSUME NEW b \in Bins
        PROVE  \/ csv'.rows[b] = csv.rows[b]
               \/ /\ csv.rows[b] = <<>> /\ b <= upto
                  /\ csv'.rows[b] = RowsOf(cache.bins, noteLog, b)
    <2>0. b \in Nat /\ RowsOf(cache.bins, noteLog, b) \in Seq(Rows)
      BY <1>0, BinFacts, RowsOfIs
    <2>1. PICK a : a = Appended(cache.bins, noteLog, cache.through, upto)
      OBVIOUS
    <2>2. a.rows[b] = IF cache.through < b /\ b <= upto THEN csv.rows[b] \o RowsOf(cache.bins, noteLog, b)
                                                        ELSE csv.rows[b]
      BY <2>1, AppendedIs
    <2>3. CASE cache.through < b /\ b <= upto
      <3>1. ~(b <= cache.through)
        BY <1>0, <2>0, <2>3
      <3>2. csv.rows[b] = <<>>
        BY <1>4, <1>5, <3>1 DEF ToThere
      <3>3. a.rows[b] = <<>> \o RowsOf(cache.bins, noteLog, b)
        BY <2>2, <2>3, <3>2
      <3>4. a.rows[b] = RowsOf(cache.bins, noteLog, b)
        BY <2>0, <3>3, ConcatEmptySeq
      <3> QED
        BY <1>2, <2>1, <2>3, <3>2, <3>4
    <2>4. CASE ~(cache.through < b /\ b <= upto)
      BY <1>2, <2>1, <2>2, <2>4
    <2> QED
      BY <2>3, <2>4
  <1> QED
    BY <1>1, <1>2, <1>3, <1>6

LEMMA RowStep ==
  ASSUME Recorder, CsvInv, StopInv, RowInv, [Next]_vars
  PROVE  RowInv'
  <1>0. /\ Held /\ DataInv /\ cache.bins \in Counts /\ readings \in Counts /\ Within(cache.bins, readings)
        /\ export \in [Exporters -> Exports] /\ csv \in Files /\ cache.through \in Nat
    BY CacheFields DEF Recorder, DataInv, Held, BinsInv
  <1>1. ASSUME UNCHANGED <<csv, cache>>, readings' = readings \/ attached, attached' => attached
        PROVE  RowInv'
    <2>1. Filled(cache.bins)' = Filled(cache.bins)
      BY <1>1 DEF Filled
    <2> QED
      BY <1>1, <2>1 DEF RowInv
  <1>2. CASE \E b \in Bins, c \in Channels : Record(b, c)
    BY <1>1, <1>2 DEF Record
  <1>3. CASE \E note \in NoteRecords : Annotate(note)
    BY <1>1, <1>3 DEF Annotate
  <1>4. ASSUME NEW e \in Exporters, Works(e), UNCHANGED <<readings, noteLog, attached>>
        PROVE  RowInv'
    <2>1. CASE Ingest(e)
      <3>1. cache'.bins = readings /\ cache'.through = cache.through /\ csv' = csv
        BY <1>0, <2>1, IngestDoes DEF Ingest
      <3>2. ASSUME NEW b \in Bins, csv.rows[b] # <<>>
            PROVE  /\ Len(csv.rows[b]) = 1
                   /\ \A c \in Channels : csv.rows[b][1].counts[c] <= readings[b][c]
                   /\ \/ b <= cache.through
                      \/ \E later \in Filled(readings) : b + Lag <= later
                      \/ ~attached /\ cache'.bins = readings
        <4>1. /\ Len(csv.rows[b]) = 1
              /\ \A c \in Channels : csv.rows[b][1].counts[c] <= cache.bins[b][c]
              /\ \/ b <= cache.through
                 \/ \E later \in Filled(cache.bins) : b + Lag <= later
                 \/ ~attached
          BY <3>2 DEF RowInv
        <4>2. csv.rows[b] \in Seq(Rows) /\ csv.rows[b][1] \in Rows
          <5>1. csv.rows[b] \in Seq(Rows) /\ 1 \in 1..Len(csv.rows[b])
            BY <1>0, <4>1, FileFields
          <5> QED
            BY <5>1, ElementOfSeq
        <4>3. ASSUME NEW c \in Channels PROVE csv.rows[b][1].counts[c] <= readings[b][c]
          <5>1. csv.rows[b][1].counts[c] \in Nat
            BY <4>2 DEF Rows
          <5>2. PICK n \in Nat, m \in Nat, r \in Nat :
                  n = csv.rows[b][1].counts[c] /\ m = cache.bins[b][c] /\ r = readings[b][c]
            BY <1>0, <5>1, CountFields
          <5>3. n <= m /\ m <= r
            BY <1>0, <4>1, <5>2 DEF Within
          <5>4. n <= r
            BY <5>3
          <5> QED
            BY <5>2, <5>4
        <4>4. Filled(cache.bins) \subseteq Filled(readings)
          <5>1. ASSUME NEW p \in Bins, NEW c \in Channels, cache.bins[p][c] > 0 PROVE readings[p][c] > 0
            <6>1. cache.bins[p][c] \in Nat /\ readings[p][c] \in Nat /\ cache.bins[p][c] <= readings[p][c]
              BY <1>0, CountFields DEF Within
            <6> QED
              BY <5>1, <6>1
          <5> QED
            BY <5>1 DEF Filled
        <4> QED
          BY <3>1, <4>1, <4>3, <4>4
      <3>3. Filled(cache.bins)' = Filled(readings)
        BY <3>1 DEF Filled
      <3> QED
        BY <1>4, <3>1, <3>2, <3>3 DEF RowInv
    <2>2. CASE Publish(e)
      <3>1. cache' = cache /\ export[e].step = "publish"
        BY <2>2 DEF Publish, At
      <3>2. PICK t : t = Through(export[e].final) /\ csv' = Table(cache.bins, cache.signals, noteLog, t)
        BY <1>0, <2>2, PublishResult
      <3>3. ASSUME NEW b \in Bins, csv'.rows[b] # <<>>
            PROVE  /\ Len(csv'.rows[b]) = 1
                   /\ \A c \in Channels : csv'.rows[b][1].counts[c] <= cache.bins[b][c]
                   /\ \/ b <= cache.through
                      \/ \E later \in Filled(cache.bins) : b + Lag <= later
                      \/ ~attached /\ cache.bins = readings
        <4>1. PICK f \in Files :
                /\ f = Table(cache.bins, cache.signals, noteLog, t)
                /\ f.rows[b] # <<>> => /\ Len(f.rows[b]) = 1 /\ f.rows[b][1].counts = cache.bins[b]
                                       /\ b <= t
          BY <1>0, TableRows
        <4>2. Len(csv'.rows[b]) = 1 /\ csv'.rows[b][1].counts = cache.bins[b] /\ b <= t
          BY <3>2, <3>3, <4>1
        <4>3. \A c \in Channels : cache.bins[b][c] \in Nat /\ cache.bins[b][c] <= cache.bins[b][c]
          BY <1>0, CountFields
        <4>4. \/ b <= cache.through
              \/ \E later \in Filled(cache.bins) : b + Lag <= later
              \/ ~attached /\ cache.bins = readings
          BY <1>0, <3>1, <3>2, <4>2, WrittenMay
        <4> QED
          BY <4>2, <4>3, <4>4
      <3>4. Filled(cache.bins)' = Filled(cache.bins)
        BY <3>1 DEF Filled
      <3> QED
        BY <1>4, <3>1, <3>3, <3>4 DEF RowInv
    <2>3. CASE Commit(e)
      <3>1. /\ cache'.bins = cache.bins /\ cache'.through = export[e].through
            /\ csv' = csv /\ export[e].step = "commit"
        BY <1>0, <2>3, CommitDoes DEF Commit, At
      <3>2. PICK t \in Nat : t = export[e].through
        <4>1. export[e].through \in 0..LastBin /\ LastBin \in Nat
          BY <1>0, ExportFields, BinFacts
        <4> QED
          BY <4>1
      <3>3. cache.through <= t
        BY <3>1, <3>2 DEF CsvInv
      <3>4. ASSUME NEW b \in Bins, b <= cache.through PROVE b <= t
        <4>1. b \in Nat
          BY BinFacts
        <4> QED
          BY <1>0, <3>2, <3>3, <3>4, <4>1
      <3>5. Filled(cache.bins)' = Filled(cache.bins)
        BY <3>1 DEF Filled
      <3> QED
        BY <1>4, <3>1, <3>2, <3>4, <3>5 DEF RowInv
    <2>4. CASE Snapshot(e) \/ ExportFails(e)
      BY <1>1, <1>4, <2>4 DEF Snapshot, ExportFails
    <2>5. CASE AppendFails(e)
      <3>1. cache' = cache /\ export[e].step = "publish" /\ export[e].final \in BOOLEAN
        BY <1>0, <2>5, ExportFields DEF AppendFails, At
      <3>2. PICK upto \in Nat :
              /\ upto <= Through(export[e].final)
              /\ \A b \in Bins :
                   \/ csv'.rows[b] = csv.rows[b]
                   \/ b <= upto /\ csv'.rows[b] = RowsOf(cache.bins, noteLog, b)
        BY <1>0, <2>5, AppendedRows
      <3>3. ASSUME NEW b \in Bins, csv'.rows[b] # <<>>, b <= upto,
                   csv'.rows[b] = RowsOf(cache.bins, noteLog, b)
            PROVE  /\ Len(csv'.rows[b]) = 1
                   /\ \A c \in Channels : csv'.rows[b][1].counts[c] <= cache.bins[b][c]
                   /\ \/ b <= cache.through
                      \/ \E later \in Filled(cache.bins) : b + Lag <= later
                      \/ ~attached /\ cache.bins = readings
        <4>1. Len(csv'.rows[b]) = 1 /\ csv'.rows[b][1].counts = cache.bins[b]
          BY <1>0, <3>3, RowsOfIs DEF Held
        <4>2. \A c \in Channels : cache.bins[b][c] \in Nat /\ cache.bins[b][c] <= cache.bins[b][c]
          BY <1>0, CountFields
        <4>3. b <= Through(export[e].final)
          <5>1. b \in Nat /\ Through(export[e].final) \in Nat
            BY <1>0, <3>1, BinFacts, ThroughIs
          <5> QED
            BY <3>2, <3>3, <5>1
        <4> QED
          BY <1>0, <3>1, <4>1, <4>2, <4>3, WrittenMay
      <3>4. ASSUME NEW b \in Bins, csv'.rows[b] # <<>>
            PROVE  /\ Len(csv'.rows[b]) = 1
                   /\ \A c \in Channels : csv'.rows[b][1].counts[c] <= cache.bins[b][c]
                   /\ \/ b <= cache.through
                      \/ \E later \in Filled(cache.bins) : b + Lag <= later
                      \/ ~attached /\ cache.bins = readings
        BY <3>2, <3>3, <3>4 DEF RowInv
      <3>5. Filled(cache.bins)' = Filled(cache.bins)
        BY <3>1 DEF Filled
      <3> QED
        BY <1>4, <3>1, <3>4, <3>5 DEF RowInv
    <2> QED
      BY <1>4, <2>1, <2>2, <2>3, <2>4, <2>5, Zenon DEF Works
  <1>5. CASE Quiet
    <2>1. UNCHANGED <<readings, cache, csv>>
      BY <1>5, QuietKeeps
    <2>2. attached' => attached
      BY <1>5, Zenon DEF Quiet, Holding, WorkerStarts, WorkerEnds, RequestQueued, RequestFolder, RequestEnds,
                         Stop, Close, Finalise, CloseFails, Closed, ProcessEnds
    <2> QED
      BY <1>1, <2>1, <2>2
  <1>6. CASE UNCHANGED vars
    BY <1>1, <1>6 DEF vars
  <1> QED
    BY <1>2, <1>3, <1>4, <1>5, <1>6, Cases, Zenon

(* Nothing an export does to a complete run changes its CSV. *)
LEMMA CompleteStays ==
  ASSUME IInv, status = "complete", NEW e \in Exporters, Works(e)
  PROVE  csv' = csv
  <1>0. /\ Held /\ DataInv /\ Whole(cache.through) /\ cache.signals = Signals(cache.bins)
        /\ Recorder /\ CsvInv /\ StopInv /\ cache.through \in Nat
    BY CacheFields DEF IInv, Recorder, DataInv, Held, WholeInv, BinsInv
  <1>1. export[e].step # "idle"
    BY <1>0, WorksDoes
  <1>2. e = Holder /\ export[e].final = TRUE
    <2>1. e = Holder
      BY <1>0, <1>1, Threads DEF StopInv
    <2>2. export[e].final \in BOOLEAN
      BY <1>0, ExportFields DEF Held
    <2> QED
      BY <1>0, <1>1, <2>1, <2>2 DEF StopInv
  <1>3. Through(export[e].final) = cache.through
    <2>1. Through(TRUE) = cache.through
      BY <1>0, ThroughAll DEF Whole
    <2> QED
      BY <1>2, <2>1
  <1>4. CASE Publish(e)
    <2>1. csv' = Table(cache.bins, cache.signals, noteLog, cache.through)
      BY <1>0, <1>3, <1>4, PublishResult
    <2>2. Table(cache.bins, cache.signals, noteLog, cache.through)
          = Table(cache.bins, cache.signals, noteLog, LastBin)
      BY <1>0, SameTable DEF Whole
    <2> QED
      BY <1>0, <2>1, <2>2 DEF Whole
  <1>5. CASE AppendFails(e)
    <2>1. cache.through < cache.through
      BY <1>3, <1>5, Zenon DEF AppendFails
    <2>2. FALSE
      BY <1>0, <2>1
    <2> QED
      BY <2>2
  <1>6. CASE Ingest(e) \/ Commit(e) \/ Snapshot(e) \/ ExportFails(e)
    BY <1>6 DEF Ingest, Commit, Snapshot, ExportFails
  <1> QED
    BY <1>4, <1>5, <1>6 DEF Works

(* What replacing a row, adding one, or taking it out may mean for a reader. *)
MayBecome(was, is, b) ==
  \/ is = was
  \/ is = <<>> /\ (was = <<NoReadings[b]>> \/ ~Promise!Settled(b))
  \/ /\ Len(is) = 1
     /\ \A c \in Channels : is[1][c] <= readings[b][c]
     /\ was # <<>> => \A c \in Channels : was[1][c] <= is[1][c]

LEMMA RowsRefresh ==
  ASSUME IInv, RowInv, NEW e \in Exporters, Publish(e) \/ AppendFails(e), NEW b \in Bins
  PROVE  MayBecome(View(csv)[b], View(csv')[b], b)
  <1>0. /\ Held /\ DataInv /\ cache.bins \in Counts /\ readings \in Counts /\ Within(cache.bins, readings)
        /\ csv \in Files /\ cache.through \in Nat /\ CsvInv /\ export[e].final \in BOOLEAN
        /\ noteLog \in Seq(NoteRecords)
    BY CacheFields, ExportFields DEF IInv, Recorder, DataInv, Held, BinsInv
  <1>1. csv' \in Files
    BY <1>0, PublishDoes, AppendFailsDoes
  <1>2. /\ csv.rows[b] = <<>> => View(csv)[b] = <<>>
        /\ Len(csv.rows[b]) = 1 => View(csv)[b] = <<csv.rows[b][1].counts>>
                                   /\ View(csv)[b][1] = csv.rows[b][1].counts
    BY <1>0, ViewIs
  <1>3. /\ csv'.rows[b] = <<>> => View(csv')[b] = <<>>
        /\ Len(csv'.rows[b]) = 1 => Len(View(csv')[b]) = 1 /\ View(csv')[b][1] = csv'.rows[b][1].counts
    BY <1>1, ViewIs
  <1>4. csv.rows[b] # <<>> =>
          /\ Len(csv.rows[b]) = 1
          /\ \A c \in Channels : csv.rows[b][1].counts[c] <= cache.bins[b][c]
          /\ \/ b <= cache.through
             \/ \E later \in Filled(cache.bins) : b + Lag <= later
             \/ cache.bins = readings
    BY DEF RowInv
  <1>5. \A c \in Channels : cache.bins[b][c] <= readings[b][c]
    BY <1>0 DEF Within
  <1>6. ASSUME Len(csv'.rows[b]) = 1, csv'.rows[b][1].counts = cache.bins[b]
        PROVE  MayBecome(View(csv)[b], View(csv')[b], b)
    <2>1. Len(View(csv')[b]) = 1 /\ View(csv')[b][1] = cache.bins[b]
      BY <1>3, <1>6
    <2>2. View(csv)[b] # <<>> => \A c \in Channels : View(csv)[b][1][c] <= cache.bins[b][c]
      BY <1>2, <1>4
    <2> QED
      BY <1>5, <2>1, <2>2 DEF MayBecome
  <1>7. CASE AppendFails(e)
    <2>1. PICK upto \in Nat :
            \/ csv'.rows[b] = csv.rows[b]
            \/ csv.rows[b] = <<>> /\ csv'.rows[b] = RowsOf(cache.bins, noteLog, b)
      BY <1>0, <1>7, AppendedRows
    <2>2. CASE csv'.rows[b] = csv.rows[b]
      <3>1. View(csv')[b] = View(csv)[b]
        BY <2>2 DEF View
      <3> QED
        BY <3>1 DEF MayBecome
    <2>3. CASE csv.rows[b] = <<>> /\ csv'.rows[b] = RowsOf(cache.bins, noteLog, b)
      <3>1. CASE csv'.rows[b] = <<>>
        BY <1>2, <1>3, <2>3, <3>1 DEF MayBecome
      <3>2. CASE csv'.rows[b] # <<>>
        <4>1. Len(csv'.rows[b]) = 1 /\ csv'.rows[b][1].counts = cache.bins[b]
          BY <1>0, <2>3, <3>2, RowsOfIs
        <4> QED
          BY <1>6, <4>1
      <3> QED
        BY <3>1, <3>2
    <2> QED
      BY <2>1, <2>2, <2>3
  <1>8. CASE Publish(e)
    <2>1. PICK t \in Nat : /\ t = Through(export[e].final) /\ cache.through <= t
                           /\ csv' = Table(cache.bins, cache.signals, noteLog, t)
      BY <1>0, <1>8, ThroughIs, PublishResult
    <2>2. PICK f \in Files :
            /\ f = Table(cache.bins, cache.signals, noteLog, t)
            /\ f.rows[b] # <<>> => Len(f.rows[b]) = 1 /\ f.rows[b][1].counts = cache.bins[b]
            /\ f.rows[b] = <<>> => ~(b <= t) \/ b \notin Filled(cache.bins)
      BY <1>0, TableRows
    <2>3. f = csv'
      BY <2>1, <2>2
    <2>4. CASE csv'.rows[b] # <<>>
      BY <1>6, <2>2, <2>3, <2>4
    <2>5. CASE csv'.rows[b] = <<>> /\ csv.rows[b] = <<>>
      BY <1>2, <1>3, <2>5 DEF MayBecome
    <2>6. CASE csv'.rows[b] = <<>> /\ csv.rows[b] # <<>>
      <3>1. ~(b <= t) \/ b \notin Filled(cache.bins)
        BY <2>2, <2>3, <2>6
      <3>2. Len(csv.rows[b]) = 1 /\ View(csv)[b] = <<csv.rows[b][1].counts>>
        BY <1>2, <1>4, <2>6
      <3>3. CASE b \notin Filled(cache.bins)
        <4>1. csv.rows[b][1] \in Rows
          <5>1. csv.rows[b] \in Seq(Rows) /\ 1 \in 1..Len(csv.rows[b])
            BY <1>0, <3>2, FileFields
          <5> QED
            BY <5>1, ElementOfSeq
        <4>2. PICK n \in [Channels -> Nat] : n = csv.rows[b][1].counts
          BY <4>1 DEF Rows
        <4>3. ASSUME NEW c \in Channels PROVE n[c] = 0
          <5>1. cache.bins[b][c] \in Nat /\ ~(cache.bins[b][c] > 0)
            BY <1>0, <3>3, CountFields DEF Filled
          <5>2. PICK m \in Nat : m = cache.bins[b][c] /\ ~(m > 0)
            BY <5>1
          <5>3. n[c] \in Nat /\ n[c] <= m
            BY <1>4, <2>6, <4>2, <5>2
          <5> QED
            BY <5>2, <5>3
        <4>4. n = NoReadings[b]
          BY <4>3 DEF NoReadings
        <4>5. View(csv)[b] = <<NoReadings[b]>> /\ View(csv')[b] = <<>>
          BY <1>3, <2>6, <3>2, <4>2, <4>4
        <4> QED
          BY <4>5 DEF MayBecome
      <3>4. CASE ~(b <= t)
        <4>1. ~(b <= cache.through)
          <5>1. b \in Nat
            BY BinFacts
          <5> QED
            BY <1>0, <2>1, <3>4, <5>1
        <4>2. ~\E later \in Filled(cache.bins) : b + Lag <= later
          BY <1>0, <2>1, <3>4, ThroughReaches
        <4>3. cache.bins = readings
          BY <1>4, <2>6, <4>1, <4>2
        <4>4. ~Promise!Settled(b)
          <5>1. SUFFICES ASSUME NEW later \in Bins, b + Lag <= later,
                                readings[later] # [c \in Channels |-> 0]
                         PROVE  FALSE
            BY Zenon DEF Promise!Settled, Promise!NoReadings
          <5>2. \A c \in Channels : readings[later][c] \in Nat
            BY <1>0, CountFields
          <5>3. readings[later] \in [Channels -> Nat]
            BY <1>0, CountFields
          <5>4. \E c \in Channels : readings[later][c] # 0
            BY <5>1, <5>3
          <5>5. later \in Filled(readings)
            BY <5>2, <5>4 DEF Filled
          <5> QED
            BY <4>2, <4>3, <5>1, <5>5
        <4> QED
          BY <1>3, <2>6, <4>4 DEF MayBecome
      <3> QED
        BY <3>1, <3>3, <3>4
    <2> QED
      BY <2>4, <2>5, <2>6
  <1> QED
    BY <1>7, <1>8
LEMMA Unseen ==
  ASSUME UNCHANGED <<readings, csv, status>>
  PROVE  UNCHANGED Promise!tableVars
  BY DEF Promise!tableVars

LEMMA Refreshes ==
  ASSUME status # "complete", UNCHANGED <<readings, status>>,
         \A b \in Bins : MayBecome(View(csv)[b], View(csv')[b], b)
  PROVE  Promise!Refresh
  <1>1. ASSUME NEW b \in Bins PROVE Promise!Renewed(b)
    <2>1. MayBecome(View(csv)[b], View(csv')[b], b)
      OBVIOUS
    <2>2. NoReadings[b] = [c \in Channels |-> 0]
      BY DEF NoReadings
    <2> QED
      BY <2>1, <2>2, Zenon DEF MayBecome, View, Promise!Renewed, Promise!AtMost, Promise!NoReadings
  <1> QED
    BY <1>1 DEF Promise!Refresh

LEMMA Finishes ==
  ASSUME IInv, Closed
  PROVE  Promise!Finish
  <1>0. /\ Held /\ readings \in Counts /\ csv \in Files /\ job = "finalise" /\ status' = "complete"
        /\ UNCHANGED <<readings, csv>> /\ export[Holder].step = "done"
    BY DEF IInv, Recorder, DataInv, Held, Closed, At
  <1>1. Whole(cache.through)
    BY <1>0 DEF IInv, WholeInv, Finalising
  <1>2. cache.bins = readings /\ cache.signals = Signals(readings)
    BY <1>1 DEF IInv, Recorder, DataInv, BinsInv, Whole
  <1>3. ASSUME NEW b \in Bins PROVE Promise!Whole(b)
    <2>1. PICK f \in Files :
            /\ f = Table(cache.bins, cache.signals, noteLog, LastBin)
            /\ f.rows[b] # <<>> => Len(f.rows[b]) = 1 /\ f.rows[b][1].counts = cache.bins[b]
            /\ f.rows[b] = <<>> => ~(b <= LastBin) \/ b \notin Filled(cache.bins)
      BY <1>0, TableRows
    <2>2. f = csv
      BY <1>1, <1>2, <2>1 DEF Whole
    <2>3. CASE csv.rows[b] # <<>>
      <3>1. View(csv)[b] = <<readings[b]>>
        BY <1>0, <1>2, <2>1, <2>2, <2>3, ViewIs
      <3> QED
        BY <3>1, Zenon DEF View, Promise!Whole
    <2>4. CASE csv.rows[b] = <<>>
      <3>1. View(csv)[b] = <<>>
        BY <1>0, <2>4, ViewIs
      <3>2. b \notin Filled(readings)
        BY <1>2, <2>1, <2>2, <2>4, BinFacts
      <3>3. ASSUME NEW c \in Channels PROVE readings[b][c] = 0
        <4>1. readings[b][c] \in Nat /\ ~(readings[b][c] > 0)
          BY <1>0, <3>2, CountFields DEF Filled
        <4> QED
          BY <4>1
      <3>4. readings[b] = [c \in Channels |-> 0]
        <4>1. readings[b] \in [Channels -> Nat]
          BY <1>0, CountFields
        <4> QED
          BY <3>3, <4>1
      <3> QED
        BY <3>1, <3>4, Zenon DEF View, Promise!Whole, Promise!NoReadings
    <2> QED
      BY <2>3, <2>4
  <1> QED
    BY <1>0, <1>3 DEF Promise!Finish

LEMMA PromiseStep ==
  ASSUME IInv, RowInv, [Next]_vars
  PROVE  [Promise!TableNext]_(Promise!tableVars)
  <1>1. CASE \E b \in Bins, c \in Channels : Record(b, c)
    <2>1. PICK b \in Bins, c \in Channels : Record(b, c)
      BY <1>1
    <2>2. status = "recording"
      BY <2>1 DEF IInv, StopInv, Record
    <2>3. /\ readings' = [readings EXCEPT ![b][c] = @ + 1]
          /\ UNCHANGED <<csv, status>>
      BY <2>1 DEF Record
    <2>4. Promise!Record
      BY <2>2, <2>3 DEF Promise!Record
    <2> QED
      BY <2>4 DEF Promise!TableNext
  <1>2. CASE \E note \in NoteRecords : Annotate(note)
    BY <1>2, Unseen DEF Annotate
  <1>3. ASSUME NEW e \in Exporters, Works(e), UNCHANGED <<readings, status>>
        PROVE  [Promise!TableNext]_(Promise!tableVars)
    <2>1. CASE status = "complete"
      BY <1>3, <2>1, CompleteStays, Unseen
    <2>2. CASE status # "complete" /\ (Publish(e) \/ AppendFails(e))
      <3>1. \A b \in Bins : MayBecome(View(csv)[b], View(csv')[b], b)
        BY <2>2, RowsRefresh
      <3>2. Promise!Refresh
        BY <1>3, <2>2, <3>1, Refreshes
      <3> QED
        BY <3>2 DEF Promise!TableNext
    <2>3. CASE Ingest(e) \/ Commit(e) \/ Snapshot(e) \/ ExportFails(e)
      <3>1. csv' = csv
        BY <2>3 DEF Ingest, Commit, Snapshot, ExportFails
      <3> QED
        BY <1>3, <3>1, Unseen
    <2> QED
      BY <1>3, <2>1, <2>2, <2>3 DEF Works
  <1>4. CASE Quiet
    <2>1. CASE Closed
      BY <2>1, Finishes DEF Promise!TableNext
    <2>2. CASE ~Closed
      BY <1>4, <2>2, QuietKeeps, Unseen
    <2> QED
      BY <2>1, <2>2
  <1>5. CASE UNCHANGED vars
    BY <1>5, Unseen DEF vars
  <1> QED
    BY <1>1, <1>2, <1>3, <1>4, <1>5, Cases

LEMMA PromiseInitial ==
  ASSUME Init
  PROVE  Promise!TableInit
  <1>1. csv = NoFile /\ readings = NoReadings /\ status = "recording"
    BY DEF Init, ExportInit
  <1>2. ASSUME NEW b \in Bins PROVE View(csv)[b] = <<>>
    BY <1>1, NoFileIs, ViewIs
  <1>3. View(csv) = [b \in Bins |-> <<>>]
    BY <1>2 DEF View
  <1>4. [b \in Bins |-> [i \in DOMAIN csv.rows[b] |-> csv.rows[b][i].counts]] = [b \in Bins |-> <<>>]
    BY <1>3 DEF View
  <1> QED
    BY <1>1, <1>4 DEF Promise!TableInit, Promise!NoReadings, NoReadings

(* The wide CSV, kept up to date by appends, rebuilds and failed exports of two
   threads, is to a reader the table of RunTable: a row never claims readings
   that were not recorded, never forgets any, and stands once; a row that is
   withdrawn was not settled; a run is called complete when each row is whole,
   and nothing changes after. *)
THEOREM CsvImplementsRunTable == Spec => CsvKeepsPromise
  <1>1. Init => Promise!TableInit
    BY PromiseInitial
  <1>2. Init => RowInv
    BY RowInitial
  <1>3. IInv /\ RowInv /\ [Next]_vars => RowInv'
    BY RowStep DEF IInv
  <1>4. IInv /\ RowInv /\ [Next]_vars => [Promise!TableNext]_(Promise!tableVars)
    BY PromiseStep
  <1> QED
    BY <1>1, <1>2, <1>3, <1>4, Invariance, PTL DEF Spec, CsvKeepsPromise, Promise!TableSpec


=============================================================================
