---------------------------- MODULE RecipeOutline ----------------------------
(***************************************************************************)
(* The flat Loop ... Next view of a recipe that the builder edits          *)
(* (recipes/outline.py), and the tree it stands for.                       *)
(*                                                                         *)
(* A row is its kind and which step of that kind it does.  The mark ties a *)
(* loop row to the Next row it came with: a history the program does not   *)
(* keep.  Rows and steps count from 1.                                     *)
(***************************************************************************)
EXTENDS Integers, FiniteSets, SequencesExt

CONSTANTS
    SetSteps,       \* the Set steps: name -> [assignments, hold]
    LoopSteps,      \* the Loop steps: name -> [setting, values, ramp]
    RepeatSteps,    \* the Repeat steps: name -> how often
    MaxRows         \* bound: rows of an outline

Kinds == {"set", "wait", "loop", "repeat", "next"}

Row(kind, does, mark) == [kind |-> kind, does |-> does, mark |-> mark]

IsLoop(row) == row.kind \in {"loop", "repeat"}

IsNext(row) == row.kind = "next"

LoopEnd(row) == Row("next", "next", row.mark)

WaitRow == Row("wait", "wait", 0)

-----------------------------------------------------------------------------
(* The tree. *)

Step(row, steps) == [row |-> row, steps |-> steps]

RECURSIVE ToOutline(_)
ToOutline(steps) ==
    FlattenSeq([i \in DOMAIN steps |->
        <<steps[i].row>> \o IF IsLoop(steps[i].row)
                            THEN Append(ToOutline(steps[i].steps), LoopEnd(steps[i].row))
                            ELSE <<>>])

(* One row more: a loop row opens a list of steps, a Next row hands it to the
   loop that was opened last. *)
TakeRow(reading, row) ==
    LET current == Last(reading.lists)
        outer == Front(reading.lists)
    IN CASE IsLoop(row) ->
              [reading EXCEPT !.lists = Append(@, <<>>), !.headers = Append(@, row)]
         [] IsNext(row) /\ reading.headers = <<>> -> [reading EXCEPT !.wrong = TRUE]
         [] IsNext(row) /\ reading.headers # <<>> ->
              [reading EXCEPT
                  !.lists = Append(Front(outer),
                                   Append(Last(outer), Step(Last(reading.headers), current))),
                  !.headers = Front(@)]
         [] OTHER -> [reading EXCEPT !.lists = Append(outer, Append(current, Step(row, <<>>)))]

Reading(rows) == FoldLeft(TakeRow, [lists |-> <<<<>>>>, headers |-> <<>>, wrong |-> FALSE], rows)

IsRecipe(rows) == ~Reading(rows).wrong /\ Reading(rows).headers = <<>>

FromOutline(rows) == Reading(rows).lists[1]

(* Where each row's step is in the tree; nowhere for a Next row. *)
RECURSIVE KeysOf(_, _)
KeysOf(steps, prefix) ==
    FlattenSeq([i \in DOMAIN steps |->
        LET key == Append(prefix, i)
        IN <<key>> \o IF IsLoop(steps[i].row) THEN Append(KeysOf(steps[i].steps, key), <<>>)
                                              ELSE <<>>])

OutlineKeys(rows) == KeysOf(FromOutline(rows), <<>>)

-----------------------------------------------------------------------------
(* Edits.  Each gives the new outline, or cannot be made. *)

Level(rows, a, b) ==
    Cardinality({i \in a..b : IsLoop(rows[i])}) - Cardinality({i \in a..b : IsNext(rows[i])})

(* The Next row of a loop row, or the loop row of a Next row: the nearest with
   which what lies between is closed. *)
Partner(rows, i) ==
    IF IsLoop(rows[i])
    THEN CHOOSE j \in i..Len(rows) :
            Level(rows, i, j) = 0 /\ \A k \in i..(j - 1) : Level(rows, i, k) # 0
    ELSE CHOOSE j \in 1..i :
            Level(rows, j, i) = 0 /\ \A k \in (j + 1)..i : Level(rows, k, i) # 0

LastOfSpan(rows, i) == IF IsLoop(rows[i]) THEN Partner(rows, i) ELSE i

Slice(rows, a, b) == SubSeq(rows, a, b)

(* Marks no row has, the smallest first. *)
FreshMarks(rows) ==
    SetToSortSeq((1..MaxRows) \ {rows[i].mark : i \in DOMAIN rows}, LAMBDA a, b : a < b)

(* Copied loops are loops of their own. *)
Remarked(block, rows) ==
    LET Nth(mark) == Cardinality({block[i].mark : i \in DOMAIN block} \cap 1..mark)
    IN [i \in DOMAIN block |->
            IF block[i].mark = 0 THEN block[i]
            ELSE [block[i] EXCEPT !.mark = FreshMarks(rows)[Nth(block[i].mark)]]]

Insert(rows, after, new) ==
    LET at == IF after = 0 THEN Len(rows) ELSE after
    IN Slice(rows, 1, at) \o (IF IsLoop(new) THEN <<new, LoopEnd(new)>> ELSE <<new>>)
       \o Slice(rows, at + 1, Len(rows))

LoopRowOf(rows, i) == IF IsNext(rows[i]) THEN Partner(rows, i) ELSE i

Delete(rows, index) ==
    LET i == LoopRowOf(rows, index)
        j == LastOfSpan(rows, i)
    IN Slice(rows, 1, i - 1) \o Slice(rows, i + 1, j - 1)
       \o (IF IsLoop(rows[i]) THEN Slice(rows, j + 1, Len(rows)) ELSE Slice(rows, i + 1, Len(rows)))

Duplicate(rows, index) ==
    LET i == LoopRowOf(rows, index)
        j == LastOfSpan(rows, i)
    IN Slice(rows, 1, j) \o Remarked(Slice(rows, i, j), rows) \o Slice(rows, j + 1, Len(rows))

(* A block of rows passes the row above or below it. *)
MoveBlock(rows, i, direction) ==
    LET j == LastOfSpan(rows, i)
        block == Slice(rows, i, j)
    IN IF direction = 1
       THEN Slice(rows, 1, i - 1) \o <<rows[j + 1]>> \o block \o Slice(rows, j + 2, Len(rows))
       ELSE Slice(rows, 1, i - 2) \o block \o <<rows[i - 1]>> \o Slice(rows, j + 1, Len(rows))

(* A Next row cannot pass the Next row of the loop outside, nor its own loop row. *)
CanMoveNext(rows, i, direction) ==
    /\ (i + direction) \in DOMAIN rows
    /\ IF direction = 1 THEN ~IsNext(rows[i + direction]) ELSE ~IsLoop(rows[i + direction])

(* Mutation: it passes one row. *)
NextGoesOneRow(rows, i, direction) == i + direction

(* It passes a step, or a whole loop. *)
NextGoesTo(rows, i, direction) ==
    LET other == i + direction
    IN IF IsLoop(rows[other]) \/ IsNext(rows[other]) THEN Partner(rows, other) ELSE other

MoveNext(rows, i, direction) ==
    LET to == NextGoesTo(rows, i, direction)
    IN IF direction = 1
       THEN Slice(rows, 1, i - 1) \o Slice(rows, i + 1, to) \o <<rows[i]>>
            \o Slice(rows, to + 1, Len(rows))
       ELSE Slice(rows, 1, to - 1) \o <<rows[i]>> \o Slice(rows, to, i - 1)
            \o Slice(rows, i + 1, Len(rows))

CanMove(rows, i, direction) ==
    IF IsNext(rows[i]) THEN CanMoveNext(rows, i, direction)
    ELSE IF direction = 1 THEN LastOfSpan(rows, i) < Len(rows) ELSE i > 1

Move(rows, i, direction) ==
    IF IsNext(rows[i]) THEN MoveNext(rows, i, direction) ELSE MoveBlock(rows, i, direction)

(* Where the moved row is then. *)
MovedTo(rows, i, direction) ==
    IF IsNext(rows[i]) THEN NextGoesTo(rows, i, direction) ELSE i + direction

=============================================================================
