---------------------------- MODULE RecipeBuilder ----------------------------
(***************************************************************************)
(* The recipe builder (ui/operation/recipe_window.py): the outline on the  *)
(* screen and the row selected, 0 if none.  The editor that opens on a new *)
(* or chosen step is modal: adding a step is one action with what its OK   *)
(* leaves, and Cancel leaves everything as it was.                         *)
(***************************************************************************)
EXTENDS RecipeProgram

VARIABLES rows, selected

vars == <<rows, selected>>

Steps ==
    {Row("set", name, 0) : name \in DOMAIN SetSteps} \cup {WaitRow}
    \cup {Row("loop", name, 0) : name \in DOMAIN LoopSteps}
    \cup {Row("repeat", name, 0) : name \in DOMAIN RepeatSteps}

(* The rows are a recipe's, and what is selected is one of them. *)
TypeOK ==
    /\ \A i \in DOMAIN rows :
          \/ [rows[i] EXCEPT !.mark = 0] \in Steps
          \/ IsNext(rows[i])
    /\ IsRecipe(rows)
    /\ Len(rows) <= MaxRows
    /\ selected \in 0..Len(rows)

Init == rows = <<>> /\ selected = 0

(* With the end state's row selected, no step is. *)
Select(i) == selected' = i /\ UNCHANGED rows

Marked(step) == IF IsLoop(step) THEN [step EXCEPT !.mark = FreshMarks(rows)[1]] ELSE step

(* A new loop starts with a wait inside. *)
Add(step) ==
    LET at == IF selected = 0 THEN Len(rows) + 1 ELSE selected + 1
        inserted == Insert(rows, selected, Marked(step))
    IN /\ Len(rows) + (IF IsLoop(step) THEN 3 ELSE 1) <= MaxRows
       /\ rows' = IF IsLoop(step) THEN Insert(inserted, at, WaitRow) ELSE inserted
       /\ selected' = at

(* Another step of the same kind in its place; a Next row gives its loop row. *)
Edit(step) ==
    /\ selected # 0
    /\ LET i == LoopRowOf(rows, selected)
       IN /\ rows[i].kind = step.kind
          /\ rows' = [rows EXCEPT ![i] = [step EXCEPT !.mark = rows[i].mark]]
          /\ selected' = i

MoveSelected(direction) ==
    /\ selected # 0
    /\ CanMove(rows, selected, direction)
    /\ rows' = Move(rows, selected, direction)
    /\ selected' = MovedTo(rows, selected, direction)

DuplicateSelected ==
    /\ selected # 0
    /\ LET last == LastOfSpan(rows, LoopRowOf(rows, selected))
       IN /\ 2 * last - LoopRowOf(rows, selected) + 1 + (Len(rows) - last) <= MaxRows
          /\ selected' = last + 1
    /\ rows' = Duplicate(rows, selected)

DeleteSelected ==
    /\ selected # 0
    /\ rows' = Delete(rows, selected)
    /\ selected' = IF rows' = <<>> THEN 0 ELSE IF selected < Len(rows') THEN selected ELSE Len(rows')

(* One device of a Set step that has several. *)
DeleteDevice(device) ==
    /\ selected # 0
    /\ rows[selected].kind = "set"
    /\ \E name \in DOMAIN SetSteps :
          LET before == SetSteps[rows[selected].does]
          IN /\ SetSteps[name].assignments = SelectSeq(before.assignments, LAMBDA a : a.device # device)
             /\ SetSteps[name].assignments \notin {<<>>, before.assignments}
             /\ SetSteps[name].hold = before.hold
             /\ rows' = [rows EXCEPT ![selected].does = name]
    /\ UNCHANGED selected

(* The recipe is saved, or read from its file. *)
SaveAndLoad == rows' = ToOutline(FromOutline(rows)) /\ selected' = 0

New == rows' = <<>> /\ selected' = 0

Devices == {a.device : a \in UNION {Range(SetSteps[n].assignments) : n \in DOMAIN SetSteps}}

Next ==
    \/ \E i \in 0..Len(rows) : Select(i)
    \/ \E step \in Steps : Add(step) \/ Edit(step)
    \/ \E direction \in {-1, 1} : MoveSelected(direction)
    \/ DuplicateSelected
    \/ DeleteSelected
    \/ \E device \in Devices : DeleteDevice(device)
    \/ SaveAndLoad
    \/ New

Spec == Init /\ [][Next]_vars

-----------------------------------------------------------------------------
(* decisions/0018: a moved row never changes which Next closes which loop.  The
   tree the rows are read as has every loop closed by the Next row it came with,
   so that saving and loading shows the rows that were saved. *)
NextKeepsItsLoop == ToOutline(FromOutline(rows)) = rows

(* The plan the runner executes, and the builder times, is what the rows say when
   run from top to bottom, each item with the row and the passes it belongs to;
   and it stops where a ramp has nothing to start from. *)
PlanFollowsRows ==
    LET plan == Plan(FromOutline(rows))
        program == Program(rows)
    IN plan.items = program.items /\ plan.refused = program.refused

(* What an operator lays out as flat rows is what is kept and what is run: its loops are
   closed as laid out, and the plan follows them. *)
PlanFollowsOutline == NextKeepsItsLoop /\ PlanFollowsRows

(* decisions/0017: a recipe that passes the checks never has the supply's output
   on with a register left over from the other mode. *)
SupplyNeverMisled ==
    LET steps == FromOutline(rows)
    IN ~RecipeProblem(steps) => ~Misled(AllWrites(Plan(steps)))

=============================================================================
