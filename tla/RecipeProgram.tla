---------------------------- MODULE RecipeProgram ----------------------------
(***************************************************************************)
(* What decisions/0018 promises of the rows: they run from top to bottom,  *)
(* a Loop row sets its next value, its Next row goes back to it until all  *)
(* values had their pass, and a ramp starts from the value the setting     *)
(* has.  One row at a time, with no tree and no plan: where the program    *)
(* is, the loops it is in with their passes, and what was done.            *)
(***************************************************************************)
EXTENDS RecipePlan

At(rows, run, passes) ==
    LET key == OutlineKeys(rows)[run.pc]
    IN [i \in DOMAIN key |-> <<key[i], IF i <= Len(passes) THEN passes[i] ELSE 1>>]

Did(run, does, what, trace) == [run EXCEPT !.items = Append(@, Item(does, what, trace))]

(* The value a setting has: what was written last. *)
InEffect(run, setting) ==
    LET written == SelectSeq(AllWrites(run), LAMBDA w : w[1] = setting)
    IN IF written = <<>> THEN NoStart ELSE Last(written)[2]

(* One value after the other, with a wait between two. *)
Climbs(run, path, setting, trace) ==
    FoldLeft(LAMBDA r, k : IF k % 2 = 1 THEN Did(r, "set", <<<<setting, path[(k + 1) \div 2]>>>>, trace)
                                        ELSE Did(r, "wait", <<>>, trace),
             run, [k \in 1..(2 * Len(path) - (IF path = <<>> THEN 0 ELSE 1)) |-> k])

Climb(run, ramp, setting, target, trace) ==
    LET known == InEffect(run, setting)
        start == IF known = NoStart /\ ~NeedsStart(ramp) THEN target ELSE known
    IN IF run.refused \/ start = NoStart \/ TooManySteps(ramp, start, target)
       THEN [run EXCEPT !.refused = TRUE]
       ELSE Climbs(Did(run, "ramp", <<<<setting, start>>, <<setting, target>>>>, trace),
                   RampPath(ramp, start, target), setting, trace)

EnterPass(rows, run, header, pass) ==
    LET entered == [run EXCEPT !.pc = header, !.passes = Append(@, pass), !.headers = Append(@, header)]
        trace == At(rows, entered, entered.passes)
        loop == LoopSteps[rows[header].does]
        jumped == IF pass = 1 /\ loop.ramp.start # NoStart
                  THEN Did(entered, "set", <<<<loop.setting, loop.ramp.start>>>>, trace) ELSE entered
        moved == CASE rows[header].kind = "repeat" -> entered
                   [] rows[header].kind = "loop" /\ loop.ramp.kind = "none" ->
                        Did(entered, "set", <<<<loop.setting, loop.values[pass]>>>>, trace)
                   [] OTHER -> Climb(jumped, loop.ramp, loop.setting, loop.values[pass], trace)
    IN [moved EXCEPT !.pc = header + 1]

(* A Next row: the loop opened last goes on, or is left. *)
AtNext(rows, run) ==
    LET header == Last(run.headers)
        left == [run EXCEPT !.headers = Front(@), !.passes = Front(@)]
    IN IF Last(run.passes) < Passes(rows[header])
       THEN EnterPass(rows, left, header, Last(run.passes) + 1)
       ELSE [left EXCEPT !.pc = @ + 1]

AtSet(rows, run) ==
    LET step == SetSteps[rows[run.pc].does]
        trace == At(rows, run, run.passes)
        begun == IF AtOnce(step.assignments) = <<>> THEN run
                 ELSE Did(run, "set", AtOnce(step.assignments), trace)
        done == FoldLeft(LAMBDA r, a : Climb(r, a.ramp, a.setting, a.value, trace),
                         begun, Ramped(step.assignments))
    IN [(IF step.hold /\ ~done.refused THEN Did(done, "wait", <<>>, trace) ELSE done)
            EXCEPT !.pc = @ + 1]

OneRow(rows, run) ==
    LET row == rows[run.pc]
    IN CASE row.kind = "set" -> AtSet(rows, run)
         [] row.kind = "wait" ->
              [Did(run, "wait", <<>>, At(rows, run, run.passes)) EXCEPT !.pc = @ + 1]
         [] IsLoop(row) -> EnterPass(rows, run, run.pc, 1)
         [] IsNext(row) -> AtNext(rows, run)

RECURSIVE RunFrom(_, _)
RunFrom(rows, run) ==
    IF run.refused \/ run.pc > Len(rows) THEN run ELSE RunFrom(rows, OneRow(rows, run))

Program(rows) ==
    RunFrom(rows, [pc |-> 1, passes |-> <<>>, headers |-> <<>>, items |-> <<>>, refused |-> FALSE])

-----------------------------------------------------------------------------
(* The supply's two registers: which setting each was written as. *)

Registers == [current |-> {"current_setpoint", "current_limit"}, voltage |-> {"voltage", "voltage_limit"}]

WrittenAs(writes, n, register) ==
    LET to == SelectSeq(SubSeq(writes, 1, n), LAMBDA w : w[1] \in Registers[register])
    IN IF to = <<>> THEN "nothing" ELSE Last(to)[1]

OutputOn(writes, n) ==
    LET to == SelectSeq(SubSeq(writes, 1, n), LAMBDA w : w[1] = "output_enabled")
    IN to # <<>> /\ Last(to)[2] = 1

(* After some write the output is on and a register is left from another mode. *)
Misled(writes) ==
    \E n \in DOMAIN writes :
        /\ OutputOn(writes, n)
        /\ \A mode \in DOMAIN ModeSettings :
              {WrittenAs(writes, n, register) : register \in DOMAIN Registers} # ModeSettings[mode]

=============================================================================
