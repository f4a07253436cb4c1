------------------------------ MODULE RecipePlan ------------------------------
(***************************************************************************)
(* What a recipe will do, in order (recipes/plan.py): the one walk the     *)
(* runner executes and the builder's times and checks read.                *)
(*                                                                         *)
(* An item is a list of settings written together, a wait, or the start of *)
(* a ramp, with its trace: the step and the pass on each level.  Values    *)
(* are whole numbers, an output that is on is 1; labels are left out, and  *)
(* no Set step has a name.                                                 *)
(***************************************************************************)
EXTENDS RecipeOutline

CONSTANT MaxRampPoints      \* MAX_RAMP_POINTS

NoStart == -1

NoRamp == [kind |-> "none", start |-> NoStart, size |-> 0, count |-> 0, setpoints |-> <<>>]

(* By listed setpoints, a number of steps, or steps of a size; a rate is steps of
   rate times dwell. *)
NeedsStart(ramp) == ramp.kind # "setpoints"

Distance(a, b) == IF a < b THEN b - a ELSE a - b

(* Steps of a size never overshoot: the last is shortened. *)
StepsBetween(ramp, start, target) == (Distance(start, target) + ramp.size - 1) \div ramp.size

TooManySteps(ramp, start, target) ==
    /\ ramp.kind = "step_size"
    /\ start # target
    /\ StepsBetween(ramp, start, target) > MaxRampPoints

RampPath(ramp, start, target) ==
    CASE ramp.kind = "setpoints" ->
            IF Last(ramp.setpoints) = target THEN ramp.setpoints ELSE Append(ramp.setpoints, target)
      [] ramp.kind # "setpoints" /\ start = target -> <<>>
      [] ramp.kind = "step_count" /\ start # target ->
            [k \in 1..ramp.count |-> start + ((target - start) * k) \div ramp.count]
      [] ramp.kind = "step_size" /\ start # target ->
            LET n == StepsBetween(ramp, start, target)
                sign == IF target > start THEN 1 ELSE -1
            IN [k \in 1..n |-> IF k = n THEN target ELSE start + sign * ramp.size * k]

-----------------------------------------------------------------------------
Item(does, what, trace) == [does |-> does, what |-> what, trace |-> trace]

(* What has been planned, what each setting was set to last, and whether
   planning stopped. *)
NothingPlanned == [items |-> <<>>, last |-> [s \in {} |-> 0], refused |-> FALSE]

Planned(run, item) == [run EXCEPT !.items = Append(@, item)]

(* Settings written together; what is planned next starts from them. *)
Writes(run, what, trace) ==
    [Planned(run, Item("set", what, trace)) EXCEPT
        !.last = FoldLeft(LAMBDA last, w : (w[1] :> w[2]) @@ last, @, what)]

Wait(run, trace) == Planned(run, Item("wait", <<>>, trace))

(* The value a ramp starts from: what the recipe set last. *)
StartOf(run, target, ramp) ==
    IF target[1] \in DOMAIN run.last THEN run.last[target[1]]
    ELSE IF NeedsStart(ramp) THEN NoStart ELSE target[2]

(* Each value on the way is held, the target is not. *)
RampItems(run, target, ramp, trace) ==
    LET start == StartOf(run, target, ramp)
        path == RampPath(ramp, start, target[2])
        One(sofar, k) ==
            LET written == Writes(sofar, <<<<target[1], path[k]>>>>, trace)
            IN IF k < Len(path) THEN Wait(written, trace) ELSE written
    IN IF run.refused THEN run
       ELSE IF start = NoStart \/ TooManySteps(ramp, start, target[2])
       THEN [run EXCEPT !.refused = TRUE]
       ELSE FoldLeftDomain(One, Planned(run, Item("ramp", <<<<target[1], start>>, target>>, trace)),
                           path)

(* Settings are written together first, fixed starts among them; then each ramp
   runs, then the hold. *)
AtOnce(assignments) ==
    LET jumps == SelectSeq(assignments, LAMBDA a : a.ramp.kind = "none" \/ a.ramp.start # NoStart)
    IN [i \in DOMAIN jumps |->
            <<jumps[i].setting,
              IF jumps[i].ramp.kind = "none" THEN jumps[i].value ELSE jumps[i].ramp.start>>]

Ramped(assignments) == SelectSeq(assignments, LAMBDA a : a.ramp.kind # "none")

SetItems(run, step, trace) ==
    LET now == AtOnce(step.assignments)
        begun == IF now = <<>> THEN run ELSE Writes(run, now, trace)
        ramped == FoldLeft(LAMBDA r, a : RampItems(r, <<a.setting, a.value>>, a.ramp, trace),
                           begun, Ramped(step.assignments))
    IN IF step.hold /\ ~ramped.refused THEN Wait(ramped, trace) ELSE ramped

(* A loop sets its value before each pass, at a ramp if it has one: the first
   pass from where the setting is, or from the fixed start. *)
PassItems(run, loop, pass, trace) ==
    LET target == <<loop.setting, loop.values[pass]>>
    IN IF loop.ramp.kind = "none" THEN Writes(run, <<target>>, trace)
       ELSE RampItems(IF pass = 1 /\ loop.ramp.start # NoStart
                      THEN Writes(run, <<<<loop.setting, loop.ramp.start>>>>, trace) ELSE run,
                      target, loop.ramp, trace)

Passes(row) == IF row.kind = "loop" THEN Len(LoopSteps[row.does].values) ELSE RepeatSteps[row.does]

RECURSIVE Walk(_, _, _)
Walk(steps, trace, run) ==
    LET Here(i, pass) == Append(trace, <<i, pass>>)
        InLoop(i, sofar, pass) ==
            LET row == steps[i].row
            IN Walk(steps[i].steps, Here(i, pass),
                    IF row.kind = "loop" /\ ~sofar.refused
                    THEN PassItems(sofar, LoopSteps[row.does], pass, Here(i, pass)) ELSE sofar)
        OneStep(sofar, i) ==
            LET row == steps[i].row
            IN CASE sofar.refused -> sofar
                 [] ~sofar.refused /\ row.kind = "set" ->
                        SetItems(sofar, SetSteps[row.does], Here(i, 1))
                 [] ~sofar.refused /\ row.kind = "wait" -> Wait(sofar, Here(i, 1))
                 [] ~sofar.refused /\ IsLoop(row) ->
                        FoldLeft(LAMBDA r, pass : InLoop(i, r, pass), sofar,
                                 [pass \in 1..Passes(row) |-> pass])
    IN FoldLeftDomain(OneStep, run, steps)

Plan(steps) == Walk(steps, <<>>, NothingPlanned)

AllWrites(plan) ==
    FlattenSeq([i \in DOMAIN plan.items |->
                   IF plan.items[i].does = "set" THEN plan.items[i].what ELSE <<>>])

-----------------------------------------------------------------------------
(* The supply's output may only turn on once both settings of the mode have been
   written, and the mode is not switched while it is on. *)

ModeSettings == [CC |-> {"current_setpoint", "voltage_limit"}, CV |-> {"voltage", "current_limit"}]

SuppliesMode(setting) == \E mode \in DOMAIN ModeSettings : setting \in ModeSettings[mode]

ModeOf(setting) == CHOOSE mode \in DOMAIN ModeSettings : setting \in ModeSettings[mode]

(* Mutation: the mode may be switched while the output is on. *)
CheckSwitchingFreely(check, write) ==
    CASE check.problem -> check
      [] ~check.problem /\ SuppliesMode(write[1]) ->
            LET mode == ModeOf(write[1])
            IN IF check.mode = mode THEN [check EXCEPT !.written = @ \cup {write[1]}]
               ELSE [check EXCEPT !.mode = mode, !.written = {write[1]}]
      [] ~check.problem /\ write[1] = "output_enabled" ->
            [check EXCEPT
                !.problem = /\ write[2] = 1 /\ ~check.on
                            /\ check.mode = "none" \/ ~(ModeSettings[check.mode] \subseteq check.written),
                !.on = write[2] = 1]
      [] OTHER -> check

CheckWrite(check, write) ==
    CASE check.problem -> check
      [] ~check.problem /\ SuppliesMode(write[1]) ->
            LET mode == ModeOf(write[1])
            IN IF check.mode = mode THEN [check EXCEPT !.written = @ \cup {write[1]}]
               ELSE [check EXCEPT !.mode = mode, !.written = {write[1]}, !.problem = check.on]
      [] ~check.problem /\ write[1] = "output_enabled" ->
            [check EXCEPT
                !.problem = /\ write[2] = 1 /\ ~check.on
                            /\ check.mode = "none" \/ ~(ModeSettings[check.mode] \subseteq check.written),
                !.on = write[2] = 1]
      [] OTHER -> check

PowerSupplyProblem(plan) ==
    FoldLeft(CheckWrite, [mode |-> "none", written |-> {}, on |-> FALSE, problem |-> FALSE],
             AllWrites(plan)).problem

RecipeProblem(steps) == LET plan == Plan(steps) IN plan.refused \/ PowerSupplyProblem(plan)

=============================================================================
