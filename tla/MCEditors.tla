------------------------------ MODULE MCEditors ------------------------------
(* What an operator edits, one of: a recipe of a supply, and a pump beside it, in outlines
   of a few rows; the profiles of small rigs; or the settings of the program in two files.
   They share no state, and what is not edited stays in an initial state. *)
EXTENDS RecipeBuilder, DeviceLibrary, SettingsScreen

CONSTANTS template, rig, copy

ASSUME LibraryAssumption ==
    /\ Ports \cap Hosts = {}
    /\ {MaxSaves, MaxTicks, MaxWrites, Normal} \cup Maxima \subseteq Nat
    /\ {Normal, Normal + 1} \subseteq Maxima

VARIABLE kind

NoRecipe == Init
NoLibrary ==
    /\ files = [p \in Paths |-> Missing] /\ backups = files
    /\ program = "ended" /\ home = None /\ editor = None /\ trouble = "none" /\ saves = 0
NoSettings ==
    /\ SettingsInit /\ disk = [file \in Files |-> Default]
    /\ remembered = CHOOSE file \in Files : TRUE

MCInit ==
    \/ kind = "recipe" /\ Init /\ NoLibrary /\ NoSettings
    \/ kind = "library" /\ LibraryInit /\ NoRecipe /\ NoSettings
    \/ kind = "settings" /\ SettingsInit /\ NoRecipe /\ NoLibrary

MCNext ==
    /\ \/ kind = "recipe" /\ Next /\ UNCHANGED <<library, settingVars>>
       \/ kind = "library" /\ LibraryNext /\ UNCHANGED <<vars, settingVars>>
       \/ kind = "settings" /\ SettingsNext /\ UNCHANGED <<vars, library>>
    /\ UNCHANGED kind

MCSpec == MCInit /\ [][MCNext]_<<kind, vars, library, settingVars>>

-----------------------------------------------------------------------------
(* Steps of recipes. *)

Assign(device, setting, value) ==
    [device |-> device, setting |-> setting, value |-> value, ramp |-> NoRamp]

SetSupply(setting, value) == Assign("supply", setting, value)

InSteps(size, start) == [NoRamp EXCEPT !.kind = "step_size", !.size = size, !.start = start]

InCount(count, start) ==
    [NoRamp EXCEPT !.kind = "step_count", !.count = count, !.start = start]

Through(setpoints) == [NoRamp EXCEPT !.kind = "setpoints", !.setpoints = setpoints]

Ramping(assignment, ramp) == [assignment EXCEPT !.ramp = ramp]

Do(assignments) == [assignments |-> assignments, hold |-> FALSE]

MCSetSteps ==
    [constant_current |-> Do(<<SetSupply("current_setpoint", 4), SetSupply("voltage_limit", 2)>>),
     constant_voltage |->
        Do(<<Ramping(SetSupply("voltage", 2), Through(<<1>>)), SetSupply("current_limit", 3)>>),
     on  |-> Do(<<SetSupply("output_enabled", 1)>>),
     off |-> Do(<<SetSupply("output_enabled", 0),
                  Ramping(Assign("pump", "pump_speed", 0), InCount(2, 4))>>),
     dark |-> Do(<<SetSupply("output_enabled", 0)>>),
     ramp |-> [Do(<<Ramping(SetSupply("current_setpoint", 1), InSteps(1, NoStart))>>)
                 EXCEPT !.hold = TRUE]]

MCLoopSteps ==
    [levels |-> [setting |-> "current_setpoint", values |-> <<1, 2>>, ramp |-> NoRamp],
     ramped |-> [setting |-> "current_setpoint", values |-> <<5, 3>>, ramp |-> InSteps(2, 4)]]

MCRepeatSteps == [twice |-> 2]

-----------------------------------------------------------------------------
(* Profiles. *)

MCSensorDriver == [oven |-> "lumel_re72", air |-> "esp32_dht11"]

Only(candidates) == CHOOSE candidate \in candidates : TRUE

TwoAlicats ==
    Only(WithNewAlicat(Only(WithNewAlicat(Blank, "a", "COM1", "A")), "b", "COM1", "B"))

OneDisabled == [TwoAlicats EXCEPT !.roles["b"].enabled = FALSE]

ProbeAndPump == Only(WithNewPump(Only(WithNewTemperatureProbe(Blank, "a", "COM1")), "b", "COM2"))

BoardWithSensors == Only(WithBoard(Blank, "COM1", {"oven", "air"}))

PlateAndAir == Only(WithNewEzoHum(Only(WithNewGuardian(Blank, "a", "COM1")), "b", "COM2"))

MCSaved == {OneDisabled, ProbeAndPump, BoardWithSensors}

MCTemplate == PlateAndAir

EqualPaths == Permutations({rig, copy})

(* No action reads a backup, and what is said of one is said of the step that makes it. *)
AllButBackups ==
    <<kind, rows, selected, files, program, home, editor, trouble, saves, inForce, builtWith,
      namedFile, remembered, disk, sheet, working, agreed, ticks, writes>>

=============================================================================
