---------------------------- MODULE MCOperation ----------------------------
(* What works by itself in Operation and Settings, one of: the five instruments whose
   operations take several exchanges, the settings of heating controllers, calibrations,
   notes, the orders, reviews and closing of a screen, the set-up and reading of an Alicat,
   several of them on one port,
   what the graphs are drawn from, the monitor of memory, and the editors of a recipe's
   steps and of its end state.  They share no state. *)
EXTENDS Instrument, Integers, Sequences, TLC

CONSTANTS Temperatures, Limits, Flows, Pressures, Ceiling,
          MaxVolts, MaxAmps, MaxPower, WiringCeiling, DefaultVolts, DefaultAmps,
          Controllers, Targets, MaxPolls,
          Calibrated, Names,
          MaxRuns, MaxNotes, MaxRecords, Texts,
          Folders, MaxJobs,
          Frames, Sharing, Describing, Attempts, MaxLate,
          Values, Ordinary, RawSeconds, RawLimit, TrimChunk, RunLimit, Pause, PointLimit,
          Periods, MaxReadings,
          Levels, Usual, SafetyLevel, Growth, WarnGap, Window, Cooldown, Hour, PerHour, Interval,
          OverviewLimit, MaxSamples, MaxUnusual, MaxOdd,
          Roles, SettingsOf, ModeOf, Currents, Switches, Before, Milli, Typed, Kinds, MaxEdits,
          SetSteps, LoopSteps, Lists, Bounds, EndSteps, NoSafeState, Flowing,
          Unreadable, Nothing

ASSUME LimitsAssumption ==
    /\ Temperatures \cup Limits \cup Flows \cup Pressures \subseteq Nat
    /\ {Ceiling, MaxVolts, MaxAmps, MaxPower, WiringCeiling} \subseteq Nat
    /\ DefaultVolts \in 0..MaxVolts
    /\ DefaultAmps \in 0..MaxAmps /\ DefaultAmps <= WiringCeiling
    /\ {MaxPolls, MaxRuns, MaxNotes, MaxRecords, MaxJobs, MaxEdits, MaxLate} \subseteq Nat
    /\ 0 \in Targets /\ Describing \subseteq Sharing /\ Attempts \in Nat \ {0}

(* Nothing is None: no name of anything, and no description of columns. *)
ASSUME NothingAssumption ==
    /\ Nothing \notin {"stopped", "order", "closing"}
    /\ \A columns \in Frames \cup {Nothing}, unsupported \in BOOLEAN :
          [columns |-> columns, unsupported |-> unsupported] # Nothing

(* Stores hold more than they are halved to, whose endpoints and extremes are kept.
   The program allows an OverviewLimit of 4 or 5, and then drops extremes; it uses 240. *)
ASSUME StoresAssumption ==
    /\ Values \cup Levels \subseteq Nat /\ Ordinary \in Values /\ Usual \in Levels
    /\ {RawSeconds, RawLimit, TrimChunk, Pause, MaxReadings, MaxUnusual} \subseteq Nat \ {0}
    /\ Periods \subseteq 1..RawSeconds
    /\ {RunLimit, PointLimit} \subseteq {n \in Nat : n >= 8}
    /\ {SafetyLevel, Growth, WarnGap, Window, Cooldown, Hour, PerHour, Interval} \subseteq Nat \ {0}
    /\ OverviewLimit \in Nat /\ OverviewLimit >= 6

(* Settings are of a device, a supply has a safe state, and no setting both carries a
   current and is on or off. *)
ASSUME EntryAssumption ==
    /\ \A k \in DOMAIN Roles :
          /\ Roles[k] \in DOMAIN SettingsOf /\ \A j \in 1..(k - 1) : Roles[j] # Roles[k]
          /\ SettingsOf[Roles[k]] # <<>>
          /\ \A n \in DOMAIN SettingsOf[Roles[k]] :
                /\ SettingsOf[Roles[k]][n] \in DOMAIN ModeOf
                /\ SettingsOf[Roles[k]][n] \in Switches => Roles[k] \notin NoSafeState
    /\ Currents \cup Switches \subseteq DOMAIN ModeOf /\ Currents \cap Switches = {}
    /\ Milli \in Nat \ {0}

VARIABLES kind,
          registers, autotune, entries, originals, controller, snapshot, asking, monitoring,
          permitted, told,
          history, stamp, cache, chosen, candidate, listed, operating, starting, named, inRun,
          run, recording, beginner, journal, records, dialog, moving, typed, noted, doubtful,
          acting, finalising, pending, reviewed, reviews, questions, jobs, results, live, closed,
          forced, overtaken,
          unit, form, probed, saved, reading, conf, shown, reordered,
          raw, whole, groupSize, group, began, accepted, unusual,
          thread, stopping, now, recent, warnedAt, snapshots, disabled, next, overview, logged,
          sampled, heard, taken, odd,
          step, draft, meant, handed, edits,
          port, clients, opened, unread, coming, alicat, answered, cut

P == INSTANCE Pump
H == INSTANCE Hotplate
F == INSTANCE FlowController
B == INSTANCE PressureController
S == INSTANCE Supply
T == INSTANCE HeaterSettings
C == INSTANCE Calibrations
N == INSTANCE RunNotes
O == INSTANCE OperationScreen
A == INSTANCE AlicatSetup
G == INSTANCE ChannelHistory
M == INSTANCE RunHealth
E == INSTANCE StepEditors
Y == INSTANCE AlicatBus

heaterVars ==
    <<registers, autotune, entries, originals, controller, snapshot, asking, monitoring, permitted, told>>
calVars ==
    <<history, stamp, cache, chosen, candidate, listed, operating, starting, named, inRun>>
noteVars == <<run, recording, beginner, journal, records, dialog, moving, typed, noted, doubtful>>
screenVars ==
    <<acting, finalising, pending, reviewed, reviews, questions, jobs, results, live, closed, forced,
      overtaken>>
setupVars == <<unit, form, probed, saved, reading, conf, shown, reordered>>
graphVars == <<raw, whole, groupSize, group, began, accepted, unusual>>
memoryVars ==
    <<thread, stopping, now, recent, warnedAt, snapshots, disabled, next, overview, logged, sampled,
      heard, taken, odd>>

entryVars == <<step, draft, meant, handed, edits>>
busVars == <<port, clients, opened, unread, coming, alicat, answered, cut>>

NoInstrument ==
    /\ device = Nothing /\ cached = Nothing /\ status = Nothing
    /\ doing = Nothing /\ todo = Nothing /\ raised = Nothing
NoHeater ==
    /\ registers = Nothing /\ autotune = Nothing /\ entries = Nothing /\ originals = Nothing
    /\ controller = Nothing /\ snapshot = Nothing /\ asking = Nothing /\ monitoring = Nothing
    /\ permitted = Nothing /\ told = Nothing
NoCalibrations ==
    /\ history = Nothing /\ stamp = Nothing /\ cache = Nothing /\ chosen = Nothing
    /\ candidate = Nothing /\ listed = Nothing /\ operating = Nothing /\ starting = Nothing
    /\ named = Nothing /\ inRun = Nothing
NoNotes ==
    /\ run = Nothing /\ recording = Nothing /\ beginner = Nothing /\ journal = Nothing
    /\ records = Nothing /\ dialog = Nothing /\ moving = Nothing /\ typed = Nothing
    /\ noted = Nothing /\ doubtful = Nothing
NoScreen ==
    /\ acting = Nothing /\ finalising = Nothing /\ pending = Nothing /\ reviewed = Nothing
    /\ reviews = Nothing /\ questions = Nothing /\ jobs = Nothing /\ results = Nothing
    /\ live = Nothing /\ closed = Nothing /\ forced = Nothing /\ overtaken = Nothing
NoSetup ==
    /\ unit = Nothing /\ form = Nothing /\ probed = Nothing /\ saved = Nothing
    /\ reading = Nothing /\ conf = Nothing /\ shown = Nothing /\ reordered = Nothing
NoGraph ==
    /\ raw = Nothing /\ whole = Nothing /\ groupSize = Nothing /\ group = Nothing
    /\ began = Nothing /\ accepted = Nothing /\ unusual = Nothing
NoMemory ==
    /\ thread = Nothing /\ stopping = Nothing /\ now = Nothing /\ recent = Nothing
    /\ warnedAt = Nothing /\ snapshots = Nothing /\ disabled = Nothing /\ next = Nothing
    /\ overview = Nothing /\ logged = Nothing /\ sampled = Nothing /\ heard = Nothing
    /\ taken = Nothing /\ odd = Nothing
NoEntry ==
    /\ step = Nothing /\ draft = Nothing /\ meant = Nothing /\ handed = Nothing /\ edits = Nothing
NoBus ==
    /\ port = Nothing /\ clients = Nothing /\ opened = Nothing /\ unread = Nothing
    /\ coming = Nothing /\ alicat = Nothing /\ answered = Nothing /\ cut = Nothing

Init ==
    \/ /\ \/ kind = "pump" /\ P!PumpInit
          \/ kind = "hotplate" /\ H!PlateInit
          \/ kind = "flow" /\ F!FlowInit
          \/ kind = "pressure" /\ B!PressureInit
          \/ kind = "supply" /\ S!SupplyInit
       /\ NoHeater /\ NoCalibrations /\ NoNotes /\ NoScreen /\ NoSetup /\ NoGraph /\ NoMemory
       /\ NoEntry /\ NoBus
    \/ /\ kind = "heater" /\ T!HeaterInit
       /\ NoInstrument /\ NoCalibrations /\ NoNotes /\ NoScreen /\ NoSetup /\ NoGraph /\ NoMemory
       /\ NoEntry /\ NoBus
    \/ /\ kind = "calibrations" /\ C!CalibrationsInit
       /\ NoInstrument /\ NoHeater /\ NoNotes /\ NoScreen /\ NoSetup /\ NoGraph /\ NoMemory
       /\ NoEntry /\ NoBus
    \/ /\ kind = "notes" /\ N!NotesInit
       /\ NoInstrument /\ NoHeater /\ NoCalibrations /\ NoScreen /\ NoSetup /\ NoGraph /\ NoMemory
       /\ NoEntry /\ NoBus
    \/ /\ kind = "screen" /\ O!ScreenInit
       /\ NoInstrument /\ NoHeater /\ NoCalibrations /\ NoNotes /\ NoSetup /\ NoGraph /\ NoMemory
       /\ NoEntry /\ NoBus
    \/ /\ kind = "alicat" /\ A!SetupInit
       /\ NoInstrument /\ NoHeater /\ NoCalibrations /\ NoNotes /\ NoScreen /\ NoGraph /\ NoMemory
       /\ NoEntry /\ NoBus
    \/ /\ kind = "graph" /\ G!HistoryInit
       /\ NoInstrument /\ NoHeater /\ NoCalibrations /\ NoNotes /\ NoScreen /\ NoSetup /\ NoMemory
       /\ NoEntry /\ NoBus
    \/ /\ kind = "memory" /\ M!HealthInit
       /\ NoInstrument /\ NoHeater /\ NoCalibrations /\ NoNotes /\ NoScreen /\ NoSetup /\ NoGraph
       /\ NoEntry /\ NoBus
    \/ /\ \/ kind = "set" /\ E!SetInit
          \/ kind = "loop" /\ E!LoopInit
          \/ kind = "end" /\ E!EndInit
       /\ NoInstrument /\ NoHeater /\ NoCalibrations /\ NoNotes /\ NoScreen /\ NoSetup /\ NoGraph
       /\ NoMemory /\ NoBus
    \/ /\ kind = "bus" /\ Y!BusInit
       /\ NoInstrument /\ NoHeater /\ NoCalibrations /\ NoNotes /\ NoScreen /\ NoSetup /\ NoGraph
       /\ NoMemory /\ NoEntry

Next ==
    /\ \/ /\ \/ kind = "pump" /\ P!PumpNext
             \/ kind = "hotplate" /\ H!PlateNext
             \/ kind = "flow" /\ F!FlowNext
             \/ kind = "pressure" /\ B!PressureNext
             \/ kind = "supply" /\ S!SupplyNext
          /\ UNCHANGED <<heaterVars, calVars, noteVars, screenVars, setupVars, graphVars, memoryVars, entryVars,
                         busVars>>
       \/ /\ kind = "heater" /\ T!HeaterNext
          /\ UNCHANGED <<vars, calVars, noteVars, screenVars, setupVars, graphVars, memoryVars, entryVars,
                         busVars>>
       \/ /\ kind = "calibrations" /\ C!CalibrationsNext
          /\ UNCHANGED <<vars, heaterVars, noteVars, screenVars, setupVars, graphVars, memoryVars, entryVars,
                         busVars>>
       \/ /\ kind = "notes" /\ N!NotesNext
          /\ UNCHANGED <<vars, heaterVars, calVars, screenVars, setupVars, graphVars, memoryVars, entryVars,
                         busVars>>
       \/ /\ kind = "screen" /\ O!ScreenNext
          /\ UNCHANGED <<vars, heaterVars, calVars, noteVars, setupVars, graphVars, memoryVars, entryVars,
                         busVars>>
       \/ /\ kind = "alicat" /\ A!SetupNext
          /\ UNCHANGED <<vars, heaterVars, calVars, noteVars, screenVars, graphVars, memoryVars, entryVars,
                         busVars>>
       \/ /\ kind = "graph" /\ G!HistoryNext
          /\ UNCHANGED <<vars, heaterVars, calVars, noteVars, screenVars, setupVars, memoryVars, entryVars,
                         busVars>>
       \/ /\ kind = "memory" /\ M!HealthNext
          /\ UNCHANGED <<vars, heaterVars, calVars, noteVars, screenVars, setupVars, graphVars, entryVars,
                         busVars>>
       \/ /\ \/ kind = "set" /\ E!SetNext
             \/ kind = "loop" /\ E!LoopNext
             \/ kind = "end" /\ E!EndNext
          /\ UNCHANGED <<vars, heaterVars, calVars, noteVars, screenVars, setupVars, graphVars, memoryVars,
                         busVars>>
       \/ /\ kind = "bus" /\ Y!BusNext
          /\ UNCHANGED <<vars, heaterVars, calVars, noteVars, screenVars, setupVars, graphVars, memoryVars,
                         entryVars>>
    /\ UNCHANGED kind

all == <<kind, vars, heaterVars, calVars, noteVars, screenVars, setupVars, graphVars, memoryVars,
         entryVars, busVars>>

Spec == Init /\ [][Next]_all

(* No action reads the result that was told last. *)
AllButTold ==
    <<kind, vars, calVars, noteVars, screenVars, setupVars, graphVars, memoryVars, entryVars, busVars,
      registers, autotune, entries, originals, controller, snapshot, asking, monitoring, permitted>>

(* Columns as controllers and meters of several kinds report them: the default order and
   others, one that some driver has no name for. *)
MCFrames ==
    {<<"pressure", "flow", "setpoint", "gas">>, <<"flow", "pressure", "setpoint", "gas">>,
     <<"pressure", "flow", "setpoint", "total", "gas">>, <<"pressure", "setpoint", "flow">>,
     <<"gauge", "pressure", "flow", "setpoint">>, <<"flow", "setpoint">>,
     <<"pressure", "flow", "gas">>, <<"flow", "pressure">>}

(* Recipes of two supplies, of which one has an output current before the step, of a
   back-pressure controller, and of a heater without a safe state. *)
MCRoles == <<"psu", "spare", "bpc", "plate">>
MCSettingsOf ==
    LET supply == <<"current_setpoint", "voltage", "current_limit", "output_enabled">>
    IN [psu |-> supply, spare |-> supply, bpc |-> <<"pressure">>, plate |-> <<"temperature">>]
MCModeOf ==
    [current_setpoint |-> "CC", voltage |-> "CV", current_limit |-> "CV", output_enabled |-> "both",
     pressure |-> "both", temperature |-> "both"]
MCBefore ==
    [given \in {"psu", "spare", "bpc", "plate"} \X DOMAIN MCModeOf |->
        IF given = <<"psu", "current_setpoint">> THEN 4 ELSE Nothing]

Given(name, setting, value, ramp) == [device |-> name, setting |-> setting, value |-> value, ramp |-> ramp]
BySteps(kindOf, start, amount) == [kind |-> kindOf, start |-> start, amount |-> amount]

MCSetSteps ==
    {<<Given("psu", "current_setpoint", 4, BySteps("step_size", Nothing, 2)),
       Given("psu", "output_enabled", 1, Nothing)>>,
     <<Given("bpc", "pressure", 2, Nothing), Given("psu", "voltage", 2, Nothing),
       Given("psu", "current_limit", 4, BySteps("step_count", 2, 1))>>}
MCLoopSteps ==
    {[device |-> "psu", setting |-> "current_setpoint", values |-> <<2, 4, 6>>,
      ramp |-> BySteps("step_count", Nothing, 1)],
     [device |-> "bpc", setting |-> "pressure", values |-> <<2, 4, 2>>, ramp |-> Nothing]}
MCEndSteps ==
    LET Done(action, assignments) == [action |-> action, assignments |-> assignments]
        safe == Done("safe", <<>>)
    IN {[psu |-> safe, spare |-> safe, bpc |-> Done("leave", <<>>), plate |-> safe],
        [psu |-> Done("set", <<Given("psu", "current_setpoint", 2, Nothing),
                               Given("psu", "output_enabled", 1, Nothing)>>),
         spare |-> safe, bpc |-> safe, plate |-> Done("set", <<Given("plate", "temperature", 2, Nothing)>>)]}

MCTyped == {[number |-> 2, typed |-> Nothing], [number |-> 4, typed |-> "A"], Unreadable}
MCLists == {[numbers |-> <<2, 4>>, typed |-> "A"], [numbers |-> <<6, 2, 2>>, typed |-> Nothing], Unreadable}
MCBounds == {-2, 0, 4}

EqualTexts == Permutations(Texts) \cup Permutations(Controllers)

-----------------------------------------------------------------------------

(* Whichever exchange of an operation failed, a pump that turns under the driver turns
   the way it shows (kamoer_m1_stp/driver.py:30), and a hotplate that heats, heats to the
   target it shows and not to the one before (ohaus_guardian_5000/driver.py:229).  A run
   is corrected by the calibrations its metadata names, and the history beside a fit is
   that of its device.  A screen that says it will close when something finishes will, and
   it gives one order at a time.  A controller that described its columns is not read under
   other names, nor a device under the name of another on its port, which is open as long
   as one uses it. *)
RigIsAsShown ==
    /\ kind = "pump" => P!TurnsAsShown
    /\ kind = "hotplate" => H!HeatsToItsTarget
    /\ kind = "calibrations" => C!RunUsesWhatItNames /\ C!ReviewedAsShown
    /\ kind = "screen" => O!CloseIsNotLost /\ O!OneOrder
    /\ kind = "alicat" => A!NamedAsDescribed
    /\ kind = "bus" => Y!BusServesItsClients

(* The notes shown are those in the journal of the run.  The graphs of a run, and of the
   memory of the session, show the extremes of all they are for, however often what they
   are drawn from was condensed, and memory in trouble is warned of.  The step or end state
   an editor hands back is the one it was told, in the same quantities whatever unit they
   were shown in and whatever mode was looked at. *)
RecordIsAsShown ==
    /\ kind = "notes" => N!ShownAsJournaled /\ N!WithinTheirRun
    /\ kind = "graph" => G!ViewsShowExtremes
    /\ kind = "memory" => M!OverviewKeepsExtremes /\ M!WarnsEnough
    /\ kind = "set" => E!StepIsAsMeant
    /\ kind = "loop" => E!LoopIsAsMeant
    /\ kind = "end" => E!EndIsAsMeant

(* Heating is not started over the limit of the run, and the valve at the outlet not
   opened to a setpoint over its ceiling, whatever the front panel set since it was
   last read; and no change of mode raises a supply's current over the ceiling of its
   wiring, whatever current was found and remembered. *)
StartWithinLimit ==
    /\ kind = "hotplate" => H!StartsWithinLimit
    /\ kind = "pressure" => B!OpensWithinCeiling
    /\ kind = "supply" => S!RaisedWithinCeiling

(* Nothing is started over a limit. *)
StartsWithinLimit == [][StartWithinLimit]_all

(* A safe state that is over has stopped its instrument or says that it has not: the
   hotplate names each of its two switches, an acknowledged flow is seen to be zero,
   the valve is seen to be held.  Settings said to be applied or restored are in the
   controller.  A screen does not close before the order and the exports it has under
   way, unless it was told to.  An Alicat is saved as what it is when it is saved.  The
   last record of a monitor of memory is the one that says it has stopped. *)
StepAsTold ==
    /\ kind = "pump" => P!PumpIsToldOn
    /\ kind = "hotplate" => H!PlateIsToldOn
    /\ kind = "flow" => F!FlowIsToldOn
    /\ kind = "pressure" => B!PressureIsToldOpen
    /\ kind = "supply" => S!SupplyIsToldOn
    /\ kind = "heater" => T!SettingsAreAsTold
    /\ kind = "screen" => O!ClosesAfterItsWork
    /\ kind = "alicat" => A!SavedAsItIs
    /\ kind = "memory" => M!StaysStopped

(* What is said to be done, is. *)
DoneAsTold == [][StepAsTold]_all

=============================================================================
