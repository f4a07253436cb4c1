--------------------------- MODULE SettingsScreen ---------------------------
(***************************************************************************)
(* The settings of the program (app_settings.py): the screen that changes  *)
(* them (ui/home/settings_window.py), the session that is built with them  *)
(* and the files they are kept in (ui/home/model.py,                       *)
(* app_settings_loading.py, app_settings_writing.py, app_selection.py).    *)
(*                                                                         *)
(* Of the settings there are those that raise a limit of the rig, which    *)
(* the operator is asked about, and the units for readings, which the      *)
(* screen does not show.  The others are as the maximum.                   *)
(***************************************************************************)
EXTENDS Naturals

CONSTANTS Files,
          Maxima,        \* of pressure, typed or in files; one that is not positive is 0
          Normal,        \* the ceiling of the rig
          MaxTicks, MaxWrites,    \* bounds: changes of the sheet, and saves
          Unreadable, Absent

Default == [pressure |-> FALSE, maximum |-> Normal, current |-> FALSE, units |-> "native"]

VARIABLES inForce,       \* _settings
          builtWith,     \* the settings of the session
          namedFile,     \* _settings_path
          remembered,    \* the file of the next start
          disk, kept,    \* files and their backups
          sheet,         \* the open screen, or Absent
          working,       \* the settings Operation was opened with, or Absent
          agreed,        \* what the operator was asked about, or chose with a file (history)
          ticks, writes,
          saidSaved      \* the last action said so (history)

settingVars ==
    <<inForce, builtWith, namedFile, remembered, disk, kept, sheet, working, agreed, ticks, writes,
      saidSaved>>

Raises(settings) == settings.pressure /\ settings.maximum > Normal

Limits(settings) ==
    {limit \in {"pressure", "maximum", "current"} :
        CASE limit = "pressure" -> settings.pressure
          [] limit = "maximum"  -> settings.maximum > Normal
          [] limit = "current"  -> settings.current}

(* refresh(): ticks of which none was agreed to on this sheet. *)
Sheet(page, settings) ==
    [page |-> page, pressure |-> settings.pressure, maximum |-> settings.maximum,
     current |-> settings.current, confirmed |-> {}]

Refreshed(settings) == sheet' = Sheet(sheet.page, settings)

(* A session that was built and one that was closed without failures. *)
Runs(settings) == inForce' = settings /\ builtWith' = settings

SettingsInit ==
    /\ disk \in [Files -> {Default, [Default EXCEPT !.units = "chosen", !.maximum = Normal + 1],
                           [Default EXCEPT !.pressure = TRUE, !.maximum = Normal + 1], Absent}]
    /\ kept = [file \in Files |-> Absent]
    /\ remembered \in {file \in Files : disk[file] # Absent}
    /\ namedFile = remembered /\ inForce = disk[remembered] /\ builtWith = inForce
    /\ agreed = Limits(inForce)
    /\ sheet = Absent /\ working = Absent /\ ticks = 0 /\ writes = 0 /\ saidSaved = FALSE

(* The program ends, and starts with what it remembers. *)
Restart ==
    /\ namedFile' = remembered /\ Runs(disk[remembered]) /\ agreed' = Limits(disk[remembered])
    /\ sheet' = Absent /\ working' = Absent /\ saidSaved' = FALSE
    /\ UNCHANGED <<remembered, disk, kept, ticks, writes>>

-----------------------------------------------------------------------------
(* The home screen. *)

Others(changed) ==
    /\ IF changed = "sheet" THEN UNCHANGED working ELSE UNCHANGED sheet
    /\ saidSaved' = FALSE
    /\ UNCHANGED <<inForce, builtWith, namedFile, remembered, disk, kept, agreed, writes>>

(* A sheet is not opened in front of Operation, but may stay open behind it. *)
OpenSheet ==
    /\ sheet = Absent /\ working = Absent
    /\ sheet' = Sheet("application", inForce)
    /\ Others("sheet") /\ UNCHANGED ticks

CloseSheet ==
    /\ sheet # Absent /\ sheet' = Absent
    /\ Others("sheet") /\ UNCHANGED ticks

OpenOperation ==
    /\ working = Absent /\ working' = builtWith
    /\ Others("working") /\ UNCHANGED ticks

CloseOperation ==
    /\ working # Absent /\ working' = Absent
    /\ Others("working") /\ UNCHANGED ticks

-----------------------------------------------------------------------------
(* The sheet. *)

EditSheet(edited) ==
    /\ ticks < MaxTicks /\ ticks' = ticks + 1
    /\ sheet' = edited /\ Others("sheet")

TurnPage ==
    /\ sheet # Absent
    /\ \E page \in {"application", "instruments"} : sheet' = [sheet EXCEPT !.page = page]
    /\ Others("sheet") /\ UNCHANGED ticks

TypeMaximum ==
    /\ sheet # Absent /\ sheet.page = "application" /\ sheet.pressure
    /\ \E text \in Maxima \cup {Unreadable} : EditSheet([sheet EXCEPT !.maximum = text])

(* Ticked only if the operator confirms it (or see Decline). *)
TickPressure ==
    /\ sheet # Absent /\ sheet.page = "application"
    /\ IF sheet.pressure
       THEN EditSheet([sheet EXCEPT !.pressure = FALSE, !.confirmed = @ \ {"pressure"}])
       ELSE EditSheet([sheet EXCEPT !.pressure = TRUE, !.confirmed = @ \cup {"pressure"}])

TickCurrent ==
    /\ sheet # Absent /\ sheet.page = "application"
    /\ IF sheet.current
       THEN EditSheet([sheet EXCEPT !.current = FALSE, !.confirmed = @ \ {"current"}])
       ELSE EditSheet([sheet EXCEPT !.current = TRUE, !.confirmed = @ \cup {"current"}])

(* A maximum over the ceiling of the rig is asked about whenever it is applied. *)
Asks == sheet.pressure /\ sheet.maximum # Unreadable /\ sheet.maximum > Normal

(* What the sheet does not show gets its default. *)
Written == [Default EXCEPT !.pressure = sheet.pressure, !.maximum = sheet.maximum,
                           !.current = sheet.current]

(* _positive_number() *)
Positive(number) == number > 0

(* parse_setting_text(): each has to be valid, in use or not. *)
Valid == sheet.maximum # Unreadable /\ Positive(sheet.maximum)

(* Mutation: settings are applied behind an open screen. *)
AppliedBehindScreen ==
    /\ Valid
    /\ Runs(Written) /\ Refreshed(Written)
    /\ agreed' = Limits(Written)

(* _apply(), of which nothing was refused. *)
Applied ==
    /\ working = Absent /\ Valid
    /\ Runs(Written) /\ Refreshed(Written)
    /\ agreed' = {limit \in Limits(Written) :
                     IF limit = "maximum" THEN Asks ELSE limit \in agreed \cup sheet.confirmed}

Apply ==
    /\ sheet # Absent /\ sheet.page = "application" /\ Applied
    /\ saidSaved' = FALSE
    /\ UNCHANGED <<namedFile, remembered, disk, kept, working, ticks, writes>>

(* The operator does not confirm the maximum, or a tick: the sheet stays as it is. *)
Decline ==
    /\ sheet # Absent /\ sheet.page = "application"
    /\ Asks \/ ~sheet.pressure \/ ~sheet.current
    /\ UNCHANGED sheet /\ Others("sheet") /\ UNCHANGED ticks

(* A screen is active, a value not valid, or the session not built or not closed. *)
ApplyFails ==
    /\ sheet # Absent /\ sheet.page = "application"
    /\ Refreshed(inForce) /\ Others("sheet") /\ UNCHANGED ticks

-----------------------------------------------------------------------------
(* Files. *)

(* save_settings(): a copy is made of the file, it is replaced by one written beside it,
   and becomes the one to be remembered.  Each of them may fail. *)
WriteSettings(settings, file) ==
    \E done \in {"nothing", "backup", "replaced", "all"} :
        /\ kept' = IF done # "nothing" /\ disk[file] # Absent
                   THEN [kept EXCEPT ![file] = disk[file]] ELSE kept
        /\ disk' = IF done \in {"replaced", "all"} THEN [disk EXCEPT ![file] = settings] ELSE disk
        /\ namedFile' = IF done \in {"replaced", "all"} THEN file ELSE namedFile
        /\ remembered' = IF done = "all" THEN file ELSE remembered
        /\ saidSaved' = (done = "all")

(* Save to the file in use, or as another: once the sheet was applied. *)
Save ==
    /\ sheet # Absent /\ sheet.page = "application" /\ Applied
    /\ writes < MaxWrites /\ writes' = writes + 1
    /\ \E file \in Files : WriteSettings(Written, file)
    /\ UNCHANGED <<working, ticks>>

(* Save as is there beside an instrument too, whose settings are what is then applied. *)
SaveBesideInstrument ==
    /\ sheet # Absent /\ sheet.page = "instruments"
    /\ writes < MaxWrites /\ writes' = writes + 1
    /\ \E file \in Files : WriteSettings(inForce, file)
    /\ Refreshed(inForce)
    /\ UNCHANGED <<inForce, builtWith, working, agreed, ticks>>

(* select_settings(): of a file that was chosen nothing is asked.  It may be in force
   and not remembered. *)
ChooseFile(file) ==
    /\ sheet # Absent /\ working = Absent /\ disk[file] # Absent
    /\ Runs(disk[file]) /\ Refreshed(disk[file]) /\ agreed' = Limits(disk[file])
    /\ namedFile' = file /\ remembered' \in {remembered, file}
    /\ saidSaved' = FALSE
    /\ UNCHANGED <<disk, kept, working, ticks, writes>>

SettingsNext ==
    \/ Restart \/ OpenSheet \/ CloseSheet \/ OpenOperation \/ CloseOperation
    \/ TurnPage \/ TypeMaximum \/ TickPressure \/ TickCurrent
    \/ Apply \/ Decline \/ ApplyFails \/ Save \/ SaveBesideInstrument
    \/ \E file \in Files : ChooseFile(file)

SettingsSpec == SettingsInit /\ [][SettingsNext]_settingVars

-----------------------------------------------------------------------------

(* However sheets are edited, refused, refreshed and saved, a limit is raised only as the
   operator agreed to, on the sheet or by choosing the file; the session, and Operation
   while it is open, work with the settings in force. *)
RaisedAsAgreed ==
    /\ inForce.pressure => "pressure" \in agreed
    /\ inForce.current => "current" \in agreed
    /\ Raises(inForce) => "maximum" \in agreed
    /\ builtWith = inForce
    /\ working \in {Absent, inForce}

(* A file changes only to what is in force, with what it held in its backup; and when it
   is said to be saved, the next start uses it. *)
SavedAsInForce ==
    /\ \A file \in Files :
          disk'[file] # disk[file] =>
             disk'[file] = inForce' /\ (disk[file] # Absent => kept'[file] = disk[file])
    /\ saidSaved' => remembered' = namedFile' /\ disk'[remembered'] = inForce'

(* Every step leaves limits raised as the operator agreed, and saves what is in force. *)
StepAsAgreed == RaisedAsAgreed' /\ SavedAsInForce

(* Limits are raised as the operator agreed, and files saved as what is in force. *)
SettingsAsAgreed == [][StepAsAgreed]_settingVars

=============================================================================
