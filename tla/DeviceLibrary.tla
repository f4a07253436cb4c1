--------------------------- MODULE DeviceLibrary ---------------------------
(***************************************************************************)
(* The rig profiles on disk, Device Setup that edits one of them           *)
(* (ui/device_setup), and the home screen that runs a session from one     *)
(* (ui/home/model.py).  Everything here happens on the Tk thread, and a    *)
(* process that ends inside a save leaves what a failure at that step      *)
(* leaves.                                                                 *)
(***************************************************************************)
EXTENDS RigProfile

CONSTANTS DeviceIds,    \* what the operator names devices
          Paths,        \* profile files
          Shipped,      \* the templates among them
          Template,     \* what a template holds
          Saved,        \* profiles of an earlier day
          MaxSaves,     \* bound: saves attempted
          Missing, Torn, None

(* What a profile consists of. *)
Names == DeviceIds \cup {Controller} \cup DOMAIN SensorDriver

Bases == {"alicat_bus", "keithley_2260b_ethernet", "guardian_serial", "thermocouple_serial",
          "ezo_hum_serial", "pump_serial", "serial"}

Drivers == Validated \cup {"ohaus_guardian_5000", "atlas_ezo_hum", "esp32_json", "esp32_dht11",
                           "lumel_re72"}

ConnectionIds == [base : Bases, target : Ports \cup Hosts \cup {Controller}, number : Nat]

Lines == [id : ConnectionIds, port : Ports \cup Hosts, fit : {"fit", "unfit", "unnamed"}]

Roles == [driver : Drivers, enabled : BOOLEAN, connection : ConnectionIds,
          address : Addresses \cup {NoAddress}, fit : BOOLEAN]

IsProfile(profile) ==
    \E used \in SUBSET Names :
        profile \in [roles : [used -> Roles], connections : Seq(Lines), details : Details]

(* The connections are those of the devices, and each has its name.  Only Alicats share
   one with an Alicat, and nobody with another instrument that is validated. *)
Wired(profile) ==
    LET roles == profile.roles
        connections == profile.connections
    IN /\ \A i, j \in DOMAIN connections : connections[i].id = connections[j].id => i = j
       /\ {connections[i].id : i \in DOMAIN connections} =
             {roles[d].connection : d \in DOMAIN roles}
       /\ \A d, e \in DOMAIN roles :
             d # e /\ roles[d].connection = roles[e].connection =>
                \/ roles[d].driver = "alicat" /\ roles[e].driver = "alicat"
                \/ roles[d].driver \notin Validated /\ roles[e].driver \notin Validated

Checked(profile) ==
    \A d \in Enabled(profile) :
        profile.roles[d].driver \in Validated => Accepts(profile, d)

(* The profiles there were before are such as Device Setup makes. *)
ASSUME ProfilesAssumption ==
    /\ \A profile \in Saved \cup {Template} :
          IsProfile(profile) /\ Wired(profile) /\ Checked(profile)
    /\ Shipped \subseteq Paths
    /\ ~IsProfile(Torn)

VARIABLES files,     \* what each path holds
          backups,   \* and its .bak beside it
          program,   \* "ended", or what is open: "home", "screen", "setup"
          home,      \* HomeViewModel: path and profile; what its session was built from
          editor,    \* ProfileEditor of Device Setup: path and profile
          trouble,   \* how the last return from Device Setup failed (history)
          saves

library == <<files, backups, program, home, editor, trouble, saves>>

LibraryInit ==
    /\ \E path \in Paths \ Shipped, profile \in Saved :
          files = [p \in Paths |-> IF p \in Shipped THEN Template
                                   ELSE IF p = path THEN profile ELSE Missing]
    /\ backups = [p \in Paths |-> Missing]
    /\ program = "ended" /\ home = None /\ editor = None
    /\ trouble = "none" /\ saves = 0

-----------------------------------------------------------------------------
(* Saving: back the file up, write beside it, replace it.  A failure before the backup
   is begun changes nothing. *)

Outcomes == {"backup torn", "backed up", "replaced"}

Replaced(path, profile, outcome) ==
    IF outcome = "replaced" THEN [files EXCEPT ![path] = profile] ELSE files

(* Mutation: a backup that is there is kept. *)
BackedUpOnce(path, outcome) ==
    IF files[path] = Missing \/ backups[path] # Missing THEN backups
    ELSE [backups EXCEPT ![path] = files[path]]

BackedUp(path, outcome) ==
    IF files[path] = Missing THEN backups
    ELSE [backups EXCEPT ![path] = IF outcome = "backup torn" THEN Torn ELSE files[path]]

(* Mutation: the editor goes on from what was to be saved. *)
PublishFirst(path, profile) ==
    /\ program = "setup" /\ path \notin Shipped
    /\ saves < MaxSaves /\ saves' = saves + 1
    /\ editor' = [path |-> path, profile |-> profile]
    /\ \E outcome \in Outcomes :
          /\ files' = Replaced(path, profile, outcome)
          /\ backups' = BackedUp(path, outcome)
    /\ UNCHANGED <<program, home, trouble>>

(* Templates are not written.  The editor goes on from what was saved. *)
Write(path, profile) ==
    /\ program = "setup" /\ path \notin Shipped
    /\ saves < MaxSaves /\ saves' = saves + 1
    /\ \E outcome \in Outcomes :
          /\ files' = Replaced(path, profile, outcome)
          /\ backups' = BackedUp(path, outcome)
          /\ editor' = IF outcome = "replaced" THEN [path |-> path, profile |-> profile]
                                               ELSE editor
    /\ UNCHANGED <<program, home, trouble>>

Commit(profile) == Write(editor.path, profile)

-----------------------------------------------------------------------------
(* Device Setup. *)

InSetup == program = "setup"

(* A new device answered its read-only check before it is saved. *)
AddChecked(d, candidates) ==
    \E candidate \in candidates : Accepts(candidate, d) /\ Commit(candidate)

AddAlicat(d, port, address) ==
    InSetup /\ AddChecked(d, WithNewAlicat(editor.profile, d, port, address))

AddSupply(d, host) == InSetup /\ AddChecked(d, WithNewSupply(editor.profile, d, host))

AddGuardian(d, port) == InSetup /\ AddChecked(d, WithNewGuardian(editor.profile, d, port))

AddTemperatureProbe(d, port) ==
    InSetup /\ AddChecked(d, WithNewTemperatureProbe(editor.profile, d, port))

AddEzoHum(d, port) == InSetup /\ AddChecked(d, WithNewEzoHum(editor.profile, d, port))

AddPump(d, port) == InSetup /\ AddChecked(d, WithNewPump(editor.profile, d, port))

AddBoard(port, chosen) ==
    InSetup /\ \E candidate \in WithBoard(editor.profile, port, chosen) : Commit(candidate)

UpdateDevice(d, edit) ==
    LET candidate == Edited(editor.profile, d, edit)
    IN Validates(candidate, d) /\ Commit(candidate)

RemoveDevice(d) == Commit(Without(editor.profile, d))

UpdateIdentity == InSetup /\ Commit(Reworded(editor.profile))

UpdateInterval(d) == Commit(Reworded(editor.profile))

(* Asked of an Alicat that is read first. *)
AcknowledgeInstallation(d) ==
    /\ editor.profile.roles[d].driver = "alicat"
    /\ d \in Enabled(editor.profile) /\ Accepts(editor.profile, d)
    /\ Commit(Reworded(editor.profile))

(* A template is copied to a path that is not in use. *)
MakeEditableCopy(path) ==
    /\ InSetup /\ editor.path \in Shipped
    /\ files[path] = Missing
    /\ Write(path, editor.profile)

SaveAs(path) == InSetup /\ Write(path, editor.profile)

CreateNew(path) == InSetup /\ Write(path, Blank)

(* Also Reload. *)
SwitchProfile(path) ==
    /\ InSetup /\ files[path] # Missing
    /\ editor' = [path |-> path, profile |-> files[path]]
    /\ UNCHANGED <<files, backups, program, home, trouble, saves>>

EditProfile ==
    \/ \E d \in DeviceIds, port \in Ports :
          \/ \E address \in Addresses : AddAlicat(d, port, address)
          \/ AddGuardian(d, port)
          \/ AddTemperatureProbe(d, port)
          \/ AddEzoHum(d, port)
          \/ AddPump(d, port)
    \/ \E d \in DeviceIds, host \in Hosts : AddSupply(d, host)
    \/ \E port \in Ports, chosen \in SUBSET DOMAIN SensorDriver : AddBoard(port, chosen)
    \/ /\ InSetup
       /\ \E d \in Configured(editor.profile) :
             \/ \E edit \in Edits(editor.profile, d) : UpdateDevice(d, edit)
             \/ RemoveDevice(d)
             \/ UpdateInterval(d)
             \/ AcknowledgeInstallation(d)
    \/ UpdateIdentity
    \/ \E path \in Paths :
          MakeEditableCopy(path) \/ SaveAs(path) \/ CreateNew(path) \/ SwitchProfile(path)

-----------------------------------------------------------------------------
(* The home screen. *)

Running(path, profile) == [path |-> path, profile |-> profile, session |-> profile]

Loads(path) == files[path] # Missing /\ Buildable(files[path])

(* At the path remembered, or the one on the command line. *)
Start(path) ==
    /\ program = "ended" /\ Loads(path)
    /\ program' = "home" /\ home' = Running(path, files[path])
    /\ UNCHANGED <<files, backups, editor, trouble, saves>>

SelectProfile(path) ==
    /\ program = "home" /\ Loads(path)
    /\ home' = Running(path, files[path]) /\ trouble' = "none"
    /\ UNCHANGED <<files, backups, program, editor, saves>>

(* Operation or Diagnostics, one of them or both. *)
OpenScreen ==
    /\ program = "home" /\ program' = "screen"
    /\ UNCHANGED <<files, backups, home, editor, trouble, saves>>

CloseScreens ==
    /\ program = "screen" /\ program' = "home"
    /\ UNCHANGED <<files, backups, home, editor, trouble, saves>>

(* The session is closed first; when that fails Device Setup does not open. *)
OpenSetup ==
    /\ program = "home" /\ program' = "setup"
    /\ editor' = [path |-> home.path, profile |-> home.profile]
    /\ UNCHANGED <<files, backups, home, trouble, saves>>

(* The path is taken over before the file is read, the profile before a session is
   built from it. *)
CloseSetup ==
    LET path == editor.path
    IN /\ program = "setup" /\ program' = "home" /\ editor' = None
       /\ \/ /\ home' = [home EXCEPT !.path = path]
             /\ trouble' = "unread"
          \/ /\ ~Buildable(files[path])
             /\ home' = [home EXCEPT !.path = path, !.profile = files[path]]
             /\ trouble' = "unbuilt"
          \/ /\ Buildable(files[path])
             /\ home' = Running(path, files[path])
             /\ trouble' = "none"
       /\ UNCHANGED <<files, backups, saves>>

End ==
    /\ program # "ended" /\ program' = "ended"
    /\ home' = None /\ editor' = None /\ trouble' = "none"
    /\ UNCHANGED <<files, backups, saves>>

LibraryNext ==
    \/ EditProfile
    \/ \E path \in Paths : Start(path) \/ SelectProfile(path)
    \/ OpenScreen \/ CloseScreens \/ OpenSetup \/ CloseSetup \/ End

LibrarySpec == LibraryInit /\ [][LibraryNext]_library

-----------------------------------------------------------------------------

(* Every device that Device Setup validates can be built from the file it was saved
   in, after whatever sequence of additions, edits, disablings and removals, with
   connections shared or not; and no connection is left behind. *)
LibraryIsSound ==
    \A path \in Paths :
        files[path] # Missing =>
            LET profile == files[path]
            IN /\ \A d \in Enabled(profile) :
                     profile.roles[d].driver \in Validated => Accepts(profile, d)
               /\ {connection.id : connection \in Connections(profile)} =
                     {profile.roles[d].connection : d \in Configured(profile)}

(* Device Setup edits what its file holds, and the session that runs was built from
   the file the home screen names, whichever save failed and whatever was switched,
   copied and selected; unless the return from Device Setup failed, which says so. *)
UsesWhatIsSaved ==
    /\ InSetup /\ trouble # "unread" => editor.profile = files[editor.path]
    /\ program \in {"home", "screen"} /\ trouble # "unread" =>
          home.profile = files[home.path]
    /\ program \in {"home", "screen"} /\ trouble = "none" => home.session = home.profile

(* What a step may do to files. *)
StepLosesNothing ==
    \A path \in Paths :
        files'[path] # files[path] =>
           /\ path \notin Shipped /\ files'[path] # Torn
           /\ files[path] # Missing => backups'[path] = files[path]

(* A file changes only to another whole profile, and what it held is in its backup;
   a template does not change at all. *)
NothingSavedIsLost == [][StepLosesNothing]_library

=============================================================================
