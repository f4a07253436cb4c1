---------------------------- MODULE AlicatSetup ----------------------------
(***************************************************************************)
(* How the readings of an Alicat get their names.  A status frame is       *)
(* values in an order that the instrument is configured with; its          *)
(* description of that order may be illegible or not be answered.  Device  *)
(* Setup finds out what the instrument is and in which order it reports    *)
(* (diagnostics/alicat.py, devices/alicat/verification.py), checks it and  *)
(* saves it (ui/device_setup/model.py); a session reads by what was saved  *)
(* (devices/alicat/protocol.py, control_support.py).                       *)
(*                                                                         *)
(* The columns temperature and volumetric flow are as the one for flow.    *)
(* Left out: units, ranges, identity and status codes.                     *)
(***************************************************************************)
EXTENDS Sequences, SequencesExt

CONSTANTS Frames,      \* orders of columns that instruments are configured with
          Nothing

(* A controller always reports a setpoint (diagnostics/alicat.py:165). *)
IsController(frame) == Contains(frame, "setpoint")

Units == {unit \in [frame : Frames, legible : BOOLEAN,
                    loop : {"flow", "pressure", "other", "none"}, inverse : BOOLEAN] :
             IsController(unit.frame) <=> unit.loop # "none"}

VARIABLES unit,        \* the instrument at the address
          form,        \* of Device Setup: "closed", "open", "warned", "checking"
          probed,      \* what was found before the check
          saved,       \* the device in the profile, or Nothing
          reading,     \* its driver is connected
          conf,        \* control_configuration: the described columns, or Nothing
          shown,       \* the frame of the last reading, or Nothing
          reordered    \* the columns changed since conf was read (history)

setupVars == <<unit, form, probed, saved, reading, conf, shown, reordered>>

SetupInit ==
    /\ unit \in Units /\ form = "closed" /\ probed = Nothing /\ saved = Nothing
    /\ reading = FALSE /\ conf = Nothing /\ shown = Nothing /\ reordered = FALSE

(* The front panel, or another instrument of its kind at the address. *)
Reconfigure ==
    /\ unit' \in Units /\ (unit'.loop = "none" <=> unit.loop = "none")
    /\ reordered' = (reordered \/ unit'.frame # unit.frame)
    /\ UNCHANGED <<form, probed, saved, reading, conf, shown>>

-----------------------------------------------------------------------------
(* What replies tell. *)

(* role_from_loop() *)
Role(live) == IF live.loop = "pressure" /\ live.inverse THEN "bpr"
              ELSE IF live.loop = "flow" /\ ~live.inverse THEN "mfc" ELSE Nothing

Default == <<"pressure", "flow", "setpoint", "gas">>

(* parse_frame_layout(): the columns if enough of them are known. *)
Layout(live) ==
    IF live.legible /\ {"pressure", "flow"} \subseteq ToSet(live.frame) THEN live.frame ELSE Nothing

(* A pressure that is not read by any driver. *)
Unsupported(live) == live.legible /\ Contains(live.frame, "gauge")

(* _parse_state(): no number is missing, or left over, or not a number.  Words may be left
   over: they are taken for status codes. *)
Decodes(fields, frame) ==
    /\ Len(fields) <= Len(frame)
    /\ \A i \in DOMAIN frame :
          IF i \in DOMAIN fields THEN frame[i] = "gas" => fields[i] = "gas" ELSE frame[i] = "gas"

Named(fields, frame) == \A i \in DOMAIN fields : fields[i] = frame[i]

Found(kind, fields) == [kind |-> kind, fields |-> fields]

(* probe_alicat_device(), by the queries that were answered.  Nothing: not usable. *)
Probe(described, asked) ==
    LET columns == IF described THEN Layout(unit) ELSE Nothing
        fields == IF columns = Nothing \/ ~IsController(columns) THEN Default ELSE columns
    IN IF described /\ Unsupported(unit) THEN Nothing
       ELSE IF unit.loop # "none" /\ asked
       THEN IF Role(unit) = Nothing THEN Nothing ELSE Found(Role(unit), fields)
       ELSE IF columns = Nothing \/ IsController(columns) THEN Nothing ELSE Found("meter", columns)

-----------------------------------------------------------------------------
(* Device Setup: Detect and save. *)

Form(now, next) == form = now /\ form' = next /\ UNCHANGED <<unit, reading, conf, shown, reordered>>

OpenForm == Form("closed", "open") /\ ~reading /\ saved = Nothing /\ UNCHANGED <<probed, saved>>

CloseForm == Form("open", "closed") /\ UNCHANGED <<probed, saved>>

(* add_alicat_and_check() begins: a back-pressure controller is saved by a second call,
   once its installation is acknowledged. *)
Detect(acknowledged, described, asked) ==
    LET found == Probe(described, asked)
        next == IF found = Nothing THEN "open"
                ELSE IF found.kind = "bpr" /\ ~acknowledged THEN "warned" ELSE "checking"
    IN /\ Form(IF acknowledged THEN "warned" ELSE "open", next)
       /\ probed' = IF next = "checking" THEN found ELSE Nothing
       /\ UNCHANGED saved

Decline == Form("warned", "open") /\ UNCHANGED <<probed, saved>>

(* _confirm_alicat_frame(): the configuration was read, and the setpoint that is reported
   is the one in the column of that name -- or one that reads the same.  No readback
   passes. *)
Confirmed(configured, readback, coincident) ==
    \/ probed.kind = "meter"
    \/ /\ configured /\ Role(unit) = probed.kind
       /\ readback => \/ coincident
                      \/ \E i \in DOMAIN probed.fields :
                            probed.fields[i] = "setpoint" /\ unit.frame[i] = "setpoint"

(* The check reads a frame by what will be saved. *)
Check(configured, readback, coincident) ==
    LET passed == /\ Decodes(probed.fields, unit.frame)
                  /\ Confirmed(configured, readback, coincident)
    IN /\ Form("checking", IF passed THEN "closed" ELSE "open")
       /\ saved' = IF passed THEN probed ELSE saved
       /\ probed' = Nothing

RemoveDevice ==
    /\ form = "closed" /\ ~reading /\ saved # Nothing /\ saved' = Nothing
    /\ UNCHANGED <<unit, form, probed, reading, conf, shown, reordered>>

-----------------------------------------------------------------------------
(* A session: the three drivers. *)

Full == [columns |-> Layout(unit), unsupported |-> Unsupported(unit)]

(* frame_mismatch() *)
Matches(configuration) ==
    ~configuration.unsupported /\ configuration.columns \in {saved.fields, Nothing}

(* verify_role() *)
InRole == Role(unit) = saved.kind

(* A back-pressure controller is not read from.  A controller that is found otherwise
   than it was saved is connected, for reading. *)
Connect(answered, full) ==
    /\ saved # Nothing /\ form = "closed" /\ ~reading
    /\ reading' = (saved.kind = "bpr" \/ (answered /\ Decodes(saved.fields, unit.frame)))
    /\ IF reading' /\ full /\ saved.kind # "meter"
       THEN conf' = Full /\ reordered' = FALSE
       ELSE UNCHANGED <<conf, reordered>>
    /\ UNCHANGED <<unit, form, probed, saved, shown>>

(* disconnect(), also of one that is FAULTED. *)
Disconnect ==
    /\ reading /\ reading' = FALSE
    /\ conf' = Nothing /\ shown' = Nothing
    /\ UNCHANGED <<unit, form, probed, saved, reordered>>

(* verify_control(): in full until it was read once.  Not cleared by what it finds. *)
Verified == IF conf = Nothing THEN conf' = Full /\ reordered' = FALSE ELSE UNCHANGED <<conf, reordered>>

Answers ==
    /\ Decodes(saved.fields, unit.frame)
    /\ shown' = unit.frame

ReadMeter ==
    /\ reading /\ saved.kind = "meter" /\ Answers
    /\ UNCHANGED <<unit, form, probed, saved, reading, conf, reordered>>

ReadController ==
    /\ reading /\ saved.kind # "meter"
    /\ Verified /\ Matches(conf') /\ InRole /\ Answers
    /\ UNCHANGED <<unit, form, probed, saved, reading>>

(* Blocked: what was read of the configuration stays. *)
ReadFails ==
    /\ reading /\ saved.kind # "meter"
    /\ Verified
    /\ UNCHANGED <<unit, form, probed, saved, reading, shown>>

SetupNext ==
    \/ Reconfigure \/ OpenForm \/ CloseForm \/ Decline \/ RemoveDevice
    \/ \E acknowledged, described, asked \in BOOLEAN : Detect(acknowledged, described, asked)
    \/ \E configured, readback, coincident \in BOOLEAN : Check(configured, readback, coincident)
    \/ \E answered, full \in BOOLEAN : Connect(answered, full)
    \/ Disconnect \/ ReadMeter \/ ReadController \/ ReadFails

-----------------------------------------------------------------------------

(* A controller that described its columns since it was connected is never read under
   other names, unless its columns were changed meanwhile. *)
NamedAsDescribed ==
    shown # Nothing /\ conf # Nothing /\ ~reordered =>
        conf.columns = Nothing \/ Named(saved.fields, shown)

(* A device is saved as what the instrument is when it is saved, not when it was found. *)
SavedAsItIs ==
    saved' \notin {saved, Nothing} =>
        saved'.kind = IF unit.loop = "none" THEN "meter" ELSE Role(unit)

=============================================================================
