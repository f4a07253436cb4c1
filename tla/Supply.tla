------------------------------- MODULE Supply -------------------------------
(***************************************************************************)
(* A power supply under manual control: the drivers                        *)
(* (devices/keithley_2260b, keithley_2280s, ametek_asterion) and the       *)
(* operator's constant-current and constant-voltage modes                  *)
(* (ui/manual_control/model.py, decisions/0014).  Which of the two         *)
(* registers is a setpoint and which a limit is the mode's, and only the   *)
(* application knows the mode.                                             *)
(*                                                                         *)
(* Settings are read on connection and then believed as written: nothing   *)
(* is read back, and a write that was sent is carried out.  The front      *)
(* panel is used only while the port is closed.  Volts and amperes are     *)
(* whole numbers.                                                          *)
(*                                                                         *)
(* The 2260B has no power limit: MaxPower is then the product of the other *)
(* two.  Only the 2280S reads its output state when polled.                *)
(***************************************************************************)
EXTENDS Instrument, Naturals

CONSTANTS MaxVolts, MaxAmps, MaxPower,  \* PowerSupplyLimits
          WiringCeiling,                \* the active current ceiling
          DefaultVolts, DefaultAmps     \* the settings' starting limits, within the above

(* cached: the driver's registers; the manual mode, and the current and the voltage
   remembered as its target. *)
SupplyTypeOK ==
    /\ device \in [on : BOOLEAN, volts : 0..MaxVolts, amps : 0..MaxAmps]
    /\ cached \in [on : BOOLEAN, volts : 0..MaxVolts, amps : 0..MaxAmps, mode : {"cc", "cv"},
                   current : 0..MaxAmps, voltage : 0..MaxVolts]
    /\ status \in {"disconnected", "ready"}

Believing(on, volts, amps) == [cached EXCEPT !.on = on, !.volts = volts, !.amps = amps]

Valid(volts, amps) == volts <= MaxVolts /\ amps <= MaxAmps /\ volts * amps <= MaxPower

SupplyInit ==
    /\ device \in [on : {FALSE}, volts : 0..MaxVolts, amps : 0..MaxAmps]
    /\ cached = [on |-> FALSE, volts |-> 0, amps |-> 0, mode |-> "cc", current |-> 0, voltage |-> 0]
    /\ status = "disconnected"
    /\ doing = "nothing" /\ todo = <<>> /\ raised = {}

Panel ==
    /\ Idle /\ ~Connected
    /\ device' \in [on : BOOLEAN, volts : 0..MaxVolts, amps : 0..MaxAmps]
    /\ UNCHANGED <<cached, status, opVars>>

(* The supply protects itself. *)
Trips ==
    /\ Idle
    /\ device' = [device EXCEPT !.on = FALSE]
    /\ UNCHANGED <<cached, status, opVars>>

-----------------------------------------------------------------------------
(* initialize_manual_power_supply_defaults, which ends every Connect: the
   compliance limit of the mode gets its default, unless the output is on. *)
Defaults(on) ==
    IF on THEN <<>>
    ELSE IF cached.mode = "cc" THEN <<Set("volts", DefaultVolts)>> ELSE <<Set("amps", DefaultAmps)>>

(* What is found must be within the limits. *)
Connect ==
    /\ Idle /\ ~Connected
    /\ Valid(device.volts, device.amps)
    /\ cached' = Believing(device.on, device.volts, device.amps)
    /\ status' = "ready"
    /\ todo' = Defaults(device.on)
    /\ doing' = IF todo' = <<>> THEN "nothing" ELSE "connect"
    /\ raised' = {}
    /\ UNCHANGED device

ConnectAgain == Connected /\ ~cached.on /\ Begin("connect", Defaults(cached.on))

Poll == Connected /\ Single /\ cached' = [cached EXCEPT !.on = device.on] /\ UNCHANGED <<device, status>>

SetVoltage(volts) == Connected /\ Begin("volts", <<Set("volts", volts)>>)

SetCurrent(amps) == Connected /\ amps <= WiringCeiling /\ Begin("amps", <<Set("amps", amps)>>)

(* Refused with a compliance limit of zero. *)
OutputOn ==
    /\ Connected
    /\ (IF cached.mode = "cc" THEN cached.volts ELSE cached.amps) > 0
    /\ Begin("output", <<Set("on", TRUE)>>)

OutputOff == Connected /\ Begin("output", <<Set("on", FALSE)>>)

(* The new mode's setpoint is as remembered, its limit the default; the mode is
   recorded last.  The exchanges end at the first that fails. *)
SetMode ==
    /\ Connected /\ ~cached.on
    /\ IF cached.mode = "cv"
       THEN /\ cached.current <= WiringCeiling
            /\ Begin("mode", <<Set("amps", cached.current), Set("volts", DefaultVolts), Set("mode", "cc")>>)
       ELSE Begin("mode", <<Set("volts", cached.voltage), Set("amps", DefaultAmps), Set("mode", "cv")>>)

SwitchingOff == <<Set("on", FALSE), Set("volts", 0), Set("amps", 0)>>

SafeState == Connected /\ Begin("safe", SwitchingOff)

(* disconnect() enters the safe state and closes the port in any case. *)
Disconnect == Connected /\ Begin("disconnect", SwitchingOff \o <<Ask("close")>>)

-----------------------------------------------------------------------------
(* A register or the output, validated unless it is on the way to safe; the target
   of the mode is remembered when the operator sets it. *)
MaySend ==
    \/ doing \in {"safe", "disconnect"}
    \/ Now("volts") /\ Valid(Value, cached.amps)
    \/ Now("amps") /\ Valid(cached.volts, Value)
    \/ Now("on") /\ (Value => Valid(cached.volts, cached.amps))

Remembering ==
    CASE doing = "volts" /\ cached.mode = "cv" -> [cached EXCEPT !.voltage = Value]
      [] doing = "amps" /\ cached.mode = "cc" -> [cached EXCEPT !.current = Value]
      [] OTHER -> cached

Sent(register) ==
    /\ Now(register) /\ MaySend
    /\ device' = [device EXCEPT ![register] = Value]
    /\ cached' = [Remembering EXCEPT ![register] = Value]
    /\ Continue(Tail(todo))
    /\ UNCHANGED status

(* Refused by the driver, or a write that raises, whether or not it arrived. *)
NotSent(register) ==
    /\ Now(register)
    /\ device' \in {device} \cup {d \in {[device EXCEPT ![register] = Value]} : MaySend}
    /\ Raised(IF doing = "disconnect" THEN <<Ask("close")>> ELSE <<>>)
    /\ UNCHANGED <<cached, status>>

ModeRecorded ==
    /\ Now("mode")
    /\ cached' = [cached EXCEPT !.mode = Value]
    /\ Continue(<<>>)
    /\ UNCHANGED <<device, status>>

PortClosed ==
    /\ Now("close")
    /\ cached' = Believing(FALSE, 0, 0) /\ status' = "disconnected"
    /\ Continue(<<>>)
    /\ UNCHANGED device

SupplyNext ==
    \/ Panel \/ Trips \/ Connect \/ ConnectAgain \/ Poll
    \/ \E volts \in 0..MaxVolts : SetVoltage(volts)
    \/ \E amps \in 0..MaxAmps : SetCurrent(amps)
    \/ OutputOn \/ OutputOff \/ SetMode \/ SafeState \/ Disconnect
    \/ \E register \in {"on", "volts", "amps"} : Sent(register) \/ NotSent(register)
    \/ ModeRecorded \/ PortClosed

-----------------------------------------------------------------------------
(* A safe state that left the output on has raised. *)
SupplyIsToldOn == Over("safe") /\ device'.on => raised' # {}

(* What manual control makes of the current register is within the active ceiling. *)
RaisedWithinCeiling == ~Idle /\ device'.amps > device.amps => device'.amps <= WiringCeiling

=============================================================================
