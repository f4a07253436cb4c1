------------------------- MODULE PressureController -------------------------
(***************************************************************************)
(* The back-pressure controller at the rig's outlet                        *)
(* (devices/alicat/pressure.py, control_support.py, protocol.py).  Its     *)
(* safe state holds the valve closed; regulation is resumed by the         *)
(* operator, at the setpoint the instrument has, which its front panel may *)
(* have changed.                                                           *)
(*                                                                         *)
(* Pressures are whole numbers, Ceiling the least of the policy's, the     *)
(* installation's and the instrument's maximum.  Left out: units, the      *)
(* tolerance of a readback, the lower end of the instrument's range,       *)
(* retries of a read, and the events a verification emits.                 *)
(***************************************************************************)
EXTENDS Instrument, Naturals

CONSTANTS Pressures, Ceiling

(* device: its setpoint, the valve on hold, and the role it is in.  After a
   connection that failed the driver is FAULTED, with the port closed. *)
PressureTypeOK ==
    /\ device \in [setpoint : Pressures, hold : BOOLEAN, role : {"bpr", "other"}]
    /\ cached.setpoint \in Pressures \cup {Unknown}
    /\ cached.hold \in {TRUE, FALSE, Unknown}
    /\ cached.port \in BOOLEAN
    /\ status \in {"disconnected", "ready", "faulted"}

NothingKnown(port) == [setpoint |-> Unknown, hold |-> Unknown, port |-> port]

PressureInit ==
    /\ device \in [setpoint : Pressures, hold : {FALSE}, role : {"bpr"}]
    /\ cached = NothingKnown(FALSE)
    /\ status = "disconnected"
    /\ doing = "nothing" /\ todo = <<>> /\ raised = {}

Panel ==
    /\ Idle
    /\ device' \in [setpoint : Pressures, hold : BOOLEAN, role : {"bpr", "other"}]
    /\ UNCHANGED <<cached, status, opVars>>

-----------------------------------------------------------------------------
(* A role that is not the saved one leaves a connection to read from. *)
Connect(ok) ==
    /\ status = "disconnected" /\ Single
    /\ cached' = NothingKnown(ok)
    /\ status' = IF ok THEN "ready" ELSE "faulted"
    /\ UNCHANGED device

(* The valve stays as it is. *)
Disconnect ==
    /\ Connected /\ Single
    /\ cached' = NothingKnown(FALSE) /\ status' = "disconnected"
    /\ UNCHANGED device

(* A poll, of a FAULTED controller too; one that fails changes no status. *)
Poll(ok) ==
    /\ Connected /\ Single
    /\ ok => cached.port /\ device.role = "bpr"
    /\ cached' = IF ok THEN [cached EXCEPT !.setpoint = device.setpoint, !.hold = device.hold] ELSE cached
    /\ UNCHANGED <<device, status>>

SetPressure(pressure) ==
    /\ status = "ready"
    /\ pressure \in 1..Ceiling
    /\ Begin("set", <<Ask("role"), Set("setpoint", pressure), Set("confirm", pressure)>>)

SafeState == Connected /\ Begin("safe", <<Ask("role"), Set("hold", TRUE)>>)

Resume == status = "ready" /\ Begin("resume", <<Ask("role"), Ask("limit"), Set("hold", FALSE)>>)

-----------------------------------------------------------------------------
(* Their exchanges. *)

RoleConfirmed ==
    /\ Now("role") /\ cached.port /\ device.role = "bpr"
    /\ Continue(Tail(todo))
    /\ UNCHANGED <<device, cached, status>>

RoleNotConfirmed ==
    /\ Now("role")
    /\ Raise
    /\ UNCHANGED <<device, cached, status>>

(* The setpoint is written; no answer tells whether it was taken. *)
Written(ok) ==
    /\ Now("setpoint")
    /\ device' \in {device, [device EXCEPT !.setpoint = Value]}
    /\ IF ok THEN Continue(Tail(todo)) /\ UNCHANGED status
             ELSE Raise /\ status' = "faulted"
    /\ UNCHANGED cached

(* The role again, and the setpoint read back. *)
Confirmed ==
    /\ Now("confirm") /\ device.role = "bpr" /\ device.setpoint = Value
    /\ cached' = [cached EXCEPT !.setpoint = device.setpoint]
    /\ Continue(<<>>)
    /\ UNCHANGED <<device, status>>

NotConfirmed ==
    /\ Now("confirm")
    /\ cached' \in {cached, [cached EXCEPT !.setpoint = device.setpoint]}
    /\ status' = "faulted"
    /\ Raise
    /\ UNCHANGED device

(* What will be regulated to is read and must be within the ceiling. *)
WithinCeiling ==
    /\ Now("limit") /\ device.setpoint \in 1..Ceiling
    /\ cached' = [cached EXCEPT !.setpoint = device.setpoint]
    /\ Continue(Tail(todo))
    /\ UNCHANGED <<device, status>>

NotWithinCeiling ==
    /\ Now("limit")
    /\ cached' \in {cached, [cached EXCEPT !.setpoint = device.setpoint]}
    /\ Raise
    /\ UNCHANGED <<device, status>>

(* The answer shows whether the valve is on hold (HLD). *)
HoldConfirmed ==
    /\ Now("hold")
    /\ device' = [device EXCEPT !.hold = Value]
    /\ cached' = [cached EXCEPT !.hold = Value]
    /\ Continue(<<>>)
    /\ UNCHANGED status

HoldNotConfirmed ==
    /\ Now("hold")
    /\ device' \in {device, [device EXCEPT !.hold = Value]}
    /\ Raise
    /\ UNCHANGED <<cached, status>>

PressureNext ==
    \/ Panel \/ Disconnect \/ SafeState \/ Resume
    \/ \E ok \in BOOLEAN : Connect(ok) \/ Poll(ok) \/ Written(ok)
    \/ \E pressure \in Pressures : SetPressure(pressure)
    \/ RoleConfirmed \/ RoleNotConfirmed \/ Confirmed \/ NotConfirmed
    \/ WithinCeiling \/ NotWithinCeiling \/ HoldConfirmed \/ HoldNotConfirmed

-----------------------------------------------------------------------------
(* The driver lets the valve open only to a setpoint within the ceiling. *)
OpensWithinCeiling == device.hold /\ ~device'.hold /\ ~Idle => device'.setpoint <= Ceiling

(* A safe state that left the valve regulating has raised. *)
PressureIsToldOpen == Over("safe") /\ ~device'.hold => raised' # {}

=============================================================================
