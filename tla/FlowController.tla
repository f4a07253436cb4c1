--------------------------- MODULE FlowController ---------------------------
(***************************************************************************)
(* The mass flow controller (devices/alicat/driver.py,                     *)
(* control_support.py).  It has no lock: a poll may come between the       *)
(* exchanges of an operation.  An acknowledged setpoint may be ignored     *)
(* (driver.py:123); a setpoint is written only to an instrument found in   *)
(* the role it was set up for, which the front panel may change.           *)
(*                                                                         *)
(* Left out: units, the range and the frame, the tolerance of a readback,  *)
(* retries of a read, and the events a verification emits.                 *)
(***************************************************************************)
EXTENDS Instrument

CONSTANT Flows         \* with 0: what can be set

(* device: the setpoint in use, and the role the instrument is in. *)
FlowTypeOK ==
    /\ device \in [flow : Flows, role : {"mfc", "other"}]
    /\ cached.flow \in Flows \cup {Unknown}
    /\ status \in {"disconnected", "ready", "faulted"}

FlowInit ==
    /\ device = [flow |-> 0, role |-> "mfc"]
    /\ cached = [flow |-> Unknown]
    /\ status = "disconnected"
    /\ doing = "nothing" /\ todo = <<>> /\ raised = {}

Panel ==
    /\ Idle
    /\ device' \in [flow : Flows, role : {"mfc", "other"}]
    /\ UNCHANGED <<cached, status, opVars>>

(* A role that is not the saved one leaves a connection to read from. *)
Connect(ok) ==
    /\ status = "disconnected" /\ Single
    /\ cached' = IF ok THEN [flow |-> device.flow] ELSE cached
    /\ status' = IF ok THEN "ready" ELSE "faulted"
    /\ UNCHANGED device

(* The flow goes on. *)
Disconnect ==
    /\ Connected /\ Single
    /\ cached' = [flow |-> Unknown] /\ status' = "disconnected"
    /\ UNCHANGED device

(* Polling goes on beside an operation.  A read that fails is the end of READY. *)
Poll(ok) ==
    /\ status = "ready"
    /\ IF ok THEN /\ device.role = "mfc"
                  /\ cached' = [flow |-> device.flow] /\ UNCHANGED status
             ELSE status' \in {"ready", "faulted"} /\ UNCHANGED cached
    /\ UNCHANGED <<device, opVars>>

SetFlow(flow) ==
    status = "ready" /\ Begin("set", <<Ask("role"), Set("flow", flow), Set("confirm", flow)>>)

(* One that is not READY raises at once and is sent nothing. *)
SafeState ==
    \/ status = "ready" /\ Begin("safe", <<Ask("role"), Set("flow", 0), Set("confirm", 0)>>)
    \/ status = "faulted" /\ Single /\ UNCHANGED <<device, cached, status>>

RoleConfirmed ==
    /\ Now("role") /\ device.role = "mfc"
    /\ Continue(Tail(todo))
    /\ UNCHANGED <<device, cached, status>>

RoleNotConfirmed ==
    /\ Now("role")
    /\ Raise
    /\ UNCHANGED <<device, cached, status>>

Acknowledged ==
    /\ Now("flow")
    /\ device' \in {device, [device EXCEPT !.flow = Value]}
    /\ Continue(Tail(todo))
    /\ UNCHANGED <<cached, status>>

NotAcknowledged ==
    /\ Now("flow")
    /\ device' \in {device, [device EXCEPT !.flow = Value]}
    /\ status' = "faulted"
    /\ Raise
    /\ UNCHANGED cached

(* Mutation: the instrument took what it acknowledged. *)
ConfirmedUnseen ==
    /\ Now("confirm")
    /\ cached' = [flow |-> Value]
    /\ Continue(<<>>)
    /\ UNCHANGED <<device, status>>

(* The role again, then the state, then the setpoint itself. *)
Confirmed ==
    /\ Now("confirm") /\ device.role = "mfc" /\ device.flow = Value
    /\ cached' = [flow |-> device.flow]
    /\ Continue(<<>>)
    /\ UNCHANGED <<device, status>>

NotConfirmed ==
    /\ Now("confirm")
    /\ cached' \in {cached, [flow |-> device.flow]}
    /\ status' = "faulted"
    /\ Raise
    /\ UNCHANGED device

FlowNext ==
    \/ Panel \/ Disconnect \/ SafeState
    \/ \E ok \in BOOLEAN : Connect(ok) \/ Poll(ok)
    \/ \E flow \in Flows : SetFlow(flow)
    \/ RoleConfirmed \/ RoleNotConfirmed \/ Acknowledged \/ NotAcknowledged
    \/ Confirmed \/ NotConfirmed

-----------------------------------------------------------------------------
(* A safe state that left a flow has raised. *)
FlowIsToldOn == Over("safe") /\ device'.flow # 0 => raised' # {}

=============================================================================
