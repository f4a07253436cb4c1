-------------------------------- MODULE Pump --------------------------------
(***************************************************************************)
(* The peristaltic pump (devices/kamoer_m1_stp/driver.py).  Every setting  *)
(* is written and read back; one that is not confirmed leaves the pump     *)
(* FAULTED, and then only its safe state still reaches it.  A turning pump *)
(* takes a new direction without turning that way (driver.py:30).          *)
(*                                                                         *)
(* An acknowledged write is carried out.  Speeds are two.                  *)
(***************************************************************************)
EXTENDS Instrument

(* device: on, the direction `reverse' it shows, the one it `turns' in, the run
   mode and time that let it run on (`lasting'), and its speed. *)
PumpTypeOK ==
    /\ device \in [on : BOOLEAN, reverse : BOOLEAN, turns : BOOLEAN, lasting : BOOLEAN, speed : {1, 2}]
    /\ cached.on \in {TRUE, FALSE, Unknown}
    /\ cached.reverse \in {TRUE, FALSE, Unknown}
    /\ cached.speed \in {1, 2, Unknown}
    /\ status \in {"disconnected", "ready", "faulted"}

NothingKnown == [on |-> Unknown, reverse |-> Unknown, speed |-> Unknown]

Coherent(pump) == pump.on => pump.turns = pump.reverse

PumpInit ==
    /\ device = [on |-> FALSE, reverse |-> FALSE, turns |-> FALSE, lasting |-> FALSE, speed |-> 1]
    /\ cached = NothingKnown
    /\ status = "disconnected"
    /\ doing = "nothing" /\ todo = <<>> /\ raised = {}

(* Somebody else used the pump. *)
Elsewhere ==
    /\ Idle /\ ~Connected
    /\ device' \in {pump \in [on : BOOLEAN, reverse : BOOLEAN, turns : BOOLEAN, lasting : {FALSE}, speed : {1}] :
                      Coherent(pump)}
    /\ UNCHANGED <<cached, status, opVars>>

(* A target time that was stored runs out. *)
RunsOut ==
    /\ device.on /\ ~device.lasting
    /\ device' = [device EXCEPT !.on = FALSE]
    /\ UNCHANGED <<cached, status, opVars>>

Connect(ok) ==
    /\ ~Connected /\ Single
    /\ IF ok THEN /\ cached' = [on |-> device.on, reverse |-> device.reverse, speed |-> device.speed]
                  /\ status' = "ready"
             ELSE UNCHANGED <<cached, status>>
    /\ UNCHANGED device

StartExchanges == <<Set("lasting", TRUE), Set("on", TRUE)>>

SetSpeed(rpm) == status = "ready" /\ Begin("speed", <<Set("speed", rpm)>>)

(* A pump known to turn the other way is stopped, reversed and started again. *)
SetDirection(direction) ==
    LET restart == cached.on = TRUE /\ direction # cached.reverse IN
    /\ status = "ready"
    /\ Begin("direction",
             (IF restart THEN <<Set("on", FALSE)>> ELSE <<>>)
                 \o <<Set("reverse", direction)>>
                 \o (IF restart THEN StartExchanges ELSE <<>>))

Start == status = "ready" /\ Begin("start", StartExchanges)

Stop == status = "ready" /\ Begin("stop", <<Set("on", FALSE)>>)

Written(register, value) ==
    CASE register = "on" /\ value /\ ~device.on -> [device EXCEPT !.on = TRUE, !.turns = device.reverse]
      [] register = "reverse" /\ ~device.on -> [device EXCEPT !.reverse = value, !.turns = value]
      [] OTHER -> [device EXCEPT ![register] = value]

Believes(register) == IF register = "lasting" THEN "on" ELSE register

Confirmed(register) ==
    /\ Now(register)
    /\ device' = Written(register, Value)
    /\ cached' = IF register = "lasting" THEN cached ELSE [cached EXCEPT ![register] = Value]
    /\ Continue(Tail(todo))
    /\ UNCHANGED status

NotConfirmed(register) ==
    /\ Now(register)
    /\ device' \in {device, Written(register, Value)}
    /\ cached' = [cached EXCEPT ![Believes(register)] = Unknown]
    /\ status' = "faulted"
    /\ Raise

(* The switch is written, faulted or not, and not read back. *)
SafeState == Connected /\ Begin("safe", <<Set("safe", FALSE)>>)

SwitchedOff(ok) ==
    /\ Now("safe")
    /\ device' \in IF ok THEN {[device EXCEPT !.on = FALSE]} ELSE {device, [device EXCEPT !.on = FALSE]}
    /\ cached' = IF ok THEN [cached EXCEPT !.on = FALSE] ELSE cached
    /\ IF ok THEN Continue(<<>>) ELSE Raise
    /\ UNCHANGED status

(* The safe state is tried; the port is closed in any case. *)
Disconnect(ok) ==
    /\ Connected /\ Single
    /\ device' \in IF ok THEN {[device EXCEPT !.on = FALSE]} ELSE {device, [device EXCEPT !.on = FALSE]}
    /\ cached' = NothingKnown
    /\ status' = "disconnected"

PumpNext ==
    \/ Elsewhere \/ RunsOut
    \/ \E ok \in BOOLEAN : Connect(ok) \/ SwitchedOff(ok) \/ Disconnect(ok)
    \/ \E rpm \in {1, 2} : SetSpeed(rpm)
    \/ \E direction \in BOOLEAN : SetDirection(direction)
    \/ Start \/ Stop \/ SafeState
    \/ \E register \in {"on", "reverse", "lasting", "speed"} : Confirmed(register) \/ NotConfirmed(register)

-----------------------------------------------------------------------------
(* A direction is never changed under a turning pump, which would go on the old way. *)
TurnsAsShown == Connected => Coherent(device)

(* A safe state that left the pump on has raised. *)
PumpIsToldOn == Over("safe") /\ device'.on => raised' # {}

=============================================================================
