------------------------------ MODULE Hotplate ------------------------------
(***************************************************************************)
(* The hotplate (devices/ohaus_guardian_5000/driver.py).  Its front panel  *)
(* may change everything, so an operation reads the state first; a target  *)
(* written while it heats shows at once and is used only from the next     *)
(* start of heating on (driver.py:229-231).                                *)
(*                                                                         *)
(* Left out: the target of the stirrer, which is a write and a readback,   *)
(* the timer, and models that only heat or only stir.                      *)
(***************************************************************************)
EXTENDS Instrument, Naturals

CONSTANTS Temperatures, Limits

(* device: heat and stir are on, the `target' it shows, the one it `heats' to, and
   an error that makes it report nothing else. *)
PlateTypeOK ==
    /\ device \in [heat : BOOLEAN, stir : BOOLEAN, target : Temperatures, heats : Temperatures, error : BOOLEAN]
    /\ {cached.heat, cached.stir} \subseteq {TRUE, FALSE, Unknown}
    /\ cached.target \in Temperatures \cup {Unknown}
    /\ cached.limit \in Limits
    /\ status \in {"disconnected", "ready", "faulted"}

(* The limit of the run is the application's, and outlives the connection. *)
Believing(heat, stir, target) ==
    [heat |-> heat, stir |-> stir, target |-> target, limit |-> cached.limit]

NothingKnown == Believing(Unknown, Unknown, Unknown)

PlateInit ==
    /\ \E t \in Temperatures :
          device = [heat |-> FALSE, stir |-> FALSE, target |-> t, heats |-> t, error |-> FALSE]
    /\ \E l \in Limits :
          cached = [heat |-> Unknown, stir |-> Unknown, target |-> Unknown, limit |-> l]
    /\ status = "disconnected"
    /\ doing = "nothing" /\ todo = <<>> /\ raised = {}

(* The front panel, or a fault of the plate. *)
Panel ==
    /\ Idle
    /\ device' \in {plate \in [heat : BOOLEAN, stir : BOOLEAN, target : Temperatures,
                               heats : Temperatures, error : BOOLEAN] :
                      plate.heats = plate.target /\ (plate.error => ~plate.heat)}
    /\ UNCHANGED <<cached, status, opVars>>

-----------------------------------------------------------------------------
(* Reading the state. *)

Known == IF device.error THEN Believing(Unknown, Unknown, device.target)
                         ELSE Believing(device.heat, device.stir, device.target)

(* What refresh_state() leaves; it raises without a reply, or when the target the
   plate shows is over a limit. *)
Refreshes == cached' = Known /\ status' = IF device.error THEN "faulted" ELSE "ready"

RefreshRaises == cached' = NothingKnown /\ status' = "faulted"

MayRefresh == device.target <= cached.limit

Connect(ok) ==
    /\ ~Connected /\ Single
    /\ IF ok THEN MayRefresh /\ Refreshes
             ELSE cached' = NothingKnown /\ UNCHANGED status
    /\ UNCHANGED device

(* A poll.  Like every refresh it may end FAULTED. *)
Poll(ok) ==
    /\ Connected /\ Single
    /\ \/ ~ok /\ RefreshRaises
       \/ ~ok /\ MayRefresh /\ cached' = Known /\ status' = "faulted"
       \/ ok /\ MayRefresh /\ ~device.error /\ Refreshes
    /\ UNCHANGED device

(* The limit of a run is taken over only when the plate is seen to be within it. *)
SetRunLimit(limit, ok) ==
    /\ Single
    /\ IF ~Connected \/ (ok /\ device.target <= limit)
       THEN cached' = [(IF Connected THEN Known ELSE cached) EXCEPT !.limit = limit]
       ELSE cached' = NothingKnown
    /\ status' = CASE ~Connected -> status
                   [] ok /\ device.target <= limit /\ ~device.error -> "ready"
                   [] OTHER -> "faulted"
    /\ UNCHANGED device

RefreshedFirst ==
    /\ Now("refresh")
    /\ MayRefresh /\ Refreshes
    /\ IF device.error THEN Raise ELSE Continue(Tail(todo))
    /\ UNCHANGED device

NotRefreshed ==
    /\ Now("refresh")
    /\ RefreshRaises /\ Raise
    /\ UNCHANGED device

-----------------------------------------------------------------------------
(* Operations. *)

(* Mutation: what was read last time is good enough. *)
StartUnseen == <<Set("heat", TRUE)>>

StartExchanges == <<Ask("refresh"), Set("heat", TRUE)>>

SetTarget(t) == Connected /\ t <= cached.limit /\ Begin("target", <<Ask("refresh"), Set("decide", t)>>)

(* Mutation: the target is written to a plate that heats. *)
DecideWithoutStop ==
    /\ Now("decide")
    /\ Continue(IF Value = cached.target THEN <<>> ELSE <<Set("target", Value)>>)
    /\ UNCHANGED <<device, cached, status>>

(* A plate that heats is stopped, given the target, and started again. *)
Decide ==
    /\ Now("decide")
    /\ Continue(IF Value = cached.target THEN <<>>
                ELSE IF cached.heat = TRUE
                THEN <<Set("heat", FALSE), Set("target", Value)>> \o StartExchanges
                ELSE <<Set("target", Value)>>)
    /\ UNCHANGED <<device, cached, status>>

Start == Connected /\ Begin("start", StartExchanges)

StartStirring == Connected /\ Begin("start", <<Ask("refresh"), Set("stir", TRUE)>>)

Stop(switch) == Connected /\ Begin("stop", <<Set(switch, FALSE)>>)

SafeState == Connected /\ Begin("safe", <<Set("heat", FALSE), Set("stir", FALSE)>>)

Written(register, value) ==
    CASE register = "heat" /\ value -> IF device.error \/ device.heat THEN device
                                       ELSE [device EXCEPT !.heat = TRUE, !.heats = device.target]
      [] register = "target" /\ ~device.heat -> [device EXCEPT !.target = value, !.heats = value]
      [] OTHER -> [device EXCEPT ![register] = value]

(* A switch is confirmed by the mode, which a plate in error does not tell. *)
SwitchConfirmed(switch) ==
    /\ Now(switch) /\ ~device.error
    /\ device' = Written(switch, Value)
    /\ cached' = [cached EXCEPT !.heat = device'.heat, !.stir = device'.stir]
    /\ Continue(Tail(todo))
    /\ UNCHANGED status

(* Mutation: the first stop that fails ends the safe state. *)
SwitchEndsAll(switch) ==
    /\ Now(switch)
    /\ device' \in {device, Written(switch, Value)}
    /\ cached' = [cached EXCEPT !.heat = Unknown, !.stir = Unknown]
    /\ status' = "faulted"
    /\ Raise

(* A safe state goes on to what comes next all the same. *)
SwitchNotConfirmed(switch) ==
    /\ Now(switch)
    /\ device' \in {device, Written(switch, Value)}
    /\ cached' = [cached EXCEPT !.heat = Unknown, !.stir = Unknown]
    /\ status' = "faulted"
    /\ Raised(IF doing \in {"safe", "disconnect"} THEN Tail(todo) ELSE <<>>)

TargetConfirmed ==
    /\ Now("target")
    /\ device' = Written("target", Value)
    /\ cached' = [cached EXCEPT !.target = Value]
    /\ Continue(Tail(todo))
    /\ UNCHANGED status

TargetNotConfirmed ==
    /\ Now("target")
    /\ device' \in {device, Written("target", Value)}
    /\ cached' = [cached EXCEPT !.target = Unknown]
    /\ status' = "faulted"
    /\ Raise

(* disconnect() enters the safe state and closes the port in any case. *)
Disconnect ==
    Connected /\ Begin("disconnect", <<Set("heat", FALSE), Set("stir", FALSE), Ask("close")>>)

PortClosed ==
    /\ Now("close")
    /\ cached' = NothingKnown /\ status' = "disconnected"
    /\ Continue(<<>>)
    /\ UNCHANGED device

PlateNext ==
    \/ Panel
    \/ \E ok \in BOOLEAN : Connect(ok) \/ Poll(ok)
    \/ RefreshedFirst \/ NotRefreshed
    \/ \E t \in Temperatures : SetTarget(t)
    \/ \E l \in Limits, ok \in BOOLEAN : SetRunLimit(l, ok)
    \/ Decide \/ Start \/ StartStirring \/ SafeState \/ Disconnect \/ PortClosed
    \/ \E switch \in {"heat", "stir"} : Stop(switch) \/ SwitchConfirmed(switch) \/ SwitchNotConfirmed(switch)
    \/ TargetConfirmed \/ TargetNotConfirmed

-----------------------------------------------------------------------------
(* A plate that heats, heats to the target it shows. *)
HeatsToItsTarget == device.heat => device.heats = device.target

(* The driver starts no heating over the limit of the run. *)
StartsWithinLimit == ~device.heat /\ device'.heat /\ ~Idle => device'.target <= cached'.limit

(* What a safe state left on is named by what it raised. *)
PlateIsToldOn == Over("safe") => \A switch \in {"heat", "stir"} : device'[switch] => switch \in raised'

=============================================================================
