----------------------------- MODULE Instrument -----------------------------
(***************************************************************************)
(* What the drivers with operations of several exchanges have in common    *)
(* (devices/kamoer_m1_stp, ohaus_guardian_5000, alicat): an operation is a *)
(* list of exchanges with the instrument, and the first that raises ends   *)
(* it.  An exchange that raises may have been carried out or not.          *)
(*                                                                         *)
(* The instruments have a front panel, or are used by somebody else while  *)
(* the port is closed; neither in the middle of an operation.              *)
(***************************************************************************)
EXTENDS Sequences

CONSTANT Unknown       \* None: the driver does not know

VARIABLES device,      \* what the instrument does
          cached,      \* what its driver believes
          status,      \* DeviceStatus; the port is open unless "disconnected"
          doing,       \* the operation in progress
          todo,        \* its exchanges still to come
          raised       \* the exchanges that raised in it, or in the last one

vars == <<device, cached, status, doing, todo, raised>>

opVars == <<doing, todo, raised>>

Idle == doing = "nothing"

Connected == status # "disconnected"

Set(register, value) == [register |-> register, value |-> value]

Ask(question) == Set(question, Unknown)

Begin(operation, exchanges) ==
    /\ Idle
    /\ doing' = operation /\ todo' = exchanges
    /\ raised' = {}
    /\ UNCHANGED <<device, cached, status>>

(* An operation that is a single step. *)
Single == Idle /\ UNCHANGED opVars

Now(register) == todo # <<>> /\ Head(todo).register = register

Value == Head(todo).value

(* The operation goes on with these exchanges, if any. *)
Continue(exchanges) ==
    /\ todo' = exchanges
    /\ doing' = IF exchanges = <<>> THEN "nothing" ELSE doing
    /\ UNCHANGED raised

Raised(exchanges) ==
    /\ todo' = exchanges
    /\ doing' = IF exchanges = <<>> THEN "nothing" ELSE doing
    /\ raised' = raised \cup {Head(todo).register}

Raise == Raised(<<>>)

Over(operation) == doing = operation /\ doing' = "nothing"

=============================================================================
