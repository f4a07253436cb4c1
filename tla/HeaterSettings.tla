--------------------------- MODULE HeaterSettings ---------------------------
(***************************************************************************)
(* The settings of heating controllers (devices/lumel_re72.py,             *)
(* instrument_settings/re72.py, ui/instrument_settings/re72_panel.py): one *)
(* form for all of them, whose changed entries are written to the chosen   *)
(* one and read back; snapshots of all that may be restored; autotuning.   *)
(*                                                                         *)
(* Whether a controller is fit for autotuning (its algorithm, TI and lock) *)
(* is one register here.  The operations of one handler come without an    *)
(* interleaving: Tk waits for them, and each holds its controller.         *)
(***************************************************************************)
EXTENDS Naturals

CONSTANTS Controllers,
          Targets,      \* values of the target setpoint; 0 is off
          MaxPolls,     \* polls that wait for autotuning to be seen
          Nothing

VARIABLES registers,    \* per controller
          autotune,     \* per controller: "off", "running" or "failed"
          entries,      \* the form, and what it was filled with
          originals,
          controller,   \* the one in the chooser
          snapshot,     \* the file
          asking,       \* whether to start autotuning is being asked
          monitoring,   \* polls of it so far and whether it has been seen running, or Nothing
          permitted,    \* no feature is open, nothing is recorded and the mode is idle
          told          \* the result shown last

formVars == <<entries, originals>>
tuningVars == <<asking, monitoring>>
heaterVars == <<registers, autotune, formVars, controller, snapshot, tuningVars, permitted, told>>

Settings == [fit : {0, 1}, target : Targets]

Registers == {"fit", "target"}

HeaterInit ==
    /\ registers \in [Controllers -> Settings]
    /\ autotune = [d \in Controllers |-> "off"]
    /\ entries = [r \in Registers |-> Nothing] /\ originals = entries
    /\ controller \in Controllers
    /\ snapshot \in Settings
    /\ asking = FALSE /\ monitoring = Nothing /\ permitted = TRUE
    /\ told = "nothing"

-----------------------------------------------------------------------------
(* What else happens: a panel, Operation and its recipes, a controller that ends tuning. *)

SetAtPanel(d) ==
    /\ registers' \in {[registers EXCEPT ![d] = settings] : settings \in Settings}
    /\ UNCHANGED <<autotune, formVars, controller, snapshot, tuningVars, permitted, told>>

SetTarget(d, target) ==
    /\ ~permitted
    /\ registers' = [registers EXCEPT ![d].target = target]
    /\ UNCHANGED <<autotune, formVars, controller, snapshot, tuningVars, permitted, told>>

SafeState(d) == SetTarget(d, 0)

OpenOrClose ==
    /\ ~asking /\ permitted' = ~permitted
    /\ UNCHANGED <<registers, autotune, formVars, controller, snapshot, tuningVars, told>>

AutotuneEnds(d) ==
    /\ autotune[d] = "running"
    /\ autotune' \in {[autotune EXCEPT ![d] = end] : end \in {"off", "failed"}}
    /\ UNCHANGED <<registers, formVars, controller, snapshot, tuningVars, permitted, told>>

-----------------------------------------------------------------------------
(* The form. *)

Tell(result) == told' = result

(* Choosing reads nothing. *)
Choose(d) ==
    /\ ~asking /\ controller' = d
    /\ UNCHANGED <<registers, autotune, entries, originals, snapshot, tuningVars, permitted, told>>

Edit(register, value) ==
    /\ ~asking
    /\ entries' = [entries EXCEPT ![register] = value]
    /\ UNCHANGED <<registers, autotune, originals, controller, snapshot, tuningVars, permitted, told>>

(* A controller that does not answer leaves the form as it was. *)
Refreshed(found, ok) ==
    /\ entries' = IF ok THEN found[controller] ELSE entries
    /\ originals' = IF ok THEN found[controller] ELSE originals

Refresh(ok) ==
    /\ ~asking /\ Refreshed(registers, ok) /\ Tell("read")
    /\ UNCHANGED <<registers, autotune, controller, snapshot, tuningVars, permitted>>

Changes == {r \in Registers : entries[r] # originals[r]}

(* These registers of the chosen controller are written; the first that raises is the
   last, and none need be carried out or kept. *)
Wrote(changed, value) ==
    \E kept \in SUBSET changed :
        registers' = [registers EXCEPT ![controller] =
                         [r \in Registers |-> IF r \in kept THEN value[r] ELSE @[r]]]

ReadsBack(changed, value) == \A r \in changed : registers'[controller][r] = value[r]

NothingWritten == UNCHANGED <<registers, entries, originals>>

(* _apply_re72(): what has changed, then all of it read back in the same operation. *)
Applies(ok, rereads) ==
    CASE Changes = {} -> NothingWritten /\ Tell("no change")
      [] Changes # {} /\ ~permitted -> NothingWritten /\ Tell("refused")
      [] Changes # {} /\ permitted ->
            /\ Wrote(Changes, entries)
            /\ IF ok /\ ReadsBack(Changes, entries)
               THEN Tell("applied") /\ Refreshed(registers', rereads)
               ELSE Tell("not applied") /\ UNCHANGED <<entries, originals>>

Apply(ok, rereads) ==
    /\ ~asking
    /\ Applies(ok, rereads)
    /\ UNCHANGED <<autotune, controller, snapshot, tuningVars, permitted>>

SaveSnapshot ==
    /\ ~asking
    /\ snapshot' = registers[controller] /\ Tell("saved")
    /\ UNCHANGED <<registers, autotune, formVars, controller, tuningVars, permitted>>

Differing == {r \in Registers : registers[controller][r] # snapshot[r]}

RestoreSnapshot(ok, rereads) ==
    /\ ~asking
    /\ IF ~permitted THEN NothingWritten /\ Tell("refused")
       ELSE /\ Wrote(Differing, snapshot)
            /\ IF ok /\ ReadsBack(Differing, snapshot)
               THEN Tell("restored") /\ Refreshed(registers', rereads)
               ELSE Tell("not restored") /\ UNCHANGED <<entries, originals>>
    /\ UNCHANGED <<autotune, controller, snapshot, tuningVars, permitted>>

-----------------------------------------------------------------------------
(* Autotuning: what has been edited is applied, the operator is asked, and the
   controller is looked at again. *)

StartAutotune(ok, rereads) ==
    /\ ~asking /\ monitoring = Nothing
    /\ Applies(ok, rereads)
    /\ asking' = (told' \in {"applied", "no change"})
    /\ UNCHANGED <<autotune, controller, snapshot, monitoring, permitted>>

AutotuneAccepted(begins) ==
    /\ asking /\ asking' = FALSE
    /\ permitted /\ registers[controller].fit = 1
    /\ autotune' = IF begins THEN [autotune EXCEPT ![controller] = "running"] ELSE autotune
    /\ monitoring' = [polls |-> 0, seen |-> FALSE]
    /\ Tell("accepted")
    /\ UNCHANGED <<registers, formVars, controller, snapshot, permitted>>

(* Declined; refused; or without an answer, when it may have begun. *)
AutotuneNotAccepted ==
    /\ asking /\ asking' = FALSE
    /\ \/ UNCHANGED <<autotune, told>>
       \/ Tell("not started") /\ UNCHANGED autotune
       \/ /\ permitted /\ registers[controller].fit = 1
          /\ Tell("not started")
          /\ autotune' = [autotune EXCEPT ![controller] = "running"]
    /\ UNCHANGED <<registers, formVars, controller, snapshot, monitoring, permitted>>

Finish(result, rereads) == monitoring' = Nothing /\ Tell(result) /\ Refreshed(registers, rereads)

(* Whichever controller is chosen by now. *)
PollAutotune(rereads) ==
    /\ ~asking /\ monitoring # Nothing
    /\ LET active == autotune[controller] = "running"
           polls == monitoring.polls + 1
           seen == monitoring.seen \/ active
       IN CASE autotune[controller] = "failed" -> Finish("failed", rereads)
            [] autotune[controller] # "failed" /\ seen /\ ~active -> Finish("finished", rereads)
            [] autotune[controller] # "failed" /\ ~seen /\ polls >= MaxPolls -> Finish("not seen", rereads)
            [] OTHER -> /\ monitoring' = [polls |-> IF polls > MaxPolls THEN MaxPolls ELSE polls, seen |-> seen]
                        /\ UNCHANGED <<entries, originals, told>>
    /\ UNCHANGED <<registers, autotune, controller, snapshot, asking, permitted>>

(* The window is closed, and opened again with an empty form. *)
Reopen ==
    /\ ~asking /\ monitoring' = Nothing
    /\ entries' = [r \in Registers |-> Nothing] /\ originals' = entries'
    /\ Tell("nothing")
    /\ UNCHANGED <<registers, autotune, controller, snapshot, asking, permitted>>

HeaterNext ==
    \/ \E d \in Controllers : SetAtPanel(d) \/ SafeState(d) \/ AutotuneEnds(d) \/ Choose(d)
    \/ \E d \in Controllers, target \in Targets : SetTarget(d, target)
    \/ \E fit \in {0, 1} : Edit("fit", fit)
    \/ \E target \in Targets : Edit("target", target)
    \/ \E ok, rereads \in BOOLEAN :
          Apply(ok, rereads) \/ RestoreSnapshot(ok, rereads) \/ StartAutotune(ok, rereads)
    \/ \E ok \in BOOLEAN : Refresh(ok) \/ AutotuneAccepted(ok) \/ PollAutotune(ok)
    \/ OpenOrClose \/ SaveSnapshot \/ AutotuneNotAccepted \/ Reopen

-----------------------------------------------------------------------------

(* Settings said to be applied are in the controller, those edited and no others being
   changed; a snapshot said to be restored is in it completely, though only what
   differed was written. *)
SettingsAreAsTold ==
    /\ \A rereads \in BOOLEAN : Apply(TRUE, rereads) /\ told' = "applied" =>
          /\ \A d \in Controllers \ {controller} : registers'[d] = registers[d]
          /\ \A r \in Registers :
                registers'[controller][r] = IF r \in Changes THEN entries[r] ELSE registers[controller][r]
    /\ \A rereads \in BOOLEAN : RestoreSnapshot(TRUE, rereads) /\ told' = "restored" =>
          registers'[controller] = snapshot

=============================================================================
