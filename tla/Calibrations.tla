---------------------------- MODULE Calibrations ----------------------------
(***************************************************************************)
(* Calibrations of pumps and humidity probes: fitted, reviewed and         *)
(* accepted in Settings (instrument_settings/calibration.py and            *)
(* ui/instrument_settings/calibration_panel.py), applied to every reading  *)
(* (calibrated_channels.py), named by every run (ui/operation/model.py).   *)
(*                                                                         *)
(* A calibration is its name: what it was fitted to changes nothing here.  *)
(* Settings asks a service of its own each time and reads the file;        *)
(* polling keeps one, with its cache.  Operation is closed only when its   *)
(* worker has ended.                                                       *)
(***************************************************************************)
EXTENDS Naturals, SequencesExt

CONSTANTS Calibrated,   \* device ids
          Names, Nothing

VARIABLES history,     \* per device, its file: names in order, or Nothing when it cannot be read
          stamp,       \* and its time and size
          cache,       \* of polling, per device: the stamp seen before reading, and what was read
          chosen,      \* the panel: its device
          candidate,   \* the device of the fit under review, or Nothing
          listed,      \* the device and history in its list and chart
          operating,   \* Operation is open
          starting,    \* its worker is about to start a recording
          named,       \* per device, the calibration in the metadata of the run
          inRun        \* recording

calVars == <<history, stamp, cache, chosen, candidate, listed, operating, starting, named, inRun>>

panelVars == <<chosen, candidate, listed>>
fileVars == <<history, stamp>>
runVars == <<operating, starting, named, inRun>>

Active(names) == IF names \in {Nothing, <<>>} THEN Nothing ELSE Last(names)

CalibrationsInit ==
    /\ history = [d \in Calibrated |-> <<>>] /\ stamp = [d \in Calibrated |-> 0]
    /\ cache = [d \in Calibrated |-> [stamp |-> 0, names |-> <<>>]]
    /\ chosen \in Calibrated /\ candidate = Nothing
    /\ listed = [device |-> chosen, names |-> <<>>]
    /\ operating = FALSE /\ starting = FALSE /\ inRun = FALSE
    /\ named = [d \in Calibrated |-> Nothing]

-----------------------------------------------------------------------------
(* The panel. *)

(* A file that cannot be read lists nothing. *)
Listing(d) == [device |-> d, names |-> IF history[d] = Nothing THEN <<>> ELSE history[d]]

ChooseDevice(d) ==
    /\ chosen' = d /\ candidate' = Nothing
    /\ listed' = Listing(d)
    /\ UNCHANGED <<fileVars, cache, runVars>>

Unused(d, name) == history[d] # Nothing /\ ~Contains(history[d], name)

Fit(name) ==
    /\ Unused(chosen, name)
    /\ candidate' = chosen
    /\ UNCHANGED <<fileVars, cache, chosen, listed, runVars>>

Decline ==
    /\ candidate # Nothing /\ candidate' = Nothing
    /\ UNCHANGED <<fileVars, cache, chosen, listed, runVars>>

MayWrite == ~operating /\ ~inRun

(* The history is written beside the file, which is then replaced. *)
Write(d, names) ==
    /\ history' = [history EXCEPT ![d] = names]
    /\ stamp' = [stamp EXCEPT ![d] = @ + 1]

(* Under the name that is now in its entry, which is looked at again.  What is refused
   or fails stays under review. *)
Accept(name) ==
    /\ candidate # Nothing
    /\ MayWrite /\ Unused(candidate, name)
    /\ Write(candidate, Append(history[candidate], name))
    /\ candidate' = Nothing
    /\ listed' = [device |-> chosen, names |-> history'[chosen]]
    /\ UNCHANGED <<cache, chosen, runVars>>

(* Somebody edits the file by hand, and leaves it unreadable. *)
Spoil(d) ==
    /\ history[d] # Nothing /\ Write(d, Nothing)
    /\ UNCHANGED <<cache, panelVars, runVars>>

-----------------------------------------------------------------------------
(* Operation: readings and runs. *)

OpenOperation ==
    /\ ~operating /\ operating' = TRUE
    /\ UNCHANGED <<fileVars, cache, panelVars, starting, named, inRun>>

CloseOperation ==
    /\ operating /\ ~starting
    /\ operating' = FALSE /\ inRun' = FALSE
    /\ UNCHANGED <<fileVars, cache, panelVars, starting, named>>

(* What is there is used as long as the file looks the same. *)
Looked(d) == IF cache[d].stamp = stamp[d] THEN cache[d].names ELSE history[d]

Applied(d) == Active(Looked(d))

(* A file that cannot be read leaves the raw reading, and the cache. *)
Read(d) ==
    /\ operating
    /\ cache' = IF Looked(d) = Nothing THEN cache
                ELSE [cache EXCEPT ![d] = [stamp |-> stamp[d], names |-> Looked(d)]]
    /\ UNCHANGED <<fileVars, panelVars, runVars>>

(* The metadata comes first, then the recording. *)
CalibrationMetadata ==
    /\ operating /\ ~starting /\ ~inRun
    /\ named' = [d \in Calibrated |-> Active(history[d])]
    /\ starting' = TRUE
    /\ UNCHANGED <<fileVars, cache, panelVars, operating, inRun>>

StartRun(ok) ==
    /\ starting /\ starting' = FALSE
    /\ inRun' = ok
    /\ UNCHANGED <<fileVars, cache, panelVars, operating, named>>

StopRun ==
    /\ inRun /\ inRun' = FALSE
    /\ UNCHANGED <<fileVars, cache, panelVars, operating, starting, named>>

CalibrationsNext ==
    \/ \E d \in Calibrated : ChooseDevice(d) \/ Spoil(d) \/ Read(d)
    \/ \E name \in Names : Fit(name) \/ Accept(name)
    \/ Decline \/ OpenOperation \/ CloseOperation \/ CalibrationMetadata \/ StopRun
    \/ \E ok \in BOOLEAN : StartRun(ok)

-----------------------------------------------------------------------------

(* The calibrated channels of a run come from the calibrations its metadata names, so
   that it can be recalculated (decision 0023), whatever was accepted between two runs
   and whatever polling has read before; or there are none. *)
RunUsesWhatItNames ==
    inRun => \A d \in Calibrated : Applied(d) \in {named[d], Nothing}

(* What is accepted is what is reviewed: a fit is of the device that is chosen, and the
   list beside it that device's; it lags behind a file edited by hand. *)
ReviewedAsShown ==
    /\ candidate \in {chosen, Nothing}
    /\ listed.device = chosen
    /\ history[chosen] # Nothing => listed.names = history[chosen]

=============================================================================
