---------------------------- MODULE RecipeEntry ----------------------------
(***************************************************************************)
(* How the editors of recipe steps show and read what is set               *)
(* (ui/operation/recipe_settings.py, recipe_step_dialog.py): boxes with a  *)
(* unit beside them, the options of a ramp, and the card of a device.      *)
(*                                                                         *)
(* Recipes keep currents in one unit; a box shows them in mA or in A.  The *)
(* number in a box counts parts of which Milli make one, and so does a     *)
(* value, in mA if it is a current: only numbers that are shown exactly    *)
(* are typed.  How long a ramp holds is left out.                          *)
(***************************************************************************)
EXTENDS Naturals, Sequences, FiniteSets, SequencesExt

CONSTANTS Roles,         \* the devices of the rig, in order
          SettingsOf,    \* of each: the settings of its kind, in order
          ModeOf,        \* "CC", "CV" or "both", of every setting
          Currents, Switches,    \* settings in amperes; settings that are on or off
          Before,        \* <<device, setting>> -> value the recipe gives it before, or Nothing
          Milli,         \* mA in an A
          Typed,         \* what is typed into a box
          Kinds,         \* of ramps
          MaxEdits,      \* bound: edits
          Unreadable, Nothing

VARIABLES step,          \* as it is in the recipe
          draft,         \* what the open editor shows, or Nothing
          meant,         \* what the editor was told, in quantities (history)
          handed,        \* what OK was given to (history)
          edits

entryVars == <<step, draft, meant, handed, edits>>

Settings == DOMAIN ModeOf

-----------------------------------------------------------------------------
(* Boxes: a number, and the unit typed after it if any. *)

Scale(setting, unit) == IF setting \in Currents /\ unit = "A" THEN Milli ELSE 1

Number(n) == [number |-> n, typed |-> Nothing]

(* ValueDisplay.show() *)
Show(value, setting, unit) == Number(value \div Scale(setting, unit))

(* ValueDisplay.read(): a typed unit wins over the one beside the box. *)
Read(text, setting, unit) ==
    IF text = Unreadable \/ (text.typed # Nothing /\ setting \notin Currents) THEN Unreadable
    ELSE text.number * Scale(setting, IF text.typed = Nothing THEN unit ELSE text.typed)

(* convert_text(): what does not read yet is left as it is. *)
Convert(text, setting, unit, to) ==
    LET value == Read(text, setting, unit)
    IN IF value = Unreadable THEN text ELSE Show(value, setting, to)

DefaultText(setting) == Number(IF setting \in Switches THEN 1 ELSE 0)

-----------------------------------------------------------------------------
(* The options of a ramp.  Without a fixed start it begins at what the recipe set before. *)

(* _method_changed() *)
Possible(editor, before) ==
    IF editor.kind # "setpoints" /\ before = Nothing THEN [editor EXCEPT !.fixed = TRUE] ELSE editor

(* load() *)
Loaded(ramp, setting, unit, before) ==
    LET start == IF ramp # Nothing /\ ramp.start # Nothing THEN ramp.start
                 ELSE IF before # Nothing THEN before ELSE 0
        amount == IF ramp = Nothing THEN Unreadable
                  ELSE IF ramp.kind = "step_count" THEN Number(ramp.amount * Milli)
                  ELSE Show(ramp.amount, setting, unit)
    IN Possible([on |-> ramp # Nothing,
                 kind |-> IF ramp = Nothing THEN "step_size" ELSE ramp.kind,
                 fixed |-> ramp # Nothing /\ ramp.start # Nothing,
                 from |-> Show(start, setting, unit), amount |-> amount], before)

(* convert(): a number of steps has no unit. *)
Converted(editor, setting, unit, to) ==
    [editor EXCEPT !.from = Convert(@, setting, unit, to),
                   !.amount = IF editor.kind = "step_count" THEN @ ELSE Convert(@, setting, unit, to)]

Count(text) ==
    IF text = Unreadable \/ text.typed # Nothing \/ text.number % Milli # 0 THEN Unreadable
    ELSE text.number \div Milli

(* What Ramp refuses: steps of no size, and no steps. *)
NoRamp(kind, start, amount) ==
    Unreadable \in {start, amount} \/ (amount = 0 /\ kind # "setpoints")

(* read() *)
RampOf(editor, setting, unit) ==
    LET start == IF editor.kind = "setpoints" \/ ~editor.fixed THEN Nothing
                 ELSE Read(editor.from, setting, unit)
        amount == IF editor.kind = "step_count" THEN Count(editor.amount)
                  ELSE Read(editor.amount, setting, unit)
    IN IF ~editor.on THEN Nothing
       ELSE IF NoRamp(editor.kind, start, amount) THEN Unreadable
       ELSE [kind |-> editor.kind, start |-> start, amount |-> amount]

-----------------------------------------------------------------------------
(* The card of a device: its settings, ticked or not, and what each is remembered by. *)

(* device_settings() *)
Listed(device, mode) ==
    IF device \notin DOMAIN SettingsOf THEN <<>>
    ELSE SelectSeq(SettingsOf[device], LAMBDA s : ModeOf[s] \in {"both", mode})

ListedIn(card) == ToSet(Listed(card.device, card.mode))

(* _remember(), of ramps: the last good one. *)
Remembered(card) ==
    [s \in Settings |->
        LET ramp == IF card.editors[s] = Nothing THEN card.ramps[s]
                    ELSE RampOf(card.editors[s], s, card.units[s])
        IN IF ramp = Unreadable THEN card.ramps[s] ELSE ramp]

(* _build_rows() *)
Built(card, ramping) ==
    LET ramps == Remembered(card)
    IN [card EXCEPT
          !.ramps = ramps,
          !.editors = [s \in Settings |->
              IF ramping /\ s \in ListedIn(card) \ Switches
              THEN Loaded(ramps[s], s, card.units[s], Before[card.device, s]) ELSE Nothing]]

(* group_mode() *)
ModeStated(assignments) ==
    LET stating == SelectSeq(assignments, LAMBDA a : ModeOf[a.setting] # "both")
    IN IF stating = <<>> THEN "CC" ELSE ModeOf[Last(stating).setting]

(* __init__(); every box begins in the unit of the builder. *)
Card(device, assignments, unit, ramping) ==
    LET Given(s) == \E k \in DOMAIN assignments : assignments[k].setting = s
        Its(s) == Last(SelectSeq(assignments, LAMBDA a : a.setting = s))
    IN Built([device |-> device, mode |-> ModeStated(assignments),
              ticked |-> {s \in Settings : Given(s)},
              texts |-> [s \in Settings |-> IF Given(s) THEN Show(Its(s).value, s, unit) ELSE DefaultText(s)],
              units |-> [s \in Settings |-> unit],
              ramps |-> [s \in Settings |-> IF Given(s) THEN Its(s).ramp ELSE Nothing],
              editors |-> [s \in Settings |-> Nothing]], ramping)

(* _mode_changed() *)
InMode(card, mode, ramping) == Built([card EXCEPT !.mode = mode], ramping)

(* _device_changed(): its first setting is ticked. *)
ForDevice(card, device) ==
    Built([card EXCEPT !.device = device, !.ticked = {SettingsOf[device][1]},
                       !.texts = [s \in Settings |-> DefaultText(s)]], TRUE)

(* _unit_switched() *)
InUnit(card, s, unit) ==
    [card EXCEPT !.texts[s] = Convert(@, s, card.units[s], unit), !.units[s] = unit,
                 !.editors[s] = IF @ = Nothing THEN Nothing ELSE Converted(@, s, card.units[s], unit)]

(* read(), and what Assignment refuses. *)
Assigned(card) ==
    LET those == SelectSeq(Listed(card.device, card.mode), LAMBDA s : s \in card.ticked)
        Value(s) == Read(card.texts[s], s, card.units[s])
        Ramp(s) == IF card.editors[s] = Nothing THEN Nothing
                   ELSE RampOf(card.editors[s], s, card.units[s])
    IN IF those = <<>> \/ \E k \in DOMAIN those : Unreadable \in {Value(those[k]), Ramp(those[k])}
       THEN Unreadable
       ELSE [k \in DOMAIN those |-> [device |-> card.device, setting |-> those[k],
                                     value |-> Value(those[k]), ramp |-> Ramp(those[k])]]

-----------------------------------------------------------------------------
(* Editing a card.  meaning is what the operator told of it: it changes with what is typed,
   ticked and chosen, and with nothing that only shows the same otherwise.  Each edit is the
   card and the meaning it leaves. *)

(* The ramp of a setting, if its editor is shown anew. *)
RampShown(card, s) ==
    LET unit == card.units[s]
    IN RampOf(Loaded(Remembered(card)[s], s, unit, Before[card.device, s]), s, unit)

(* A card as it is shown, all of it told. *)
Meaning(card) ==
    [device |-> card.device, mode |-> card.mode, ticked |-> card.ticked,
     values |-> [s \in Settings |-> Read(card.texts[s], s, card.units[s])],
     ramps |-> [s \in Settings |-> RampShown(card, s)]]

Toggled(s, those) == IF s \in those THEN those \ {s} ELSE those \cup {s}

Tick(card, meaning, s) ==
    [card |-> [card EXCEPT !.ticked = Toggled(s, @)],
     meaning |-> [meaning EXCEPT !.ticked = Toggled(s, @)]]

(* Boxes of settings that are not ticked are disabled. *)
Typing(card, meaning, s) ==
    {[card |-> [card EXCEPT !.texts[s] = text],
      meaning |-> [meaning EXCEPT !.values[s] = Read(text, s, card.units[s])]] :
        text \in IF s \notin card.ticked THEN {}
                 ELSE IF s \in Switches THEN {Number(0), Number(1)} ELSE Typed}

(* The options of a ramp, one changed; before is what the recipe set before. *)
Changed(editor, before) ==
    IF ~editor.on THEN {}
    ELSE {Possible([editor EXCEPT !.kind = kind], before) : kind \in Kinds}
         \cup {[editor EXCEPT !.amount = text] : text \in Typed}
         \cup (IF editor.kind # "setpoints" /\ editor.fixed
               THEN {[editor EXCEPT !.from = text] : text \in Typed} ELSE {})
         \cup (IF editor.kind # "setpoints" /\ before # Nothing
               THEN {[editor EXCEPT !.fixed = ~@]} ELSE {})

(* While a ramp does not read, the one remembered is meant. *)
RampEdits(card, meaning, s) ==
    LET editor == card.editors[s]
        With(other) == [card EXCEPT !.editors[s] = other]
    IN {[card |-> With(other), meaning |-> [meaning EXCEPT !.ramps[s] = RampShown(With(other), s)]] :
          other \in IF s \notin card.ticked \/ editor = Nothing THEN {}
                   ELSE {[editor EXCEPT !.on = ~@]} \cup Changed(editor, Before[card.device, s])}

(* The mode is meant; the settings of the other mode are kept for it. *)
OtherModes(card, meaning, ramping) ==
    {[card |-> InMode(card, mode, ramping), meaning |-> [meaning EXCEPT !.mode = mode]] :
        mode \in {ModeOf[s] : s \in ToSet(SettingsOf[card.device])} \ {"both", card.mode}}

SwitchUnit(card, meaning, s) ==
    [card |-> InUnit(card, s, IF card.units[s] = "mA" THEN "A" ELSE "mA"), meaning |-> meaning]

CardEdits(card, meaning, ramping) ==
    OtherModes(card, meaning, ramping)
    \cup UNION {{Tick(card, meaning, s)} \cup Typing(card, meaning, s) \cup RampEdits(card, meaning, s) :
                  s \in ListedIn(card)}
    \cup {SwitchUnit(card, meaning, s) : s \in ListedIn(card) \cap Currents}

(* What a card was told, as it is to be assigned. *)
Told(meaning) ==
    LET those == SelectSeq(Listed(meaning.device, meaning.mode), LAMBDA s : s \in meaning.ticked)
    IN [k \in DOMAIN those |-> [device |-> meaning.device, setting |-> those[k],
                                value |-> meaning.values[those[k]], ramp |-> meaning.ramps[those[k]]]]

-----------------------------------------------------------------------------
(* Every editor works on a copy of the step that OK hands back and Cancel drops. *)

EntryInit(steps) == step \in steps /\ draft = Nothing /\ meant = Nothing /\ edits = 0

Opened(contents, meaning) ==
    /\ draft = Nothing /\ draft' = contents /\ meant' = meaning
    /\ UNCHANGED <<step, handed, edits>>

Edit(contents, meaning) ==
    /\ edits < MaxEdits /\ edits' = edits + 1
    /\ draft' = contents /\ meant' = meaning /\ UNCHANGED <<step, handed>>

(* _ok(): nothing that does not read is handed back. *)
HandBack(result, told) ==
    /\ draft # Nothing /\ result # Unreadable
    /\ step' = result /\ handed' = told
    /\ draft' = Nothing /\ meant' = Nothing /\ UNCHANGED edits

Cancel == draft # Nothing /\ draft' = Nothing /\ meant' = Nothing /\ UNCHANGED <<step, handed, edits>>

-----------------------------------------------------------------------------

(* A ramp from what the recipe set before has something set before it. *)
HasStart(device, setting, ramp) ==
    ramp = Nothing \/ ramp.kind = "setpoints" \/ ramp.start # Nothing \/ Before[device, setting] # Nothing

=============================================================================
