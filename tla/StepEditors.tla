---------------------------- MODULE StepEditors ----------------------------
(***************************************************************************)
(* The editors of a recipe's steps: of a Set step, cards of devices, and   *)
(* of a Loop, its values as a list or a range and the ramp to each         *)
(* (ui/operation/recipe_step_dialog.py); and of the end state, how each    *)
(* device is left when the run finishes, is stopped or fails               *)
(* (ui/operation/recipe_end_dialog.py), where what could pressurise the    *)
(* cell or leave a supply on is confirmed.                                 *)
(*                                                                         *)
(* step is the one being edited; an end state is the action of every       *)
(* device, with what is set.                                               *)
(***************************************************************************)
EXTENDS RecipeEntry, Integers

CONSTANTS SetSteps,      \* assignments of steps of the recipe
          LoopSteps,     \* loops of the recipe
          Lists,         \* lists of numbers that are typed
          Bounds,        \* numbers that are typed as a range's start, end or step
          EndSteps,      \* end states of recipes
          NoSafeState,   \* devices whose driver has none
          Flowing        \* flow and back-pressure controllers

-----------------------------------------------------------------------------
(* A Set step. *)

SetInit == EntryInit(SetSteps) /\ handed = step

(* group_by_device() *)
DevicesOf(assignments) ==
    LET Device(k) == assignments[k].device
        first == {k \in DOMAIN assignments : \A j \in 1..(k - 1) : Device(j) # Device(k)}
        order == SetToSortSeq(first, <)
    IN [k \in DOMAIN order |-> Device(order[k])]

OpenSet ==
    LET devices == DevicesOf(step)
        cards == [k \in DOMAIN devices |->
                    Card(devices[k], SelectSeq(step, LAMBDA a : a.device = devices[k]), "mA", TRUE)]
    IN Opened(cards, [k \in DOMAIN cards |-> Meaning(cards[k])])

Put(k, card, meaning) == Edit([draft EXCEPT ![k] = card], [meant EXCEPT ![k] = meaning])

(* A device that has a card already is refused. *)
ChooseDevice(k, device) ==
    /\ \A j \in DOMAIN draft : draft[j].device # device
    /\ LET card == ForDevice(draft[k], device) IN Put(k, card, Meaning(card))

(* _add_card(): the first device that has none, with its first setting. *)
AddCard ==
    LET free == SelectSeq(Roles, LAMBDA d : \A k \in DOMAIN draft : draft[k].device # d)
        device == Head(free)
        first == SettingsOf[device][1]
        card == Card(device, <<[device |-> device, setting |-> first,
                                value |-> DefaultText(first).number, ramp |-> Nothing]>>, "mA", TRUE)
    IN free # <<>> /\ Edit(Append(draft, card), Append(meant, Meaning(card)))

RemoveCard(k) == Len(draft) > 1 /\ Edit(RemoveAt(draft, k), RemoveAt(meant, k))

RaiseCard(k) ==
    LET Raised(those) == [those EXCEPT ![k] = those[k - 1], ![k - 1] = those[k]]
    IN k > 1 /\ Edit(Raised(draft), Raised(meant))

OKSet ==
    LET read == [k \in DOMAIN draft |-> Assigned(draft[k])]
    IN HandBack(IF \E k \in DOMAIN draft : read[k] = Unreadable THEN Unreadable ELSE FlattenSeq(read),
                FlattenSeq([k \in DOMAIN meant |-> Told(meant[k])]))

SetNext ==
    \/ OpenSet \/ Cancel
    \/ /\ draft # Nothing
       /\ \/ AddCard \/ OKSet
          \/ \E k \in DOMAIN draft :
                \/ RemoveCard(k) \/ RaiseCard(k)
                \/ \E device \in ToSet(Roles) : ChooseDevice(k, device)
                \/ \E edit \in CardEdits(draft[k], meant[k], TRUE) : Put(k, edit.card, edit.meaning)

-----------------------------------------------------------------------------

(* What OK hands back, after any edits of any number of openings, is what was told: the
   same quantities whatever unit they are shown in, with nothing lost by looking at the
   other mode of a supply.  One device has one run of settings, of one mode, and a
   supply's output comes after its limits. *)
StepIsAsMeant ==
    /\ step = handed
    /\ \A k \in DOMAIN step : HasStart(step[k].device, step[k].setting, step[k].ramp)
    /\ \A i, j \in DOMAIN step :
          i < j /\ step[i].device = step[j].device =>
              /\ step[i].setting # step[j].setting
              /\ \A k \in i..j : step[k].device = step[i].device
              /\ step[i].setting \notin Switches
              /\ {ModeOf[step[i].setting], ModeOf[step[j].setting]} # {"CC", "CV"}

-----------------------------------------------------------------------------
(* A Loop step. *)

(* as_range(): numbers that are evenly spaced. *)
Even(numbers) ==
    /\ Len(numbers) >= 3 /\ numbers[1] # numbers[2]
    /\ \A k \in 2..(Len(numbers) - 1) : numbers[k + 1] - numbers[k] = numbers[2] - numbers[1]

(* expand_range(): the end included; down with a negative step. *)
Expand(range) ==
    LET start == range[1]
        stop == range[2]
        step_ == range[3]
        count == IF step_ > 0 THEN (stop - start) \div step_ ELSE (start - stop) \div (-step_)
    IN IF \/ Unreadable \in ToSet(range)
          \/ step_ = 0 \/ (stop - start) * step_ < 0
       THEN Unreadable ELSE [k \in 1..(count + 1) |-> start + (k - 1) * step_]

(* What a range says: every number a multiple of its step from its start, up to its end. *)
Along(range) ==
    LET start == range[1]
        up == range[3] > 0
        those == {n \in IF up THEN start..range[2] ELSE range[2]..start :
                     (n - start) % (IF up THEN range[3] ELSE -range[3]) = 0}
    IN SetToSortSeq(those, LAMBDA m, n : IF up THEN m < n ELSE m > n)

(* read_values(): one unit, typed after any of the numbers, is that of all of them. *)
ReadList(list, setting, unit) ==
    IF list = Unreadable \/ (list.typed # Nothing /\ setting \notin Currents) THEN Unreadable
    ELSE [k \in DOMAIN list.numbers |->
             Read([number |-> list.numbers[k], typed |-> list.typed], setting, unit)]

ShowList(values, setting, unit) ==
    [numbers |-> [k \in DOMAIN values |-> Show(values[k], setting, unit).number], typed |-> Nothing]

(* The numbers of a range, as quantities. *)
Quantities(range, setting, unit) == [k \in 1..3 |-> Read(range[k], setting, unit)]

-----------------------------------------------------------------------------

(* The boxes as they are shown, all of it told. *)
LoopMeaning(boxes) ==
    [told |-> TRUE, device |-> boxes.device, setting |-> boxes.setting, ranged |-> boxes.ranged,
     list |-> ReadList(boxes.list, boxes.setting, boxes.unit),
     range |-> Quantities(boxes.range, boxes.setting, boxes.unit),
     ramping |-> boxes.editor.on,
     ramp |-> RampOf([boxes.editor EXCEPT !.on = TRUE], boxes.setting, boxes.unit)]

LoopInit == EntryInit(LoopSteps) /\ handed = step

(* _build_loop() *)
OpenLoop ==
    LET list == ShowList(step.values, step.setting, "mA")
        ranged == step.setting \notin Switches /\ Even(list.numbers)
        boxes == [device |-> step.device, setting |-> step.setting, unit |-> "mA",
                  ranged |-> ranged, list |-> list,
                  range |-> IF ~ranged THEN <<Unreadable, Unreadable, Unreadable>>
                            ELSE <<Number(list.numbers[1]), Number(Last(list.numbers)),
                                   Number(list.numbers[2] - list.numbers[1])>>,
                  editor |-> Loaded(step.ramp, step.setting, "mA", Before[step.device, step.setting])]
    IN Opened(boxes, [LoopMeaning(boxes) EXCEPT !.told = FALSE])

Tell(boxes) == boxes # draft /\ Edit(boxes, LoopMeaning(boxes))

(* _loop_target_changed(): what is typed stays as it is if the new setting is of the same kind. *)
ChooseTarget(device, setting) ==
    LET switch == setting \in Switches
        editor == Possible(draft.editor, Before[device, setting])
    IN Tell([draft EXCEPT
               !.device = device, !.setting = setting,
               !.ranged = IF switch THEN FALSE ELSE @,
               !.list = IF switch = (draft.setting \in Switches) THEN @
                        ELSE [numbers |-> IF switch THEN <<1, 0>> ELSE <<0>>, typed |-> Nothing],
               !.editor = IF switch THEN [editor EXCEPT !.on = FALSE] ELSE editor])

TypeValues ==
    \/ /\ ~draft.ranged
       /\ \E list \in IF draft.setting \in Switches THEN {[numbers |-> <<0>>, typed |-> Nothing]} ELSE Lists :
             Tell([draft EXCEPT !.list = list])
    \/ /\ draft.ranged
       /\ \E k \in 1..3, n \in Bounds : Tell([draft EXCEPT !.range[k] = Number(n)])

(* A list is not turned into a range, nor a range into a list. *)
ChooseKind ==
    /\ draft.setting \notin Switches
    /\ Edit([draft EXCEPT !.ranged = ~@], [meant EXCEPT !.told = TRUE, !.ranged = ~@])

ChangeLoopRamp ==
    \/ /\ draft.setting \notin Switches
       /\ Edit([draft EXCEPT !.editor.on = ~@], [meant EXCEPT !.told = TRUE, !.ramping = ~@])
    \/ \E editor \in Changed(draft.editor, Before[draft.device, draft.setting]) :
          Tell([draft EXCEPT !.editor = editor])

(* _loop_unit_switched() *)
SwitchLoopUnit ==
    LET s == draft.setting
        to == IF draft.unit = "mA" THEN "A" ELSE "mA"
        values == ReadList(draft.list, s, draft.unit)
    IN /\ s \in Currents
       /\ Edit([draft EXCEPT !.unit = to,
                             !.list = IF values = Unreadable THEN @ ELSE ShowList(values, s, to),
                             !.range = [k \in 1..3 |-> Convert(@[k], s, draft.unit, to)],
                             !.editor = Converted(@, s, draft.unit, to)],
               meant)

(* _build_row(): the numbers of a range are expanded as they are shown. *)
OKLoop ==
    LET Unwrapped(text) == IF text = Unreadable THEN text ELSE text.number
        shown == Expand([k \in 1..3 |-> Unwrapped(draft.range[k])])
        values == IF ~draft.ranged THEN ReadList(draft.list, draft.setting, draft.unit)
                  ELSE IF shown = Unreadable THEN Unreadable
                  ELSE ReadList([numbers |-> shown, typed |-> Nothing], draft.setting, draft.unit)
        ramp == RampOf(draft.editor, draft.setting, draft.unit)
    IN HandBack(IF Unreadable \in {values, ramp} THEN Unreadable
                ELSE [device |-> draft.device, setting |-> draft.setting, values |-> values, ramp |-> ramp],
                IF ~meant.told THEN step ELSE
                [device |-> meant.device, setting |-> meant.setting,
                 values |-> IF meant.ranged THEN Along(meant.range) ELSE meant.list,
                 ramp |-> IF meant.ramping THEN meant.ramp ELSE Nothing])

LoopNext ==
    \/ OpenLoop \/ Cancel
    \/ /\ draft # Nothing
       /\ \/ TypeValues \/ ChooseKind \/ ChangeLoopRamp \/ SwitchLoopUnit \/ OKLoop
          \/ \E device \in ToSet(Roles) : ChooseTarget(device, SettingsOf[device][1])
          \/ \E setting \in ToSet(SettingsOf[draft.device]) : ChooseTarget(draft.device, setting)

-----------------------------------------------------------------------------

(* What OK hands back is what was told: the values in the order of the list or along the
   range, and the ramp, in the same quantities whatever unit they were shown in; a range
   ends at its end or the last step before it. *)
LoopIsAsMeant ==
    /\ step = handed
    /\ step.values # <<>>
    /\ step.setting \in Switches => step.ramp = Nothing
    /\ HasStart(step.device, step.setting, step.ramp)

-----------------------------------------------------------------------------
(* The end state. *)

Devices == ToSet(Roles)
Supplies == {device \in Devices : ToSet(SettingsOf[device]) \cap Switches # {}}

(* What may do harm once the run is over. *)
Risks(end) ==
    {<<device, "safe">> : device \in {d \in Flowing : end[d].action = "safe"}}
    \cup {<<device, "leave">> : device \in {d \in Supplies : end[d].action = "leave"}}
    \cup {<<device, "on">> : device \in {d \in Supplies : \E a \in ToSet(end[d].assignments) :
                                             a.setting \in Switches /\ a.value = 1}}

(* Of a state that was handed back, all risks were agreed to or there before. *)
EndInit == EntryInit(EndSteps) /\ handed = [end |-> step, agreed |-> Risks(step)]

(* With no safe state, not to be listed really means to stay as it is. *)
OpenEnd ==
    LET action == [d \in Devices |-> IF d \in NoSafeState /\ step[d].action = "safe" THEN "leave"
                                     ELSE step[d].action]
        cards == [d \in Devices |-> IF action[d] = "set" THEN Card(d, step[d].assignments, "mA", FALSE)
                                    ELSE Nothing]
    IN Opened([action |-> action, cards |-> cards],
              [action |-> action, agreed |-> {},
               cards |-> [d \in Devices |-> IF cards[d] = Nothing THEN Nothing ELSE Meaning(cards[d])]])

(* _show_card(): the one there was; of a supply, its output, which is off. *)
Shown(device) ==
    LET outputs == SelectSeq(Listed(device, "CC"), LAMBDA s : s \in Switches)
        first == IF outputs # <<>> THEN outputs[1] ELSE SettingsOf[device][1]
    IN IF draft.cards[device] # Nothing THEN draft.cards[device]
       ELSE Card(device, <<[device |-> device, setting |-> first, value |-> 0, ramp |-> Nothing]>>, "mA", FALSE)

(* _action_chosen(); one that is not confirmed is not chosen. *)
ChooseAction(device, action) ==
    LET set == action = "set"
        asked == \/ action = "safe" /\ device \in Flowing
                 \/ action = "leave" /\ device \in Supplies
        card == IF set THEN Shown(device) ELSE draft.cards[device]
    IN /\ ~(action = "safe" /\ device \in NoSafeState)
       /\ \/ Edit([draft EXCEPT !.action[device] = action, !.cards[device] = card],
                  [meant EXCEPT !.action[device] = action,
                                !.cards[device] = IF set /\ @ = Nothing THEN Meaning(card) ELSE @,
                                !.agreed = IF asked THEN @ \cup {<<device, action>>} ELSE @])
          \/ asked /\ Edit(draft, meant)

PutCard(device, card, meaning) ==
    Edit([draft EXCEPT !.cards[device] = card], [meant EXCEPT !.cards[device] = meaning])

(* _ok(): what turns a supply on is confirmed, all of it. *)
OKEnd ==
    LET read == [d \in Devices |-> IF draft.action[d] = "set" THEN Assigned(draft.cards[d]) ELSE <<>>]
        end == [d \in Devices |-> [action |-> draft.action[d], assignments |-> read[d]]]
        told == [d \in Devices |-> [action |-> meant.action[d],
                                    assignments |-> IF meant.action[d] = "set" THEN Told(meant.cards[d])
                                                    ELSE <<>>]]
        readable == \A d \in Devices : read[d] # Unreadable
        live == IF readable THEN {risk \in Risks(end) : risk[2] = "on"} ELSE {}
    IN \/ HandBack(IF readable THEN end ELSE Unreadable,
                   [end |-> told,
                    agreed |-> live \cup meant.agreed \cup {r \in Risks(step) : r[2] # "on"}])
       \/ live # {} /\ edits < MaxEdits /\ edits' = edits + 1 /\ UNCHANGED <<step, draft, meant, handed>>

EndNext ==
    \/ OpenEnd \/ Cancel
    \/ /\ draft # Nothing
       /\ \/ OKEnd
          \/ \E device \in Devices :
                \/ \E action \in {"safe", "leave", "set"} : ChooseAction(device, action)
                \/ /\ draft.action[device] = "set"
                   /\ \E edit \in CardEdits(draft.cards[device], meant.cards[device], FALSE) :
                         PutCard(device, edit.card, edit.meaning)

-----------------------------------------------------------------------------

(* What OK hands back is what was told, in the same quantities; a device has none of the
   settings of the other mode; and a gas flow that is stopped, an outlet that is closed and a
   supply that is left as it is, each was so before or was confirmed while editing. *)
EndIsAsMeant ==
    /\ step = handed.end
    /\ Risks(step) \subseteq handed.agreed

=============================================================================
