-------------------------- MODULE OperationProofs --------------------------
(* Proofs about what works by itself in Operation and Settings: the operations of the
   instruments, the settings of heaters, calibrations, orders and closing, Alicats and
   their port, and the monitor of memory, for any instruments, limits and names. *)
EXTENDS MCOperation, SequenceTheorems, FiniteSetTheorems, TLAPS

(***************************************************************************)
(* Lists of exchanges.                                                     *)
(***************************************************************************)

(* What is first, what follows, and what all are. *)
LEMMA List1 ==
  ASSUME NEW a
  PROVE  /\ <<a>> # <<>> /\ Head(<<a>>) = a /\ Tail(<<a>>) = <<>>
         /\ \A X : a \in X => <<a>> \in Seq(X)
  OBVIOUS

LEMMA List2 ==
  ASSUME NEW a, NEW b
  PROVE  /\ <<a, b>> # <<>> /\ Head(<<a, b>>) = a /\ Tail(<<a, b>>) = <<b>>
         /\ \A X : a \in X /\ b \in X => <<a, b>> \in Seq(X)
  OBVIOUS

LEMMA List3 ==
  ASSUME NEW a, NEW b, NEW c
  PROVE  /\ <<a, b, c>> # <<>> /\ Head(<<a, b, c>>) = a /\ Tail(<<a, b, c>>) = <<b, c>>
         /\ \A X : a \in X /\ b \in X /\ c \in X => <<a, b, c>> \in Seq(X)
  OBVIOUS

LEMMA List4 ==
  ASSUME NEW a, NEW b, NEW c, NEW d
  PROVE  /\ <<a, b, c, d>> # <<>> /\ Head(<<a, b, c, d>>) = a /\ Tail(<<a, b, c, d>>) = <<b, c, d>>
         /\ \A X : {a, b, c, d} \subseteq X => <<a, b, c, d>> \in Seq(X)
  OBVIOUS


(***************************************************************************)
(* The flow controller.                                                    *)
(***************************************************************************)

(* The flow controller's safe state. *)
FlowRole == <<F!Ask("role"), F!Set("flow", 0), F!Set("confirm", 0)>>
FlowWrite == <<F!Set("flow", 0), F!Set("confirm", 0)>>
FlowConfirm == <<F!Set("confirm", 0)>>

FlowInv == doing = "safe" => todo \in {FlowRole, FlowWrite, FlowConfirm}

LEMMA FlowExchanges ==
  /\ FlowRole # <<>> /\ Head(FlowRole).register = "role" /\ Tail(FlowRole) = FlowWrite
  /\ FlowWrite # <<>> /\ Head(FlowWrite).register = "flow" /\ Tail(FlowWrite) = FlowConfirm
  /\ FlowConfirm # <<>> /\ Head(FlowConfirm).register = "confirm" /\ Head(FlowConfirm).value = 0
  BY List1, List2, List3 DEF FlowRole, FlowWrite, FlowConfirm, F!Ask, F!Set

LEMMA FlowStep ==
  ASSUME FlowInv, F!FlowNext \/ UNCHANGED vars
  PROVE  FlowInv' /\ F!FlowIsToldOn
  <1> USE FlowExchanges DEF FlowInv, F!FlowIsToldOn, F!Over, F!Idle, F!opVars
  <1>1. CASE UNCHANGED vars
    BY <1>1, Zenon DEF vars
  <1>2. CASE F!Panel \/ F!Disconnect \/ \E ok \in BOOLEAN : F!Connect(ok)
    BY <1>2 DEF F!Panel, F!Disconnect, F!Connect, F!Single
  <1>3. ASSUME NEW ok \in BOOLEAN, F!Poll(ok) PROVE FlowInv' /\ F!FlowIsToldOn
    <2>1. UNCHANGED <<device, doing, todo, raised>>
      BY <1>3 DEF F!Poll
    <2> QED
      BY <2>1
  <1>4. CASE F!SafeState
    BY <1>4 DEF F!SafeState, F!Begin, F!Single, FlowRole
  <1>5. CASE \E flow \in Flows : F!SetFlow(flow)
    BY <1>5 DEF F!SetFlow, F!Begin
  <1>6. CASE F!RoleConfirmed \/ F!Acknowledged
    BY <1>6 DEF F!RoleConfirmed, F!Acknowledged, F!Now, F!Continue
  <1>7. CASE F!RoleNotConfirmed \/ F!NotAcknowledged \/ F!NotConfirmed
    BY <1>7 DEF F!RoleNotConfirmed, F!NotAcknowledged, F!NotConfirmed, F!Raise, F!Raised
  <1>8. CASE F!Confirmed
    BY <1>8 DEF F!Confirmed, F!Now, F!Value, F!Continue
  <1> QED
    BY <1>1, <1>2, <1>3, <1>4, <1>5, <1>6, <1>7, <1>8 DEF F!FlowNext


(***************************************************************************)
(* The back-pressure controller.                                           *)
(***************************************************************************)

HoldRole == <<B!Ask("role"), B!Set("hold", TRUE)>>
HoldOn == <<B!Set("hold", TRUE)>>
ResumeRole == <<B!Ask("role"), B!Ask("limit"), B!Set("hold", FALSE)>>
ResumeLimit == <<B!Ask("limit"), B!Set("hold", FALSE)>>
HoldOff == <<B!Set("hold", FALSE)>>
SetRole(p) == <<B!Ask("role"), B!Set("setpoint", p), B!Set("confirm", p)>>
SetWrite(p) == <<B!Set("setpoint", p), B!Set("confirm", p)>>
SetConfirm(p) == <<B!Set("confirm", p)>>

(* What is regulated to is known to be within the ceiling when the valve is let go. *)
PressureInv ==
  /\ device \in [setpoint : Pressures, hold : BOOLEAN, role : {"bpr", "other"}]
  /\ doing \in {"nothing", "safe", "resume", "set"}
  /\ doing = "nothing" => todo = <<>>
  /\ doing = "safe" => todo \in {HoldRole, HoldOn}
  /\ doing = "resume" => todo \in {ResumeRole, ResumeLimit, HoldOff}
  /\ todo = HoldOff => device.setpoint <= Ceiling
  /\ doing = "set" => \E p \in Pressures : todo \in {SetRole(p), SetWrite(p), SetConfirm(p)}

LEMMA HoldExchanges ==
  /\ HoldRole # <<>> /\ Head(HoldRole).register = "role" /\ Tail(HoldRole) = HoldOn
  /\ HoldOn # <<>> /\ Head(HoldOn).register = "hold" /\ Head(HoldOn).value = TRUE
  <1>1. HoldRole # <<>> /\ Head(HoldRole) = B!Ask("role") /\ Tail(HoldRole) = HoldOn
    BY List1, List2, List3 DEF HoldRole, HoldOn
  <1>2. HoldOn # <<>> /\ Head(HoldOn) = B!Set("hold", TRUE)
    BY List1, List2, List3 DEF HoldOn
  <1> QED
    BY <1>1, <1>2 DEF B!Ask, B!Set

LEMMA ResumeExchanges ==
  /\ ResumeRole # <<>> /\ Head(ResumeRole).register = "role" /\ Tail(ResumeRole) = ResumeLimit
  /\ ResumeLimit # <<>> /\ Head(ResumeLimit).register = "limit" /\ Tail(ResumeLimit) = HoldOff
  /\ HoldOff # <<>> /\ Head(HoldOff).register = "hold" /\ Head(HoldOff).value = FALSE
  <1>1. ResumeRole # <<>> /\ Head(ResumeRole) = B!Ask("role") /\ Tail(ResumeRole) = ResumeLimit
    BY List3 DEF ResumeRole, ResumeLimit
  <1>2. ResumeLimit # <<>> /\ Head(ResumeLimit) = B!Ask("limit") /\ Tail(ResumeLimit) = HoldOff
    BY List1, List2, List3 DEF ResumeLimit, HoldOff
  <1>3. HoldOff # <<>> /\ Head(HoldOff) = B!Set("hold", FALSE)
    BY List1, List2, List3 DEF HoldOff
  <1> QED
    BY <1>1, <1>2, <1>3 DEF B!Ask, B!Set

LEMMA SetExchanges ==
  ASSUME NEW p
  PROVE  /\ SetRole(p) # <<>> /\ Head(SetRole(p)).register = "role" /\ Tail(SetRole(p)) = SetWrite(p)
         /\ SetWrite(p) # <<>> /\ Head(SetWrite(p)).register = "setpoint" /\ Head(SetWrite(p)).value = p
         /\ Tail(SetWrite(p)) = SetConfirm(p)
         /\ SetConfirm(p) # <<>> /\ Head(SetConfirm(p)).register = "confirm"
  <1>1. SetRole(p) # <<>> /\ Head(SetRole(p)) = B!Ask("role") /\ Tail(SetRole(p)) = SetWrite(p)
    BY List1, List2, List3 DEF SetRole, SetWrite
  <1>2. SetWrite(p) # <<>> /\ Head(SetWrite(p)) = B!Set("setpoint", p) /\ Tail(SetWrite(p)) = SetConfirm(p)
    BY List1, List2, List3 DEF SetWrite, SetConfirm
  <1>3. SetConfirm(p) # <<>> /\ Head(SetConfirm(p)) = B!Set("confirm", p)
    BY List1, List2, List3 DEF SetConfirm
  <1> QED
    BY <1>1, <1>2, <1>3 DEF B!Ask, B!Set

LEMMA PressureBegins ==
  ASSUME PressureInv, B!SafeState \/ B!Resume \/ \E p \in Pressures : B!SetPressure(p)
  PROVE  B!Idle /\ device' = device /\ PressureInv'
  <1>1. CASE B!SafeState
    <2>1. B!Idle /\ doing' = "safe" /\ todo' = HoldRole /\ UNCHANGED device
      BY <1>1 DEF B!SafeState, B!Begin, HoldRole
    <2>2. HoldRole # HoldOff
      BY HoldExchanges, ResumeExchanges
    <2> QED
      BY <2>1, <2>2 DEF PressureInv
  <1>2. CASE B!Resume
    <2>1. B!Idle /\ doing' = "resume" /\ todo' = ResumeRole /\ UNCHANGED device
      BY <1>2 DEF B!Resume, B!Begin, ResumeRole
    <2>2. ResumeRole # HoldOff
      BY ResumeExchanges
    <2> QED
      BY <2>1, <2>2 DEF PressureInv
  <1>3. ASSUME NEW p \in Pressures, B!SetPressure(p)
        PROVE  B!Idle /\ device' = device /\ PressureInv'
    <2>1. B!Idle /\ doing' = "set" /\ todo' = SetRole(p) /\ UNCHANGED device
      BY <1>3 DEF B!SetPressure, B!Begin, SetRole
    <2>2. SetRole(p) # HoldOff
      BY SetExchanges, ResumeExchanges
    <2> QED
      BY <2>1, <2>2 DEF PressureInv
  <1> QED
    BY <1>1, <1>2, <1>3

(* A step of an operation, of any of the three. *)
LEMMA PressureGoesOn ==
  ASSUME PressureInv, todo # <<>>
  PROVE  LET rest == Tail(todo)
             register == Head(todo).register
         IN /\ register = "role" => /\ rest # <<>> /\ rest # HoldOff
                                    /\ doing = "safe" => rest \in {HoldRole, HoldOn}
                                    /\ doing = "resume" => rest \in {ResumeRole, ResumeLimit, HoldOff}
                                    /\ doing = "set" => \E p \in Pressures :
                                          rest \in {SetRole(p), SetWrite(p), SetConfirm(p)}
            /\ register = "setpoint" => /\ rest # <<>> /\ rest # HoldOff /\ Head(todo).value \in Pressures
                                        /\ doing = "set" /\ \E p \in Pressures :
                                              rest \in {SetRole(p), SetWrite(p), SetConfirm(p)}
            /\ register = "limit" => doing = "resume" /\ rest = HoldOff /\ rest # <<>>
            /\ register = "confirm" => doing = "set"
            /\ register = "hold" => \/ doing = "safe" /\ Head(todo).value = TRUE
                                    \/ /\ doing = "resume" /\ Head(todo).value = FALSE
                                       /\ device.setpoint <= Ceiling
            /\ doing = "set" => register \in {"role", "setpoint", "confirm"}
            /\ doing = "safe" => register \in {"role", "hold"}
            /\ doing = "resume" => register \in {"role", "limit", "hold"}
            /\ doing # "nothing"
  <1>1. CASE doing = "safe"
    BY <1>1, HoldExchanges, ResumeExchanges DEF PressureInv
  <1>2. CASE doing = "resume"
    BY <1>2, HoldExchanges, ResumeExchanges DEF PressureInv
  <1>3. CASE doing = "set"
    <2>1. PICK p \in Pressures : todo \in {SetRole(p), SetWrite(p), SetConfirm(p)}
      BY <1>3 DEF PressureInv
    <2>2. /\ SetRole(p) # <<>> /\ Head(SetRole(p)).register = "role" /\ Tail(SetRole(p)) = SetWrite(p)
          /\ SetWrite(p) # <<>> /\ Head(SetWrite(p)).register = "setpoint" /\ Head(SetWrite(p)).value = p
          /\ Tail(SetWrite(p)) = SetConfirm(p)
          /\ SetConfirm(p) # <<>> /\ Head(SetConfirm(p)).register = "confirm"
      BY SetExchanges
    <2>3. SetWrite(p) # HoldOff /\ SetConfirm(p) # HoldOff
      BY <2>2, ResumeExchanges
    <2> QED
      BY <1>3, <2>1, <2>2, <2>3
  <1> QED
    BY <1>1, <1>2, <1>3 DEF PressureInv

LEMMA PressureStep ==
  ASSUME PressureInv, B!PressureNext \/ UNCHANGED vars
  PROVE  PressureInv' /\ B!OpensWithinCeiling /\ B!PressureIsToldOpen
  <1> DEFINE Goal == PressureInv' /\ B!OpensWithinCeiling /\ B!PressureIsToldOpen
  <1> DEFINE Rest == Tail(todo)
  <1> USE DEF B!OpensWithinCeiling, B!PressureIsToldOpen, B!Over, B!Idle, B!opVars
  <1>0. ASSUME UNCHANGED device, UNCHANGED <<doing, todo>> PROVE Goal
    BY <1>0 DEF PressureInv
  <1>1. CASE UNCHANGED vars
    BY <1>0, <1>1, Zenon DEF vars
  <1>2. CASE B!Disconnect \/ \E ok \in BOOLEAN : B!Connect(ok) \/ B!Poll(ok)
    <2>1. UNCHANGED device /\ UNCHANGED <<doing, todo>>
      BY <1>2 DEF B!Disconnect, B!Connect, B!Poll, B!Single
    <2> QED
      BY <1>0, <2>1
  <1>3. CASE B!Panel
    <2>1. todo # HoldOff
      BY <1>3, ResumeExchanges DEF B!Panel, PressureInv
    <2> QED
      BY <1>3, <2>1 DEF B!Panel, PressureInv
  <1>4. CASE B!SafeState \/ B!Resume \/ \E pressure \in Pressures : B!SetPressure(pressure)
    BY <1>4, PressureBegins
  <1>5. ASSUME todo' = <<>>, doing' = "nothing", raised' # {}, device'.hold = device.hold,
               device' \in [setpoint : Pressures, hold : BOOLEAN, role : {"bpr", "other"}]
        PROVE  Goal
    BY <1>5, ResumeExchanges DEF PressureInv
  <1>6. CASE B!RoleNotConfirmed \/ B!NotConfirmed \/ B!NotWithinCeiling
    <2>1. todo' = <<>> /\ doing' = "nothing" /\ raised' # {} /\ device' = device
      BY <1>6 DEF B!RoleNotConfirmed, B!NotConfirmed, B!NotWithinCeiling, B!Raise, B!Raised
    <2> QED
      BY <1>5, <2>1 DEF PressureInv
  <1>7. CASE B!RoleConfirmed
    <2>1. todo # <<>> /\ Head(todo).register = "role" /\ todo' = Rest /\ device' = device
      BY <1>7 DEF B!RoleConfirmed, B!Now, B!Continue
    <2>2. Rest # <<>> /\ Rest # HoldOff
      BY <2>1, PressureGoesOn
    <2>3. doing' = doing
      BY <1>7, <2>2 DEF B!RoleConfirmed, B!Continue
    <2> QED
      BY <2>1, <2>2, <2>3, PressureGoesOn DEF PressureInv
  <1>8. CASE B!WithinCeiling
    <2>1. todo # <<>> /\ Head(todo).register = "limit" /\ todo' = Rest /\ device' = device
          /\ device.setpoint \in 1..Ceiling
      BY <1>8 DEF B!WithinCeiling, B!Now, B!Continue
    <2>2. Rest # <<>> /\ Rest = HoldOff /\ doing = "resume"
      BY <2>1, PressureGoesOn
    <2>3. doing' = doing
      BY <1>8, <2>2 DEF B!WithinCeiling, B!Continue
    <2>4. device.setpoint <= Ceiling
      BY <2>1, LimitsAssumption
    <2> QED
      BY <2>1, <2>2, <2>3, <2>4 DEF PressureInv
  <1>9. ASSUME NEW ok \in BOOLEAN, B!Written(ok) PROVE Goal
    <2>1. todo # <<>> /\ Head(todo).register = "setpoint"
          /\ device' \in {device, [device EXCEPT !.setpoint = Head(todo).value]}
      BY <1>9 DEF B!Written, B!Now, B!Value
    <2>2. /\ Rest # <<>> /\ Rest # HoldOff /\ Head(todo).value \in Pressures /\ doing = "set"
          /\ \E p \in Pressures : Rest \in {SetRole(p), SetWrite(p), SetConfirm(p)}
      BY <2>1, PressureGoesOn
    <2>3. /\ device' \in [setpoint : Pressures, hold : BOOLEAN, role : {"bpr", "other"}]
          /\ device'.hold = device.hold
      BY <2>1, <2>2 DEF PressureInv
    <2>4. CASE ok
      <3>1. todo' = Rest /\ doing' = "set"
        BY <1>9, <2>2, <2>4 DEF B!Written, B!Continue
      <3> QED
        BY <2>2, <2>3, <3>1 DEF PressureInv
    <2>5. CASE ~ok
      <3>1. todo' = <<>> /\ doing' = "nothing" /\ raised' # {}
        BY <1>9, <2>5 DEF B!Written, B!Raise, B!Raised
      <3> QED
        BY <1>5, <2>3, <3>1
    <2> QED
      BY <2>4, <2>5
  <1>10. CASE B!Confirmed
    <2>1. todo # <<>> /\ Head(todo).register = "confirm"
          /\ todo' = <<>> /\ doing' = "nothing" /\ device' = device
      BY <1>10 DEF B!Confirmed, B!Now, B!Continue
    <2>2. doing = "set"
      BY <2>1, PressureGoesOn
    <2> QED
      BY <2>1, <2>2, ResumeExchanges DEF PressureInv
  <1>11. CASE B!HoldConfirmed \/ B!HoldNotConfirmed
    <2>1. todo # <<>> /\ Head(todo).register = "hold" /\ todo' = <<>> /\ doing' = "nothing"
          /\ device' \in {device, [device EXCEPT !.hold = Head(todo).value]}
      BY <1>11 DEF B!HoldConfirmed, B!HoldNotConfirmed, B!Now, B!Value, B!Continue, B!Raise, B!Raised
    <2>2. \/ doing = "safe" /\ Head(todo).value = TRUE
          \/ doing = "resume" /\ Head(todo).value = FALSE /\ device.setpoint <= Ceiling
      BY <2>1, PressureGoesOn
    <2>3. /\ device' \in [setpoint : Pressures, hold : BOOLEAN, role : {"bpr", "other"}]
          /\ device'.setpoint = device.setpoint
          /\ device'.hold \in {device.hold, Head(todo).value}
      BY <2>1, <2>2 DEF PressureInv
    <2>4. B!HoldConfirmed => device'.hold = Head(todo).value
      BY DEF B!HoldConfirmed, B!Value, PressureInv
    <2>5. B!HoldNotConfirmed => raised' # {}
      BY DEF B!HoldNotConfirmed, B!Raise, B!Raised
    <2>6. PressureInv'
      BY <2>1, <2>3, ResumeExchanges DEF PressureInv
    <2>7. B!OpensWithinCeiling
      BY <2>2, <2>3
    <2>8. B!PressureIsToldOpen
      BY <1>11, <2>2, <2>4, <2>5
    <2> QED
      BY <2>6, <2>7, <2>8
  <1> QED
    BY <1>1, <1>2, <1>3, <1>4, <1>6, <1>7, <1>8, <1>9, <1>10, <1>11 DEF B!PressureNext


(***************************************************************************)
(* The supply.                                                             *)
(***************************************************************************)

Voltages == [register : {"volts"}, value : 0..MaxVolts]
Amperages == [register : {"amps"}, value : {a \in 0..MaxAmps : a <= WiringCeiling}]
SupplyExchanges ==
  [register : {"on"}, value : BOOLEAN] \cup Voltages \cup Amperages
  \cup [register : {"mode"}, value : {"cc", "cv"}] \cup {S!Ask("close")}

SwitchedOff == <<S!Set("volts", 0), S!Set("amps", 0)>>
LastOff == <<S!Set("amps", 0)>>

(* Every current that will be written is within the ceiling, and an output that is made
   safe is off when its registers are cleared. *)
SupplyInv ==
  /\ S!SupplyTypeOK
  /\ todo \in Seq(SupplyExchanges)
  /\ doing = "volts" => todo \in Seq(Voltages)
  /\ doing = "amps" => todo \in Seq(Amperages)
  /\ doing = "safe" => \/ todo = S!SwitchingOff
                       \/ todo \in {SwitchedOff, LastOff} /\ ~device.on

LEMMA SupplyExchange ==
  /\ \A on \in BOOLEAN : S!Set("on", on) \in SupplyExchanges
  /\ \A volts \in 0..MaxVolts : S!Set("volts", volts) \in SupplyExchanges
  /\ \A amps \in 0..MaxAmps : amps <= WiringCeiling => S!Set("amps", amps) \in SupplyExchanges
  /\ \A mode \in {"cc", "cv"} : S!Set("mode", mode) \in SupplyExchanges
  /\ S!Ask("close") \in SupplyExchanges
  BY DEF S!Set, SupplyExchanges, Voltages, Amperages

LEMMA SupplyOff ==
  /\ S!SwitchingOff # <<>> /\ Head(S!SwitchingOff) = S!Set("on", FALSE) /\ Tail(S!SwitchingOff) = SwitchedOff
  /\ SwitchedOff # <<>> /\ Head(SwitchedOff) = S!Set("volts", 0) /\ Tail(SwitchedOff) = LastOff
  /\ LastOff # <<>> /\ Head(LastOff) = S!Set("amps", 0) /\ Tail(LastOff) = <<>>
  /\ S!SwitchingOff \in Seq(SupplyExchanges)
  <1>1. S!SwitchingOff # <<>> /\ Head(S!SwitchingOff) = S!Set("on", FALSE) /\ Tail(S!SwitchingOff) = SwitchedOff
    BY List3 DEF S!SwitchingOff, SwitchedOff
  <1>2. SwitchedOff # <<>> /\ Head(SwitchedOff) = S!Set("volts", 0) /\ Tail(SwitchedOff) = LastOff
    BY List2 DEF SwitchedOff, LastOff
  <1>3. LastOff # <<>> /\ Head(LastOff) = S!Set("amps", 0) /\ Tail(LastOff) = <<>>
    BY List1 DEF LastOff
  <1>4. 0 \in 0..MaxVolts /\ 0 \in 0..MaxAmps /\ 0 <= WiringCeiling
    BY LimitsAssumption
  <1>5. {S!Set("on", FALSE), S!Set("volts", 0), S!Set("amps", 0)} \subseteq SupplyExchanges
    BY <1>4, SupplyExchange
  <1>6. S!SwitchingOff \in Seq(SupplyExchanges)
    BY <1>5, List3 DEF S!SwitchingOff
  <1> QED
    BY <1>1, <1>2, <1>3, <1>6

(* What a step of an operation of several exchanges finds. *)
LEMMA SupplyGoesOn ==
  ASSUME SupplyInv, todo # <<>>
  PROVE  /\ Head(todo) \in SupplyExchanges /\ Tail(todo) \in Seq(SupplyExchanges)
         /\ Head(todo).register = "on" => Head(todo).value \in BOOLEAN
         /\ Head(todo).register = "volts" => Head(todo).value \in 0..MaxVolts
         /\ Head(todo).register = "amps" => Head(todo).value \in 0..MaxAmps /\ Head(todo).value <= WiringCeiling
         /\ Head(todo).register = "mode" => Head(todo).value \in {"cc", "cv"}
         /\ doing = "volts" => Head(todo).value \in 0..MaxVolts /\ Tail(todo) \in Seq(Voltages)
         /\ doing = "amps" => Head(todo).value \in 0..MaxAmps /\ Tail(todo) \in Seq(Amperages)
         /\ doing = "safe" =>
               \/ Head(todo).register = "on" /\ Head(todo).value = FALSE /\ Tail(todo) = SwitchedOff
               \/ Head(todo).register = "volts" /\ Tail(todo) = LastOff /\ ~device.on
               \/ Head(todo).register = "amps" /\ Tail(todo) = <<>> /\ ~device.on
  <1>1. Head(todo) \in SupplyExchanges /\ Tail(todo) \in Seq(SupplyExchanges)
    BY HeadTailProperties DEF SupplyInv
  <1>2. /\ Head(todo).register = "on" => Head(todo).value \in BOOLEAN
        /\ Head(todo).register = "volts" => Head(todo).value \in 0..MaxVolts
        /\ Head(todo).register = "amps" => Head(todo).value \in 0..MaxAmps /\ Head(todo).value <= WiringCeiling
        /\ Head(todo).register = "mode" => Head(todo).value \in {"cc", "cv"}
    BY <1>1 DEF SupplyExchanges, Voltages, Amperages, S!Ask, S!Set
  <1>3. ASSUME doing = "safe"
        PROVE  \/ Head(todo).register = "on" /\ Head(todo).value = FALSE /\ Tail(todo) = SwitchedOff
               \/ Head(todo).register = "volts" /\ Tail(todo) = LastOff /\ ~device.on
               \/ Head(todo).register = "amps" /\ Tail(todo) = <<>> /\ ~device.on
    BY <1>3, SupplyOff DEF SupplyInv, S!Set
  <1>4. ASSUME doing = "volts" PROVE Head(todo).value \in 0..MaxVolts /\ Tail(todo) \in Seq(Voltages)
    <2>1. Head(todo) \in Voltages /\ Tail(todo) \in Seq(Voltages)
      BY <1>4, HeadTailProperties DEF SupplyInv
    <2> QED
      BY <2>1 DEF Voltages
  <1>5. ASSUME doing = "amps" PROVE Head(todo).value \in 0..MaxAmps /\ Tail(todo) \in Seq(Amperages)
    <2>1. Head(todo) \in Amperages /\ Tail(todo) \in Seq(Amperages)
      BY <1>5, HeadTailProperties DEF SupplyInv
    <2> QED
      BY <2>1 DEF Amperages
  <1> QED
    BY <1>1, <1>2, <1>3, <1>4, <1>5

LEMMA SupplyBegins ==
  ASSUME SupplyInv, NEW operation, NEW exchanges \in Seq(SupplyExchanges), S!Begin(operation, exchanges),
         operation = "safe" => exchanges = S!SwitchingOff,
         operation = "volts" => exchanges \in Seq(Voltages),
         operation = "amps" => exchanges \in Seq(Amperages)
  PROVE  SupplyInv' /\ S!Idle
  BY DEF SupplyInv, S!SupplyTypeOK, S!Begin

LEMMA SupplyOperations ==
  ASSUME SupplyInv,
         \/ S!ConnectAgain \/ S!OutputOn \/ S!OutputOff \/ S!SetMode \/ S!SafeState \/ S!Disconnect
         \/ \E volts \in 0..MaxVolts : S!SetVoltage(volts)
         \/ \E amps \in 0..MaxAmps : S!SetCurrent(amps)
  PROVE  SupplyInv' /\ S!Idle
  <1>1. CASE S!ConnectAgain
    <2>1. S!Defaults(cached.on) \in Seq(SupplyExchanges)
      BY List1, EmptySeq, SupplyExchange, LimitsAssumption DEF S!Defaults
    <2> QED
      BY <1>1, <2>1, SupplyBegins DEF S!ConnectAgain
  <1>2. CASE S!OutputOn \/ S!OutputOff
    <2>1. <<S!Set("on", TRUE)>> \in Seq(SupplyExchanges) /\ <<S!Set("on", FALSE)>> \in Seq(SupplyExchanges)
      BY List1, SupplyExchange
    <2> QED
      BY <1>2, <2>1, SupplyBegins DEF S!OutputOn, S!OutputOff
  <1>3. ASSUME NEW volts \in 0..MaxVolts, S!SetVoltage(volts)
        PROVE  SupplyInv' /\ S!Idle
    <2>1. <<S!Set("volts", volts)>> \in Seq(SupplyExchanges) /\ <<S!Set("volts", volts)>> \in Seq(Voltages)
      <3>1. S!Set("volts", volts) \in SupplyExchanges /\ S!Set("volts", volts) \in Voltages
        BY SupplyExchange DEF Voltages, S!Set
      <3> QED
        BY <3>1, List1
    <2> QED
      BY <1>3, <2>1, SupplyBegins DEF S!SetVoltage
  <1>4. ASSUME NEW amps \in 0..MaxAmps, S!SetCurrent(amps)
        PROVE  SupplyInv' /\ S!Idle
    <2>1. <<S!Set("amps", amps)>> \in Seq(SupplyExchanges) /\ <<S!Set("amps", amps)>> \in Seq(Amperages)
      <3>1. S!Set("amps", amps) \in SupplyExchanges /\ S!Set("amps", amps) \in Amperages
        BY <1>4, SupplyExchange DEF Amperages, S!Set, S!SetCurrent
      <3> QED
        BY <3>1, List1
    <2> QED
      BY <1>4, <2>1, SupplyBegins DEF S!SetCurrent
  <1>5. CASE S!SetMode
    <2>0. cached.current \in 0..MaxAmps /\ cached.voltage \in 0..MaxVolts
      BY DEF SupplyInv, S!SupplyTypeOK
    <2>1. CASE cached.mode = "cv"
      <3>1. cached.current <= WiringCeiling
        BY <1>5, <2>1 DEF S!SetMode
      <3>2. <<S!Set("amps", cached.current), S!Set("volts", DefaultVolts), S!Set("mode", "cc")>> \in Seq(SupplyExchanges)
        BY <2>0, <3>1, List3, SupplyExchange, LimitsAssumption
      <3> QED
        BY <1>5, <2>1, <3>2, SupplyBegins DEF S!SetMode
    <2>2. CASE cached.mode # "cv"
      <3>2. <<S!Set("volts", cached.voltage), S!Set("amps", DefaultAmps), S!Set("mode", "cv")>> \in Seq(SupplyExchanges)
        BY <2>0, List3, SupplyExchange, LimitsAssumption
      <3> QED
        BY <1>5, <2>2, <3>2, SupplyBegins DEF S!SetMode
    <2> QED
      BY <2>1, <2>2
  <1>6. CASE S!SafeState
    BY <1>6, SupplyOff, SupplyBegins DEF S!SafeState
  <1>7. CASE S!Disconnect
    <2>1. <<S!Ask("close")>> \in Seq(SupplyExchanges)
      BY List1, SupplyExchange
    <2>2. S!SwitchingOff \o <<S!Ask("close")>> \in Seq(SupplyExchanges)
      BY <2>1, SupplyOff, ConcatProperties
    <2> QED
      BY <1>7, <2>2, SupplyBegins DEF S!Disconnect
  <1> QED
    BY <1>1, <1>2, <1>3, <1>4, <1>5, <1>6, <1>7

LEMMA SupplyStep ==
  ASSUME SupplyInv, S!SupplyNext \/ UNCHANGED vars
  PROVE  SupplyInv' /\ S!RaisedWithinCeiling /\ S!SupplyIsToldOn
  <1> DEFINE Goal == SupplyInv' /\ S!RaisedWithinCeiling /\ S!SupplyIsToldOn
  <1> USE DEF S!RaisedWithinCeiling, S!SupplyIsToldOn, S!Over, S!Idle, S!opVars
  <1>1. CASE UNCHANGED vars
    <2>1. UNCHANGED <<device, cached, status, doing, todo>>
      BY <1>1, Zenon DEF vars
    <2>2. device.amps \in 0..MaxAmps
      BY DEF SupplyInv, S!SupplyTypeOK
    <2>3. ~(device.amps > device.amps)
      BY <2>2, LimitsAssumption
    <2> QED
      BY <2>1, <2>3 DEF SupplyInv, S!SupplyTypeOK
  <1>2. CASE S!Panel \/ S!Trips
    BY <1>2 DEF S!Panel, S!Trips, SupplyInv, S!SupplyTypeOK
  <1>3. CASE S!Poll
    BY <1>3 DEF S!Poll, S!Single, SupplyInv, S!SupplyTypeOK
  <1>4. CASE S!Connect
    <2>1. S!Defaults(device.on) \in Seq(SupplyExchanges)
      BY List1, EmptySeq, SupplyExchange, LimitsAssumption DEF S!Defaults
    <2>2. doing = "nothing" /\ doing' \in {"nothing", "connect"} /\ todo' \in Seq(SupplyExchanges) /\ UNCHANGED device
      BY <1>4, <2>1 DEF S!Connect
    <2>3. S!SupplyTypeOK'
      BY <1>4 DEF S!Connect, S!Believing, SupplyInv, S!SupplyTypeOK
    <2> QED
      BY <2>2, <2>3 DEF SupplyInv
  <1>5. CASE \/ S!ConnectAgain \/ S!OutputOn \/ S!OutputOff \/ S!SetMode \/ S!SafeState \/ S!Disconnect
             \/ \E volts \in 0..MaxVolts : S!SetVoltage(volts)
             \/ \E amps \in 0..MaxAmps : S!SetCurrent(amps)
    BY <1>5, SupplyOperations
  <1>6. ASSUME NEW register \in {"on", "volts", "amps"}, S!Sent(register) PROVE Goal
    <2>1. /\ todo # <<>> /\ Head(todo).register = register
          /\ device' = [device EXCEPT ![register] = Head(todo).value]
          /\ todo' = Tail(todo) /\ doing' = IF todo' = <<>> THEN "nothing" ELSE doing
          /\ cached' = [S!Remembering EXCEPT ![register] = Head(todo).value]
          /\ UNCHANGED status
      BY <1>6 DEF S!Sent, S!Now, S!Value, S!Continue
    <2>2. /\ register = "on" => Head(todo).value \in BOOLEAN
          /\ register = "volts" => Head(todo).value \in 0..MaxVolts
          /\ register = "amps" => Head(todo).value \in 0..MaxAmps /\ Head(todo).value <= WiringCeiling
          /\ todo' \in Seq(SupplyExchanges)
      BY <2>1, SupplyGoesOn
    <2>3. /\ device' \in [on : BOOLEAN, volts : 0..MaxVolts, amps : 0..MaxAmps]
          /\ device'.amps = device.amps \/ device'.amps <= WiringCeiling
      BY <2>1, <2>2 DEF SupplyInv, S!SupplyTypeOK
    <2>4. register # "on" => device'.on = device.on
      BY <2>1 DEF SupplyInv, S!SupplyTypeOK
    <2>5. register = "on" => device'.on = Head(todo).value
      BY <2>1 DEF SupplyInv, S!SupplyTypeOK
    <2>6. S!Remembering \in [on : BOOLEAN, volts : 0..MaxVolts, amps : 0..MaxAmps, mode : {"cc", "cv"},
                              current : 0..MaxAmps, voltage : 0..MaxVolts]
      BY <2>1, SupplyGoesOn DEF S!Remembering, S!Value, SupplyInv, S!SupplyTypeOK
    <2>7. S!SupplyTypeOK'
      BY <2>1, <2>2, <2>3, <2>6 DEF SupplyInv, S!SupplyTypeOK
    <2>8. doing = "safe" => \/ todo' = SwitchedOff /\ ~device'.on
                            \/ todo' = LastOff /\ ~device'.on
                            \/ todo' = <<>> /\ ~device'.on
      BY <2>1, <2>4, <2>5, SupplyGoesOn
    <2>9. SupplyInv'
      BY <2>1, <2>2, <2>7, <2>8, SupplyGoesOn DEF SupplyInv
    <2>10. S!RaisedWithinCeiling
      BY <2>3, LimitsAssumption DEF SupplyInv, S!SupplyTypeOK
    <2>11. S!SupplyIsToldOn
      BY <2>1, <2>8, SupplyOff
    <2> QED
      BY <2>9, <2>10, <2>11
  <1>7. ASSUME NEW register \in {"on", "volts", "amps"}, S!NotSent(register) PROVE Goal
    <2>1. /\ todo # <<>> /\ Head(todo).register = register
          /\ device' \in {device, [device EXCEPT ![register] = Head(todo).value]}
          /\ todo' \in {<<>>, <<S!Ask("close")>>} /\ (doing # "disconnect" => todo' = <<>>)
          /\ doing' = IF todo' = <<>> THEN "nothing" ELSE doing
          /\ raised' # {} /\ UNCHANGED <<cached, status>>
      BY <1>7 DEF S!NotSent, S!Now, S!Value, S!Raised
    <2>2. /\ register = "on" => Head(todo).value \in BOOLEAN
          /\ register = "volts" => Head(todo).value \in 0..MaxVolts
          /\ register = "amps" => Head(todo).value \in 0..MaxAmps /\ Head(todo).value <= WiringCeiling
      BY <2>1, SupplyGoesOn
    <2>3. /\ device' \in [on : BOOLEAN, volts : 0..MaxVolts, amps : 0..MaxAmps]
          /\ device'.amps = device.amps \/ device'.amps <= WiringCeiling
      BY <2>1, <2>2 DEF SupplyInv, S!SupplyTypeOK
    <2>4. todo' \in Seq(SupplyExchanges)
      BY <2>1, List1, EmptySeq, SupplyExchange
    <2>5. doing' \in {"nothing", "disconnect"}
      BY <2>1
    <2>6. SupplyInv'
      BY <2>1, <2>3, <2>4, <2>5 DEF SupplyInv, S!SupplyTypeOK
    <2>7. S!RaisedWithinCeiling
      BY <2>3, LimitsAssumption DEF SupplyInv, S!SupplyTypeOK
    <2> QED
      BY <2>1, <2>6, <2>7
  <1>8. CASE S!ModeRecorded \/ S!PortClosed
    <2>1. todo # <<>> /\ Head(todo).register \in {"mode", "close"} /\ todo' = <<>> /\ doing' = "nothing"
          /\ UNCHANGED device
      BY <1>8 DEF S!ModeRecorded, S!PortClosed, S!Now, S!Continue
    <2>2. doing # "safe"
      BY <2>1, SupplyGoesOn
    <2>3. S!ModeRecorded => cached' \in [on : BOOLEAN, volts : 0..MaxVolts, amps : 0..MaxAmps, mode : {"cc", "cv"},
                                         current : 0..MaxAmps, voltage : 0..MaxVolts]
                            /\ UNCHANGED status
      BY SupplyGoesOn DEF S!ModeRecorded, S!Now, S!Value, SupplyInv, S!SupplyTypeOK
    <2>4. S!PortClosed => cached' \in [on : BOOLEAN, volts : 0..MaxVolts, amps : 0..MaxAmps, mode : {"cc", "cv"},
                                       current : 0..MaxAmps, voltage : 0..MaxVolts]
                          /\ status' = "disconnected"
      <3>1. 0 \in 0..MaxVolts /\ 0 \in 0..MaxAmps
        BY LimitsAssumption
      <3> QED
        BY <3>1 DEF S!PortClosed, S!Believing, SupplyInv, S!SupplyTypeOK
    <2>5. S!SupplyTypeOK'
      BY <1>8, <2>1, <2>3, <2>4 DEF SupplyInv, S!SupplyTypeOK
    <2>6. SupplyInv'
      BY <2>1, <2>5, EmptySeq DEF SupplyInv
    <2>7. S!RaisedWithinCeiling
      BY <2>1, LimitsAssumption DEF SupplyInv, S!SupplyTypeOK
    <2> QED
      BY <2>1, <2>2, <2>6, <2>7
  <1> QED
    BY <1>1, <1>2, <1>3, <1>4, <1>5, <1>6, <1>7, <1>8 DEF S!SupplyNext


(***************************************************************************)
(* The pump.                                                               *)
(***************************************************************************)

Pumps == [on : BOOLEAN, reverse : BOOLEAN, turns : BOOLEAN, lasting : BOOLEAN, speed : {1, 2}]

Switch == {"on", "reverse", "lasting"}

LEMMA PumpWritten ==
  ASSUME device \in Pumps, NEW r, NEW v, (r \in Switch /\ v \in BOOLEAN) \/ (r = "speed" /\ v \in {1, 2})
  PROVE  /\ P!Written(r, v) \in Pumps
         /\ P!Coherent(device) /\ (r = "reverse" /\ device.on => v = device.reverse)
            => P!Coherent(P!Written(r, v))
         /\ r = "on" => P!Written(r, v).on = v
         /\ r # "on" => P!Written(r, v).on = device.on
         /\ r = "reverse" => P!Written(r, v).reverse = v
         /\ r # "reverse" => P!Written(r, v).reverse = device.reverse
  <1>0. PICK on \in BOOLEAN, reverse \in BOOLEAN, turns \in BOOLEAN, lasting \in BOOLEAN, speed \in {1, 2} :
           device = [on |-> on, reverse |-> reverse, turns |-> turns, lasting |-> lasting, speed |-> speed]
    BY DEF Pumps
  <1>1. (r \in Switch /\ v \in BOOLEAN) \/ (r = "speed" /\ v \in {1, 2})
    OBVIOUS
  <1>2. CASE r = "on"
    <2>1. CASE v = TRUE
      BY <1>0, <1>2, <2>1 DEF P!Written, Pumps, P!Coherent
    <2>2. CASE v = FALSE
      BY <1>0, <1>2, <2>2 DEF P!Written, Pumps, P!Coherent
    <2> QED
      BY <1>1, <1>2, <2>1, <2>2
  <1>3. CASE r = "reverse"
    <2>1. CASE on = TRUE
      <3>1. device.on /\ P!Written(r, v) = [device EXCEPT !["reverse"] = v] /\ v \in BOOLEAN
        BY <1>0, <1>1, <1>3, <2>1 DEF P!Written
      <3>2. P!Written(r, v) = [on |-> on, reverse |-> v, turns |-> turns, lasting |-> lasting, speed |-> speed]
        BY <1>0, <1>3, <3>1
      <3>3. P!Coherent(device) /\ (device.on => v = device.reverse) => turns = v
        BY <1>0, <3>1, Zenon DEF P!Coherent
      <3>4. turns = v => P!Coherent(P!Written(r, v))
        BY <3>2 DEF P!Coherent
      <3>5. P!Written(r, v) \in Pumps /\ P!Written(r, v).on = device.on
        BY <1>0, <3>1, <3>2 DEF Pumps
      <3>6. P!Written(r, v).reverse = v
        BY <3>2
      <3>7. P!Coherent(device) /\ (r = "reverse" /\ device.on => v = device.reverse)
            => P!Coherent(P!Written(r, v))
        BY <1>3, <3>3, <3>4, Zenon
      <3>8. /\ r = "on" => P!Written(r, v).on = v
            /\ r # "reverse" => P!Written(r, v).reverse = device.reverse
        BY <1>3
      <3> QED
        BY <3>5, <3>6, <3>7, <3>8, Zenon
    <2>2. CASE on = FALSE
      BY <1>0, <1>1, <1>3, <2>2 DEF P!Written, Pumps, P!Coherent
    <2> QED
      BY <2>1, <2>2
  <1>4. CASE r = "lasting"
    BY <1>0, <1>1, <1>4 DEF P!Written, Pumps, P!Coherent
  <1>5. CASE r = "speed"
    <2>1. P!Written(r, v) = [on |-> on, reverse |-> reverse, turns |-> turns, lasting |-> lasting, speed |-> v]
      BY <1>0, <1>5 DEF P!Written
    <2>2. v \in {1, 2}
      BY <1>1, <1>5 DEF Switch
    <2>3. P!Written(r, v) \in Pumps
      BY <2>1, <2>2 DEF Pumps
    <2>4. P!Written(r, v).on = device.on /\ P!Written(r, v).reverse = device.reverse
          /\ P!Written(r, v).turns = device.turns
      BY <1>0, <2>1
    <2>5. P!Coherent(device) => P!Coherent(P!Written(r, v))
      BY <2>4, Zenon DEF P!Coherent
    <2>6. r # "on" /\ r # "reverse"
      BY <1>5
    <2> QED
      BY <2>3, <2>4, <2>5, <2>6, Zenon
  <1> QED
    BY <1>1, <1>2, <1>3, <1>4, <1>5 DEF Switch


Lasting == P!Set("lasting", TRUE)
TurnOn == P!Set("on", TRUE)
TurnOff == P!Set("on", FALSE)
Reverse(v) == P!Set("reverse", v)

(* What is still to come of an operation, but for the reversing of a pump. *)
Directions == {<<TurnOff, Reverse(v), Lasting, TurnOn>> : v \in BOOLEAN}
Restarts == {<<Lasting, TurnOn>>, <<TurnOn>>}
Stopping == {<<TurnOff>>}
Speeds == {<<P!Set("speed", v)>> : v \in {1, 2}}
Safes == {<<P!Set("safe", FALSE)>>}

(* A pump is reversed when it is off, unless it turns that way already. *)
Reverses(plan) ==
  \E v \in BOOLEAN : /\ plan \in {<<Reverse(v)>>, <<Reverse(v), Lasting, TurnOn>>}
                     /\ device.on => v = device.reverse

PumpInv ==
  /\ device \in Pumps
  /\ P!Coherent(device)
  /\ cached = [on |-> cached.on, reverse |-> cached.reverse, speed |-> cached.speed]
  /\ status = "ready" =>
        /\ cached.on \in BOOLEAN /\ (cached.on = FALSE => device.on = FALSE)
        /\ cached.reverse = device.reverse
  /\ doing = "nothing" <=> todo = <<>>
  /\ doing # "nothing" => status # "disconnected"
  /\ doing = "safe" <=> todo \in Safes
  /\ todo \in {<<>>} \cup Directions \cup Restarts \cup Stopping \cup Speeds \cup Safes \/ Reverses(todo)

(* The list of exchanges that is still to come, by its first. *)
LEMMA PumpGoesOn ==
  ASSUME PumpInv, todo # <<>>
  PROVE  \/ \E v \in BOOLEAN : /\ Head(todo) = TurnOff /\ Tail(todo) = <<Reverse(v), Lasting, TurnOn>>
         \/ \E v \in BOOLEAN : /\ Head(todo) = Reverse(v) /\ Tail(todo) \in {<<>>, <<Lasting, TurnOn>>}
                               /\ device.on => v = device.reverse
         \/ Head(todo) = Lasting /\ Tail(todo) = <<TurnOn>>
         \/ Head(todo) \in {TurnOn, TurnOff} /\ Tail(todo) = <<>>
         \/ \E v \in {1, 2} : Head(todo) = P!Set("speed", v) /\ Tail(todo) = <<>>
         \/ Head(todo) = P!Set("safe", FALSE) /\ Tail(todo) = <<>>
  <1>1. CASE todo \in Directions
    <2>1. PICK v \in BOOLEAN : todo = <<TurnOff, Reverse(v), Lasting, TurnOn>>
      BY <1>1 DEF Directions
    <2> QED
      BY <2>1, List4
  <1>2. CASE Reverses(todo)
    <2>1. PICK v \in BOOLEAN : /\ todo \in {<<Reverse(v)>>, <<Reverse(v), Lasting, TurnOn>>}
                               /\ device.on => v = device.reverse
      BY <1>2 DEF Reverses
    <2>2. ASSUME todo = <<Reverse(v)>> PROVE Head(todo) = Reverse(v) /\ Tail(todo) = <<>>
      BY <2>2, List1
    <2>3. ASSUME todo = <<Reverse(v), Lasting, TurnOn>>
          PROVE  Head(todo) = Reverse(v) /\ Tail(todo) = <<Lasting, TurnOn>>
      BY <2>3, List3
    <2> QED
      BY <2>1, <2>2, <2>3
  <1>3. CASE todo \in Restarts
    <2>1. ASSUME todo = <<Lasting, TurnOn>> PROVE Head(todo) = Lasting /\ Tail(todo) = <<TurnOn>>
      BY <2>1, List2
    <2>2. ASSUME todo = <<TurnOn>> PROVE Head(todo) = TurnOn /\ Tail(todo) = <<>>
      BY <2>2, List1
    <2> QED
      BY <1>3, <2>1, <2>2 DEF Restarts
  <1>4. CASE todo \in Stopping
    BY <1>4, List1 DEF Stopping
  <1>5. CASE todo \in Speeds
    BY <1>5, List1 DEF Speeds
  <1>6. CASE todo \in Safes
    BY <1>6, List1 DEF Safes
  <1> QED
    BY <1>1, <1>2, <1>3, <1>4, <1>5, <1>6 DEF PumpInv

LEMMA PumpExchanges ==
  ASSUME NEW v
  PROVE  /\ Lasting.register = "lasting" /\ Lasting.value = TRUE
         /\ TurnOn.register = "on" /\ TurnOn.value = TRUE
         /\ TurnOff.register = "on" /\ TurnOff.value = FALSE
         /\ Reverse(v).register = "reverse" /\ Reverse(v).value = v
         /\ P!Set("speed", v).register = "speed" /\ P!Set("speed", v).value = v
         /\ P!Set("safe", FALSE).register = "safe"
  BY DEF Lasting, TurnOn, TurnOff, Reverse, P!Set

(* A safe state is a single exchange, and nothing else is. *)
LEMMA OnlySafe ==
  /\ <<>> \notin Safes
  /\ \A plan \in Directions \cup Restarts \cup Stopping \cup Speeds : plan \notin Safes /\ plan # <<>>
  /\ \A v : \A plan \in {<<Reverse(v)>>, <<Reverse(v), Lasting, TurnOn>>} : plan \notin Safes /\ plan # <<>>
  /\ \A plan : Reverses(plan) => plan \notin Safes /\ plan # <<>>
  <1> DEFINE Other(plan) == plan # <<>> /\ Head(plan).register # "safe"
  <1>1. ASSUME NEW plan \in Safes PROVE plan # <<>> /\ Head(plan).register = "safe"
    <2>1. plan = <<P!Set("safe", FALSE)>>
      BY DEF Safes
    <2>2. plan # <<>> /\ Head(plan) = P!Set("safe", FALSE)
      BY <2>1, List1
    <2> QED
      BY <2>2, PumpExchanges
  <1>2. ASSUME NEW plan \in Directions PROVE Other(plan)
    <2>1. PICK v \in BOOLEAN : plan = <<TurnOff, Reverse(v), Lasting, TurnOn>>
      BY DEF Directions
    <2>2. plan # <<>> /\ Head(plan) = TurnOff
      BY <2>1, List4
    <2> QED
      BY <2>2, PumpExchanges
  <1>3. ASSUME NEW plan \in Restarts \cup Stopping PROVE Other(plan)
    <2>1. CASE plan = <<Lasting, TurnOn>>
      <3>1. plan # <<>> /\ Head(plan) = Lasting
        BY <2>1, List2
      <3> QED
        BY <3>1, PumpExchanges
    <2>2. CASE plan = <<TurnOn>>
      BY <2>2, List1, PumpExchanges
    <2>3. CASE plan = <<TurnOff>>
      BY <2>3, List1, PumpExchanges
    <2> QED
      BY <2>1, <2>2, <2>3 DEF Restarts, Stopping
  <1>4. ASSUME NEW plan \in Speeds PROVE Other(plan)
    <2>1. PICK v \in {1, 2} : plan = <<P!Set("speed", v)>>
      BY DEF Speeds
    <2>2. plan # <<>> /\ Head(plan) = P!Set("speed", v)
      BY <2>1, List1
    <2> QED
      BY <2>2, PumpExchanges
  <1>5. ASSUME NEW v, NEW plan \in {<<Reverse(v)>>, <<Reverse(v), Lasting, TurnOn>>} PROVE Other(plan)
    <2>1. plan \in {<<Reverse(v)>>, <<Reverse(v), Lasting, TurnOn>>}
      OBVIOUS
    <2>2. CASE plan = <<Reverse(v)>>
      <3>1. plan # <<>> /\ Head(plan) = Reverse(v)
        BY <2>2, List1
      <3> QED
        BY <3>1, PumpExchanges
    <2>3. CASE plan = <<Reverse(v), Lasting, TurnOn>>
      <3>1. plan # <<>> /\ Head(plan) = Reverse(v)
        BY <2>3, List3
      <3> QED
        BY <3>1, PumpExchanges
    <2> QED
      BY <2>1, <2>2, <2>3
  <1>6. ASSUME NEW plan, Reverses(plan) PROVE Other(plan)
    BY <1>5, <1>6 DEF Reverses
  <1> QED
    BY <1>1, <1>2, <1>3, <1>4, <1>5, <1>6

LEMMA PumpBegins ==
  ASSUME PumpInv, NEW operation, NEW exchanges, P!Begin(operation, exchanges), P!Connected,
         operation # "nothing", operation = "safe" <=> exchanges \in Safes,
         exchanges \in Directions \cup Restarts \cup Stopping \cup Speeds \cup Safes \/ Reverses(exchanges)
  PROVE  PumpInv' /\ P!Idle
  <1>1. doing' = operation /\ todo' = exchanges /\ UNCHANGED <<device, cached, status>> /\ P!Idle
    BY DEF P!Begin
  <1>2. exchanges # <<>>
    BY OnlySafe
  <1>3. Reverses(exchanges) => Reverses(todo)'
    BY <1>1 DEF Reverses
  <1>4. todo' \in {<<>>} \cup Directions \cup Restarts \cup Stopping \cup Speeds \cup Safes \/ Reverses(todo)'
    BY <1>1, <1>3
  <1>5. status # "disconnected"
    BY DEF P!Connected
  <1>6. device' \in Pumps /\ P!Coherent(device)'
    BY <1>1 DEF PumpInv, P!Coherent
  <1>7. /\ cached' = [on |-> cached'.on, reverse |-> cached'.reverse, speed |-> cached'.speed]
        /\ status' = "ready" => /\ cached'.on \in BOOLEAN /\ (cached'.on = FALSE => device'.on = FALSE)
                                /\ cached'.reverse = device'.reverse
    BY <1>1, Zenon DEF PumpInv
  <1> QED
    BY <1>1, <1>2, <1>4, <1>5, <1>6, <1>7 DEF PumpInv

(* The lists that operations begin with. *)
LEMMA JoinFour ==
  ASSUME NEW a, NEW b, NEW c, NEW d
  PROVE  <<a>> \o <<b>> \o <<c, d>> = <<a, b, c, d>>
  <1> DEFINE those == {a, b, c, d}
             pq == <<a>> \o <<b>>
             pqr == pq \o <<c, d>>
  <1>1. /\ <<a>> \in Seq(those) /\ <<b>> \in Seq(those) /\ <<c, d>> \in Seq(those)
        /\ <<a, b, c, d>> \in Seq(those)
    BY List1, List2, List4
  <1>2. pq \in Seq(those) /\ Len(pq) = 2
        /\ \A i \in 1 .. Len(<<a>>) + Len(<<b>>) : pq[i] = IF i <= Len(<<a>>) THEN <<a>>[i] ELSE <<b>>[i - Len(<<a>>)]
    BY <1>1, ConcatProperties
  <1>3. pq[1] = a /\ pq[2] = b
    BY <1>2
  <1>4. pqr \in Seq(those) /\ Len(pqr) = 4
        /\ \A i \in 1 .. Len(pq) + Len(<<c, d>>) : pqr[i] = IF i <= Len(pq) THEN pq[i] ELSE <<c, d>>[i - Len(pq)]
    BY <1>1, <1>2, ConcatProperties
  <1>5. pqr[1] = a /\ pqr[2] = b /\ pqr[3] = c /\ pqr[4] = d
    BY <1>2, <1>3, <1>4
  <1>6. Len(<<a, b, c, d>>) = 4 /\ \A i \in 1 .. 4 : pqr[i] = <<a, b, c, d>>[i]
    BY <1>5
  <1> QED
    BY <1>1, <1>4, <1>6, SeqEqual

LEMMA JoinNone ==
  ASSUME NEW a
  PROVE  <<>> \o <<a>> \o <<>> = <<a>>
  <1>1. <<a>> \in Seq({a})
    BY List1
  <1> QED
    BY <1>1, ConcatEmptySeq

LEMMA PumpOperations ==
  ASSUME PumpInv,
         \/ \E rpm \in {1, 2} : P!SetSpeed(rpm)
         \/ \E direction \in BOOLEAN : P!SetDirection(direction)
         \/ P!Start \/ P!Stop \/ P!SafeState
  PROVE  PumpInv' /\ P!Idle
  <1>1. ASSUME NEW rpm \in {1, 2}, P!SetSpeed(rpm) PROVE PumpInv' /\ P!Idle
    <2>1. <<P!Set("speed", rpm)>> \in Speeds
      BY DEF Speeds
    <2>2. <<P!Set("speed", rpm)>> \notin Safes
      BY <2>1, OnlySafe
    <2> QED
      BY <1>1, <2>1, <2>2, PumpBegins DEF P!SetSpeed, P!Connected
  <1>2. CASE P!Start
    <2>1. P!StartExchanges \in Restarts
      BY DEF P!StartExchanges, Restarts, Lasting, TurnOn
    <2> QED
      BY <1>2, <2>1, OnlySafe, PumpBegins DEF P!Start, P!Connected
  <1>3. CASE P!Stop
    <2>1. <<P!Set("on", FALSE)>> \in Stopping
      BY DEF Stopping, TurnOff
    <2> QED
      BY <1>3, <2>1, OnlySafe, PumpBegins DEF P!Stop, P!Connected
  <1>4. CASE P!SafeState
    <2>1. <<P!Set("safe", FALSE)>> \in Safes
      BY DEF Safes
    <2> QED
      BY <1>4, <2>1, PumpBegins DEF P!SafeState
  <1>5. ASSUME NEW direction \in BOOLEAN, P!SetDirection(direction) PROVE PumpInv' /\ P!Idle
    <2>1. status = "ready" /\ P!Connected
      BY <1>5 DEF P!SetDirection, P!Connected
    <2>2. CASE cached.on = TRUE /\ direction # cached.reverse
      <3>1. P!Begin("direction", <<TurnOff>> \o <<Reverse(direction)>> \o <<Lasting, TurnOn>>)
        BY <1>5, <2>2, Zenon DEF P!SetDirection, P!StartExchanges, TurnOff, Reverse, Lasting, TurnOn
      <3>2. <<TurnOff>> \o <<Reverse(direction)>> \o <<Lasting, TurnOn>>
            = <<TurnOff, Reverse(direction), Lasting, TurnOn>>
        BY JoinFour
      <3>3. P!Begin("direction", <<TurnOff, Reverse(direction), Lasting, TurnOn>>)
        BY <3>1, <3>2
      <3>4. <<TurnOff, Reverse(direction), Lasting, TurnOn>> \in Directions
        BY DEF Directions
      <3> QED
        BY <2>1, <3>3, <3>4, OnlySafe, PumpBegins
    <2>3. CASE ~(cached.on = TRUE /\ direction # cached.reverse)
      <3>1. P!Begin("direction", <<>> \o <<Reverse(direction)>> \o <<>>)
        BY <1>5, <2>3, Zenon DEF P!SetDirection, Reverse
      <3>2. P!Begin("direction", <<Reverse(direction)>>)
        BY <3>1, JoinNone
      <3>3. device.on => direction = device.reverse
        BY <2>1, <2>3 DEF PumpInv
      <3>4. Reverses(<<Reverse(direction)>>)
        BY <3>3 DEF Reverses
      <3> QED
        BY <2>1, <3>2, <3>4, OnlySafe, PumpBegins
    <2> QED
      BY <2>2, <2>3
  <1> QED
    BY <1>1, <1>2, <1>3, <1>4, <1>5

KnowsPump ==
  status = "ready" => /\ cached.on \in BOOLEAN /\ (cached.on = FALSE => device.on = FALSE)
                      /\ cached.reverse = device.reverse

(* The end of an operation: nothing is to come. *)
LEMMA PumpEnds ==
  ASSUME device' \in Pumps, P!Coherent(device)',
         cached' = [on |-> cached'.on, reverse |-> cached'.reverse, speed |-> cached'.speed],
         KnowsPump', doing' = "nothing", todo' = <<>>
  PROVE  PumpInv'
  BY OnlySafe DEF PumpInv, KnowsPump

LEMMA PumpConfirmed ==
  ASSUME PumpInv, NEW register \in {"on", "reverse", "lasting", "speed"}, P!Confirmed(register)
  PROVE  PumpInv' /\ doing # "safe"
  <1>1. /\ todo # <<>> /\ Head(todo).register = register
        /\ device' = P!Written(register, Head(todo).value)
        /\ cached' = IF register = "lasting" THEN cached ELSE [cached EXCEPT ![register] = Head(todo).value]
        /\ todo' = Tail(todo) /\ doing' = IF todo' = <<>> THEN "nothing" ELSE doing
        /\ UNCHANGED status
    BY DEF P!Confirmed, P!Now, P!Value, P!Continue
  <1>2. doing # "safe"
    <2>1. ASSUME todo \in Safes PROVE FALSE
      <3>1. Head(todo) = P!Set("safe", FALSE)
        BY <2>1, List1 DEF Safes
      <3> QED
        BY <1>1, <3>1, PumpExchanges
    <2> QED
      BY <2>1 DEF PumpInv
  <1>3. /\ status # "disconnected" /\ doing # "nothing" /\ KnowsPump
        /\ device \in Pumps /\ P!Coherent(device)
        /\ cached = [on |-> cached.on, reverse |-> cached.reverse, speed |-> cached.speed]
    <2>1. doing # "nothing"
      BY <1>1 DEF PumpInv
    <2> QED
      BY <2>1 DEF PumpInv, KnowsPump
  <1>4. cached' = [on |-> cached'.on, reverse |-> cached'.reverse, speed |-> cached'.speed]
    BY <1>1, <1>3
  <1>5. ASSUME NEW v, (register \in Switch /\ v \in BOOLEAN) \/ (register = "speed" /\ v \in {1, 2}),
               register = "reverse" /\ device.on => v = device.reverse,
               Head(todo).value = v
        PROVE  /\ device' \in Pumps /\ P!Coherent(device)' /\ KnowsPump'
               /\ register = "on" => device'.on = v
               /\ register # "on" => device'.on = device.on
               /\ register = "reverse" => device'.reverse = v
    <2>1. /\ device' \in Pumps /\ P!Coherent(device')
          /\ register = "on" => device'.on = v
          /\ register # "on" => device'.on = device.on
          /\ register = "reverse" => device'.reverse = v
          /\ register # "reverse" => device'.reverse = device.reverse
      BY <1>1, <1>3, <1>5, PumpWritten
    <2>2. CASE register = "on"
      <3>1. cached'.on = v /\ cached'.reverse = cached.reverse /\ v \in BOOLEAN
        BY <1>1, <1>3, <1>5, <2>2
      <3> QED
        BY <1>1, <1>3, <2>1, <2>2, <3>1 DEF KnowsPump, P!Coherent
    <2>3. CASE register = "reverse"
      <3>1. cached'.on = cached.on /\ cached'.reverse = v
        BY <1>1, <1>3, <1>5, <2>3
      <3> QED
        BY <1>1, <1>3, <2>1, <2>3, <3>1 DEF KnowsPump, P!Coherent
    <2>4. CASE register = "lasting" \/ register = "speed"
      <3>1. cached'.on = cached.on /\ cached'.reverse = cached.reverse
        BY <1>1, <1>3, <2>4
      <3> QED
        BY <1>1, <1>3, <2>1, <2>4, <3>1 DEF KnowsPump, P!Coherent
    <2> QED
      BY <2>2, <2>3, <2>4
  <1>6. ASSUME NEW v \in BOOLEAN, Head(todo) = TurnOff, Tail(todo) = <<Reverse(v), Lasting, TurnOn>>
        PROVE  PumpInv'
    <2>1. register = "on" /\ Head(todo).value = FALSE
      BY <1>1, <1>6, PumpExchanges
    <2>2. device' \in Pumps /\ P!Coherent(device)' /\ KnowsPump' /\ device'.on = FALSE
      BY <1>5, <2>1 DEF Switch
    <2>3. Reverses(todo)'
      BY <1>1, <1>6, <2>2 DEF Reverses
    <2>4. todo' # <<>> /\ todo' \notin Safes
      BY <1>1, <1>6, OnlySafe
    <2> QED
      BY <1>1, <1>2, <1>3, <1>4, <2>2, <2>3, <2>4 DEF PumpInv, KnowsPump
  <1>7. ASSUME NEW v \in BOOLEAN, Head(todo) = Reverse(v), Tail(todo) \in {<<>>, <<Lasting, TurnOn>>},
               device.on => v = device.reverse
        PROVE  PumpInv'
    <2>1. register = "reverse" /\ Head(todo).value = v
      BY <1>1, <1>7, PumpExchanges
    <2>2. device' \in Pumps /\ P!Coherent(device)' /\ KnowsPump'
      BY <1>5, <1>7, <2>1 DEF Switch
    <2>3. CASE Tail(todo) = <<>>
      BY <1>1, <1>4, <2>2, <2>3, PumpEnds
    <2>4. CASE Tail(todo) = <<Lasting, TurnOn>>
      <3>1. todo' \in Restarts
        BY <1>1, <2>4 DEF Restarts
      <3> QED
        BY <1>1, <1>2, <1>3, <1>4, <2>2, <3>1, OnlySafe DEF PumpInv, KnowsPump
    <2> QED
      BY <1>7, <2>3, <2>4
  <1>8. ASSUME Head(todo) = Lasting, Tail(todo) = <<TurnOn>> PROVE PumpInv'
    <2>1. register = "lasting" /\ Head(todo).value = TRUE
      BY <1>1, <1>8, PumpExchanges
    <2>2. device' \in Pumps /\ P!Coherent(device)' /\ KnowsPump'
      BY <1>5, <2>1 DEF Switch
    <2>3. todo' \in Restarts
      BY <1>1, <1>8 DEF Restarts
    <2> QED
      BY <1>1, <1>2, <1>3, <1>4, <2>2, <2>3, OnlySafe DEF PumpInv, KnowsPump
  <1>9. ASSUME Head(todo) \in {TurnOn, TurnOff}, Tail(todo) = <<>> PROVE PumpInv'
    <2>1. register = "on" /\ Head(todo).value \in BOOLEAN
      BY <1>1, <1>9, PumpExchanges
    <2>2. device' \in Pumps /\ P!Coherent(device)' /\ KnowsPump'
      BY <1>5, <2>1 DEF Switch
    <2> QED
      BY <1>1, <1>4, <1>9, <2>2, PumpEnds
  <1>10. ASSUME NEW v \in {1, 2}, Head(todo) = P!Set("speed", v), Tail(todo) = <<>> PROVE PumpInv'
    <2>1. register = "speed" /\ Head(todo).value = v
      BY <1>1, <1>10, PumpExchanges
    <2>2. device' \in Pumps /\ P!Coherent(device)' /\ KnowsPump'
      BY <1>5, <2>1
    <2> QED
      BY <1>1, <1>4, <1>10, <2>2, PumpEnds
  <1>11. Head(todo) # P!Set("safe", FALSE)
    BY <1>1, PumpExchanges
  <1> QED
    BY <1>1, <1>2, <1>6, <1>7, <1>8, <1>9, <1>10, <1>11, PumpGoesOn

LEMMA PumpNotConfirmed ==
  ASSUME PumpInv, NEW register \in {"on", "reverse", "lasting", "speed"}, P!NotConfirmed(register)
  PROVE  PumpInv' /\ raised' # {}
  <1>1. /\ todo # <<>> /\ Head(todo).register = register
        /\ device' \in {device, P!Written(register, Head(todo).value)}
        /\ cached' = [cached EXCEPT ![P!Believes(register)] = Unknown]
        /\ todo' = <<>> /\ doing' = "nothing" /\ status' = "faulted" /\ raised' # {}
    BY DEF P!NotConfirmed, P!Now, P!Value, P!Raise, P!Raised
  <1>2. /\ device \in Pumps /\ P!Coherent(device)
        /\ cached = [on |-> cached.on, reverse |-> cached.reverse, speed |-> cached.speed]
    BY <1>1 DEF PumpInv
  <1>3. cached' = [on |-> cached'.on, reverse |-> cached'.reverse, speed |-> cached'.speed]
    BY <1>1, <1>2 DEF P!Believes
  <1>4. ASSUME NEW v, (register \in Switch /\ v \in BOOLEAN) \/ (register = "speed" /\ v \in {1, 2}),
               register = "reverse" /\ device.on => v = device.reverse, Head(todo).value = v
        PROVE  device' \in Pumps /\ P!Coherent(device')
    BY <1>1, <1>2, <1>4, PumpWritten
  <1>5. device' \in Pumps /\ P!Coherent(device')
    <2>1. ASSUME NEW v \in BOOLEAN, Head(todo) = Reverse(v), device.on => v = device.reverse
          PROVE  device' \in Pumps /\ P!Coherent(device')
      <3>1. register = "reverse" /\ Head(todo).value = v
        BY <1>1, <2>1, PumpExchanges
      <3> QED
        BY <1>4, <2>1, <3>1 DEF Switch
    <2>2. ASSUME Head(todo) \in {Lasting, TurnOn, TurnOff} PROVE device' \in Pumps /\ P!Coherent(device')
      <3>1. register \in {"lasting", "on"} /\ Head(todo).value \in BOOLEAN
        BY <1>1, <2>2, PumpExchanges
      <3> QED
        BY <1>4, <3>1 DEF Switch
    <2>3. ASSUME NEW v \in {1, 2}, Head(todo) = P!Set("speed", v) PROVE device' \in Pumps /\ P!Coherent(device')
      <3>1. register = "speed" /\ Head(todo).value = v
        BY <1>1, <2>3, PumpExchanges
      <3> QED
        BY <1>4, <3>1
    <2>4. Head(todo) # P!Set("safe", FALSE)
      BY <1>1, PumpExchanges
    <2> QED
      BY <1>1, <2>1, <2>2, <2>3, <2>4, PumpGoesOn
  <1> QED
    BY <1>1, <1>3, <1>5, PumpEnds DEF KnowsPump, P!Coherent

LEMMA PumpStep ==
  ASSUME PumpInv, P!PumpNext \/ UNCHANGED vars
  PROVE  PumpInv' /\ P!PumpIsToldOn
  <1> USE DEF P!PumpIsToldOn, P!Over, P!Idle, P!opVars
  <1>1. CASE UNCHANGED vars
    <2>1. UNCHANGED <<device, cached, status, doing, todo>>
      BY <1>1, Zenon DEF vars
    <2> QED
      BY <2>1 DEF PumpInv, P!Coherent, Reverses
  <1>2. CASE P!Elsewhere
    <2>1. doing = "nothing" /\ doing' = "nothing" /\ status = "disconnected" /\ UNCHANGED <<status, cached, todo>>
          /\ device' \in Pumps /\ P!Coherent(device)' /\ todo = <<>>
      BY <1>2 DEF P!Elsewhere, P!Connected, P!Coherent, Pumps, PumpInv
    <2>2. cached' = [on |-> cached'.on, reverse |-> cached'.reverse, speed |-> cached'.speed]
      BY <2>1 DEF PumpInv
    <2> QED
      BY <2>1, <2>2, PumpEnds DEF KnowsPump
  <1>3. CASE P!RunsOut
    <2>1. device' = [device EXCEPT !.on = FALSE] /\ UNCHANGED <<cached, status, doing, todo>>
      BY <1>3 DEF P!RunsOut
    <2>2. device' \in Pumps /\ device'.on = FALSE /\ device'.reverse = device.reverse
      BY <2>1 DEF PumpInv, Pumps
    <2>3. Reverses(todo) => Reverses(todo)'
      BY <2>1, <2>2 DEF Reverses
    <2> QED
      BY <2>1, <2>2, <2>3 DEF PumpInv, P!Coherent
  <1>4. ASSUME NEW ok \in BOOLEAN, P!Connect(ok) PROVE PumpInv' /\ P!PumpIsToldOn
    <2>1. /\ doing = "nothing" /\ doing' = "nothing" /\ todo = <<>> /\ todo' = <<>> /\ UNCHANGED device
          /\ status = "disconnected"
      BY <1>4 DEF P!Connect, P!Connected, P!Single, PumpInv
    <2>2. device \in Pumps /\ P!Coherent(device)
      BY DEF PumpInv
    <2>3. CASE ok
      <3>1. cached' = [on |-> device.on, reverse |-> device.reverse, speed |-> device.speed]
        BY <1>4, <2>3 DEF P!Connect
      <3>2. KnowsPump' /\ cached' = [on |-> cached'.on, reverse |-> cached'.reverse, speed |-> cached'.speed]
        BY <2>1, <2>2, <3>1 DEF KnowsPump, Pumps
      <3> QED
        BY <2>1, <2>2, <3>2, PumpEnds DEF P!Coherent
    <2>4. CASE ~ok
      <3>1. UNCHANGED <<cached, status>>
        BY <1>4, <2>4 DEF P!Connect
      <3>2. KnowsPump' /\ cached' = [on |-> cached'.on, reverse |-> cached'.reverse, speed |-> cached'.speed]
        BY <2>1, <3>1 DEF KnowsPump, PumpInv
      <3> QED
        BY <2>1, <2>2, <3>2, PumpEnds DEF P!Coherent
    <2> QED
      BY <2>3, <2>4
  <1>5. ASSUME NEW ok \in BOOLEAN, P!SwitchedOff(ok) PROVE PumpInv' /\ P!PumpIsToldOn
    <2>1. /\ todo # <<>> /\ Head(todo).register = "safe"
          /\ device' \in {device, [device EXCEPT !.on = FALSE]}
          /\ ok => device' = [device EXCEPT !.on = FALSE]
          /\ cached' = IF ok THEN [cached EXCEPT !.on = FALSE] ELSE cached
          /\ todo' = <<>> /\ doing' = "nothing" /\ (~ok => raised' # {}) /\ UNCHANGED status
      BY <1>5 DEF P!SwitchedOff, P!Now, P!Continue, P!Raise, P!Raised
    <2>2. /\ device \in Pumps /\ P!Coherent(device)
          /\ cached = [on |-> cached.on, reverse |-> cached.reverse, speed |-> cached.speed]
      BY <2>1 DEF PumpInv
    <2>3. /\ device' \in Pumps /\ P!Coherent(device') /\ device'.reverse = device.reverse
          /\ device'.on => device.on
          /\ ok => device'.on = FALSE
      BY <2>1, <2>2 DEF Pumps, P!Coherent
    <2>4. /\ cached' = [on |-> cached'.on, reverse |-> cached'.reverse, speed |-> cached'.speed]
          /\ cached'.reverse = cached.reverse /\ cached'.on = IF ok THEN FALSE ELSE cached.on
      BY <2>1, <2>2
    <2>5. KnowsPump'
      BY <2>1, <2>3, <2>4 DEF KnowsPump, PumpInv, Pumps
    <2> QED
      BY <2>1, <2>3, <2>4, <2>5, PumpEnds DEF P!Coherent
  <1>6. ASSUME NEW ok \in BOOLEAN, P!Disconnect(ok) PROVE PumpInv' /\ P!PumpIsToldOn
    <2>1. /\ device' \in {device, [device EXCEPT !.on = FALSE]}
          /\ cached' = P!NothingKnown /\ status' = "disconnected"
          /\ doing = "nothing" /\ doing' = "nothing" /\ todo = <<>> /\ todo' = <<>>
      BY <1>6 DEF P!Disconnect, P!Single, PumpInv
    <2>2. device' \in Pumps /\ P!Coherent(device)'
      BY <2>1 DEF Pumps, PumpInv, P!Coherent
    <2>3. cached' = [on |-> cached'.on, reverse |-> cached'.reverse, speed |-> cached'.speed]
      BY <2>1 DEF P!NothingKnown
    <2> QED
      BY <2>1, <2>2, <2>3, PumpEnds DEF KnowsPump
  <1>7. CASE \/ \E rpm \in {1, 2} : P!SetSpeed(rpm)
             \/ \E direction \in BOOLEAN : P!SetDirection(direction)
             \/ P!Start \/ P!Stop \/ P!SafeState
    BY <1>7, PumpOperations
  <1>8. ASSUME NEW register \in {"on", "reverse", "lasting", "speed"}, P!Confirmed(register)
        PROVE  PumpInv' /\ P!PumpIsToldOn
    BY <1>8, PumpConfirmed
  <1>9. ASSUME NEW register \in {"on", "reverse", "lasting", "speed"}, P!NotConfirmed(register)
        PROVE  PumpInv' /\ P!PumpIsToldOn
    BY <1>9, PumpNotConfirmed
  <1> QED
    BY <1>1, <1>2, <1>3, <1>4, <1>5, <1>6, <1>7, <1>8, <1>9 DEF P!PumpNext


(***************************************************************************)
(* The hotplate.                                                           *)
(***************************************************************************)

Plates ==
  [heat : BOOLEAN, stir : BOOLEAN, target : Temperatures, heats : Temperatures, error : BOOLEAN]

Refresh == H!Ask("refresh")
HeatOn == H!Set("heat", TRUE)
HeatOff == H!Set("heat", FALSE)
StirOn == H!Set("stir", TRUE)
StirOff == H!Set("stir", FALSE)
DecideOn(t) == H!Set("decide", t)
Target(t) == H!Set("target", t)
ClosePort == H!Ask("close")

Coherent(plate) == plate.heat => plate.heats = plate.target

(* A target is written to a plate that does not heat, and one that heats again was seen
   to be within the limit. *)
Proceeds(plan) ==
  \/ plan \in {<<>>, <<HeatOff>>, <<StirOff>>, <<StirOn>>, <<Refresh, HeatOn>>, <<Refresh, StirOn>>}
  \/ plan = <<HeatOn>> /\ device.target <= cached.limit
  \/ \E t \in Temperatures :
        \/ plan = <<Refresh, DecideOn(t)>>
        \/ plan = <<DecideOn(t)>> /\ cached.heat = device.heat
        \/ plan = <<HeatOff, Target(t), Refresh, HeatOn>>
        \/ plan \in {<<Target(t)>>, <<Target(t), Refresh, HeatOn>>} /\ device.heat = FALSE

PlateInv ==
  /\ device \in Plates /\ Coherent(device)
  /\ cached = [heat |-> cached.heat, stir |-> cached.stir, target |-> cached.target, limit |-> cached.limit]
  /\ doing = "nothing" => todo = <<>>
  /\ doing = "safe" => \/ todo = <<HeatOff, StirOff>>
                       \/ todo = <<StirOff>> /\ (device.heat => "heat" \in raised)
  /\ doing = "disconnect" => todo \in {<<HeatOff, StirOff, ClosePort>>, <<StirOff, ClosePort>>, <<ClosePort>>}
  /\ doing \notin {"safe", "disconnect"} => Proceeds(todo)

LEMMA PlateExchanges ==
  /\ Refresh.register = "refresh" /\ ClosePort.register = "close"
  /\ HeatOn.register = "heat" /\ HeatOn.value = TRUE /\ HeatOff.register = "heat" /\ HeatOff.value = FALSE
  /\ StirOn.register = "stir" /\ StirOn.value = TRUE /\ StirOff.register = "stir" /\ StirOff.value = FALSE
  /\ \A t : DecideOn(t).register = "decide" /\ DecideOn(t).value = t
  /\ \A t : Target(t).register = "target" /\ Target(t).value = t
  <1>1. Refresh.register = "refresh" /\ ClosePort.register = "close"
    BY DEF Refresh, ClosePort, H!Ask, H!Set
  <1>2. /\ HeatOn.register = "heat" /\ HeatOn.value = TRUE /\ HeatOff.register = "heat" /\ HeatOff.value = FALSE
        /\ StirOn.register = "stir" /\ StirOn.value = TRUE /\ StirOff.register = "stir" /\ StirOff.value = FALSE
    BY DEF HeatOn, HeatOff, StirOn, StirOff, H!Set
  <1>3. /\ \A t : DecideOn(t).register = "decide" /\ DecideOn(t).value = t
        /\ \A t : Target(t).register = "target" /\ Target(t).value = t
    BY DEF DecideOn, Target, H!Set
  <1> QED
    BY <1>1, <1>2, <1>3

(* What the first exchange of a list is, and what comes then. *)
LEMMA PlateProceeds ==
  ASSUME NEW plan, Proceeds(plan), plan # <<>>
  PROVE  \/ Head(plan) \in {HeatOff, StirOff, StirOn} /\ Tail(plan) = <<>>
         \/ Head(plan) = Refresh /\ Tail(plan) \in {<<HeatOn>>, <<StirOn>>}
         \/ Head(plan) = HeatOn /\ Tail(plan) = <<>> /\ device.target <= cached.limit
         \/ \E t \in Temperatures :
               \/ Head(plan) = Refresh /\ Tail(plan) = <<DecideOn(t)>>
               \/ Head(plan) = DecideOn(t) /\ cached.heat = device.heat
               \/ Head(plan) = HeatOff /\ Tail(plan) = <<Target(t), Refresh, HeatOn>>
               \/ Head(plan) = Target(t) /\ Tail(plan) \in {<<>>, <<Refresh, HeatOn>>} /\ device.heat = FALSE
  <1>1. CASE plan \in {<<HeatOff>>, <<StirOff>>, <<StirOn>>}
    <2>1. PICK a \in {HeatOff, StirOff, StirOn} : plan = <<a>>
      BY <1>1
    <2> QED
      BY <2>1, List1
  <1>2. CASE plan \in {<<Refresh, HeatOn>>, <<Refresh, StirOn>>}
    <2>1. PICK a \in {HeatOn, StirOn} : plan = <<Refresh, a>>
      BY <1>2
    <2> QED
      BY <2>1, List2
  <1>3. CASE plan = <<HeatOn>> /\ device.target <= cached.limit
    BY <1>3, List1
  <1>4. ASSUME NEW t \in Temperatures, plan = <<Refresh, DecideOn(t)>>
        PROVE  Head(plan) = Refresh /\ Tail(plan) = <<DecideOn(t)>>
    BY <1>4, List2
  <1>5. ASSUME NEW t \in Temperatures, plan = <<DecideOn(t)>> PROVE Head(plan) = DecideOn(t)
    BY <1>5, List1
  <1>6. ASSUME NEW t \in Temperatures, plan = <<HeatOff, Target(t), Refresh, HeatOn>>
        PROVE  Head(plan) = HeatOff /\ Tail(plan) = <<Target(t), Refresh, HeatOn>>
    BY <1>6, List4
  <1>7. ASSUME NEW t \in Temperatures, plan = <<Target(t)>> PROVE Head(plan) = Target(t) /\ Tail(plan) = <<>>
    BY <1>7, List1
  <1>8. ASSUME NEW t \in Temperatures, plan = <<Target(t), Refresh, HeatOn>>
        PROVE  Head(plan) = Target(t) /\ Tail(plan) = <<Refresh, HeatOn>>
    BY <1>8, List3
  <1>9. plan \in {<<HeatOff>>, <<StirOff>>, <<StirOn>>} \/ plan \in {<<Refresh, HeatOn>>, <<Refresh, StirOn>>}
        \/ (plan = <<HeatOn>> /\ device.target <= cached.limit)
        \/ \E t \in Temperatures :
             \/ plan = <<Refresh, DecideOn(t)>>
             \/ plan = <<DecideOn(t)>> /\ cached.heat = device.heat
             \/ plan = <<HeatOff, Target(t), Refresh, HeatOn>>
             \/ plan \in {<<Target(t)>>, <<Target(t), Refresh, HeatOn>>} /\ device.heat = FALSE
    BY DEF Proceeds
  <1> QED
    BY <1>1, <1>2, <1>3, <1>4, <1>5, <1>6, <1>7, <1>8, <1>9

LEMMA PlateWritten ==
  ASSUME device \in Plates, Coherent(device)
  PROVE  /\ H!Written("heat", TRUE) \in Plates /\ Coherent(H!Written("heat", TRUE))
         /\ H!Written("heat", TRUE).target = device.target
         /\ H!Written("heat", FALSE) \in Plates /\ Coherent(H!Written("heat", FALSE))
         /\ H!Written("heat", FALSE).heat = FALSE /\ H!Written("heat", FALSE).stir = device.stir
         /\ \A v \in BOOLEAN : /\ H!Written("stir", v) \in Plates /\ Coherent(H!Written("stir", v))
                               /\ H!Written("stir", v).heat = device.heat /\ H!Written("stir", v).stir = v
         /\ device.heat = FALSE => \A t \in Temperatures :
               /\ H!Written("target", t) \in Plates /\ Coherent(H!Written("target", t))
               /\ H!Written("target", t).heat = FALSE
  <1> USE DEF Plates, Coherent, H!Written
  <1>1. /\ H!Written("heat", TRUE) \in Plates /\ Coherent(H!Written("heat", TRUE))
        /\ H!Written("heat", TRUE).target = device.target
    OBVIOUS
  <1>2. /\ H!Written("heat", FALSE) \in Plates /\ Coherent(H!Written("heat", FALSE))
        /\ H!Written("heat", FALSE).heat = FALSE /\ H!Written("heat", FALSE).stir = device.stir
    OBVIOUS
  <1>3. ASSUME NEW v \in BOOLEAN
        PROVE  /\ H!Written("stir", v) \in Plates /\ Coherent(H!Written("stir", v))
               /\ H!Written("stir", v).heat = device.heat /\ H!Written("stir", v).stir = v
    OBVIOUS
  <1>4. ASSUME device.heat = FALSE, NEW t \in Temperatures
        PROVE  /\ H!Written("target", t) \in Plates /\ Coherent(H!Written("target", t))
               /\ H!Written("target", t).heat = FALSE
    BY <1>4
  <1> QED
    BY <1>1, <1>2, <1>3, <1>4

Believes == cached = [heat |-> cached.heat, stir |-> cached.stir, target |-> cached.target, limit |-> cached.limit]

LEMMA PlateEnds ==
  ASSUME device' \in Plates, Coherent(device)', Believes', doing' = "nothing", todo' = <<>>
  PROVE  PlateInv'
  BY DEF PlateInv, Proceeds, Believes

LEMMA PlateBegins ==
  ASSUME PlateInv, NEW operation, NEW exchanges, H!Begin(operation, exchanges), operation # "nothing",
         operation = "safe" => exchanges = <<HeatOff, StirOff>>,
         operation = "disconnect" => exchanges = <<HeatOff, StirOff, ClosePort>>,
         operation \notin {"safe", "disconnect"} => Proceeds(exchanges)
  PROVE  PlateInv' /\ H!Idle /\ device' = device
  <1>1. doing' = operation /\ todo' = exchanges /\ UNCHANGED <<device, cached, status>> /\ H!Idle
    BY DEF H!Begin
  <1>2. Proceeds(exchanges) => Proceeds(todo)'
    BY <1>1 DEF Proceeds
  <1>3. device' \in Plates /\ Coherent(device)' /\ Believes'
    BY <1>1, Zenon DEF PlateInv, Coherent, Believes
  <1> QED
    BY <1>1, <1>2, <1>3 DEF PlateInv, Believes

LEMMA PlateOperations ==
  ASSUME PlateInv,
         \/ \E t \in Temperatures : H!SetTarget(t)
         \/ H!Start \/ H!StartStirring \/ H!SafeState \/ H!Disconnect
         \/ \E switch \in {"heat", "stir"} : H!Stop(switch)
  PROVE  PlateInv' /\ H!Idle /\ device' = device
  <1>1. ASSUME NEW t \in Temperatures, H!SetTarget(t) PROVE PlateInv' /\ H!Idle /\ device' = device
    <2>1. H!Begin("target", <<Refresh, DecideOn(t)>>)
      BY <1>1, Zenon DEF H!SetTarget, Refresh, DecideOn
    <2>2. Proceeds(<<Refresh, DecideOn(t)>>)
      BY DEF Proceeds
    <2> QED
      BY <2>1, <2>2, PlateBegins
  <1>2. CASE H!Start
    <2>1. H!Begin("start", <<Refresh, HeatOn>>)
      BY <1>2, Zenon DEF H!Start, H!StartExchanges, Refresh, HeatOn
    <2>2. Proceeds(<<Refresh, HeatOn>>)
      BY DEF Proceeds
    <2> QED
      BY <2>1, <2>2, PlateBegins
  <1>3. CASE H!StartStirring
    <2>1. H!Begin("start", <<Refresh, StirOn>>)
      BY <1>3, Zenon DEF H!StartStirring, Refresh, StirOn
    <2>2. Proceeds(<<Refresh, StirOn>>)
      BY DEF Proceeds
    <2> QED
      BY <2>1, <2>2, PlateBegins
  <1>4. CASE H!SafeState
    <2>1. H!Begin("safe", <<HeatOff, StirOff>>)
      BY <1>4, Zenon DEF H!SafeState, HeatOff, StirOff
    <2> QED
      BY <2>1, PlateBegins
  <1>5. CASE H!Disconnect
    <2>1. H!Begin("disconnect", <<HeatOff, StirOff, ClosePort>>)
      BY <1>5, Zenon DEF H!Disconnect, HeatOff, StirOff, ClosePort
    <2> QED
      BY <2>1, PlateBegins
  <1>6. ASSUME NEW switch \in {"heat", "stir"}, H!Stop(switch) PROVE PlateInv' /\ H!Idle /\ device' = device
    <2>1. PICK a \in {HeatOff, StirOff} : H!Begin("stop", <<a>>)
      BY <1>6, Zenon DEF H!Stop, HeatOff, StirOff
    <2>2. Proceeds(<<a>>)
      BY DEF Proceeds
    <2> QED
      BY <2>1, <2>2, PlateBegins
  <1> QED
    BY <1>1, <1>2, <1>3, <1>4, <1>5, <1>6

(* What a step of an operation of any kind finds. *)
LEMMA PlateGoesOn ==
  ASSUME PlateInv, todo # <<>>
  PROVE  /\ doing # "nothing"
         /\ doing = "safe" =>
               \/ Head(todo) = HeatOff /\ Tail(todo) = <<StirOff>>
               \/ Head(todo) = StirOff /\ Tail(todo) = <<>> /\ (device.heat => "heat" \in raised)
         /\ doing = "disconnect" =>
               \/ Head(todo) = HeatOff /\ Tail(todo) = <<StirOff, ClosePort>>
               \/ Head(todo) = StirOff /\ Tail(todo) = <<ClosePort>>
               \/ Head(todo) = ClosePort /\ Tail(todo) = <<>>
         /\ doing \notin {"safe", "disconnect"} =>
               \/ Head(todo) \in {HeatOff, StirOff, StirOn} /\ Tail(todo) = <<>>
               \/ Head(todo) = Refresh /\ Tail(todo) \in {<<HeatOn>>, <<StirOn>>}
               \/ Head(todo) = HeatOn /\ Tail(todo) = <<>> /\ device.target <= cached.limit
               \/ \E t \in Temperatures :
                     \/ Head(todo) = Refresh /\ Tail(todo) = <<DecideOn(t)>>
                     \/ Head(todo) = DecideOn(t) /\ cached.heat = device.heat
                     \/ Head(todo) = HeatOff /\ Tail(todo) = <<Target(t), Refresh, HeatOn>>
                     \/ /\ Head(todo) = Target(t) /\ Tail(todo) \in {<<>>, <<Refresh, HeatOn>>}
                        /\ device.heat = FALSE
  <1>1. CASE doing = "safe"
    <2>1. ASSUME todo = <<HeatOff, StirOff>> PROVE Head(todo) = HeatOff /\ Tail(todo) = <<StirOff>>
      BY <2>1, List2
    <2>2. ASSUME todo = <<StirOff>> PROVE Head(todo) = StirOff /\ Tail(todo) = <<>>
      BY <2>2, List1
    <2> QED
      BY <1>1, <2>1, <2>2 DEF PlateInv
  <1>2. CASE doing = "disconnect"
    <2>1. ASSUME todo = <<HeatOff, StirOff, ClosePort>>
          PROVE  Head(todo) = HeatOff /\ Tail(todo) = <<StirOff, ClosePort>>
      BY <2>1, List3
    <2>2. ASSUME todo = <<StirOff, ClosePort>> PROVE Head(todo) = StirOff /\ Tail(todo) = <<ClosePort>>
      BY <2>2, List2
    <2>3. ASSUME todo = <<ClosePort>> PROVE Head(todo) = ClosePort /\ Tail(todo) = <<>>
      BY <2>3, List1
    <2> QED
      BY <1>2, <2>1, <2>2, <2>3 DEF PlateInv
  <1>3. CASE doing \notin {"safe", "disconnect"}
    <2>1. Proceeds(todo) /\ doing # "nothing"
      BY <1>3 DEF PlateInv
    <2> QED
      BY <1>3, <2>1, PlateProceeds
  <1> QED
    BY <1>1, <1>2, <1>3

PlateGoal == PlateInv' /\ H!StartsWithinLimit /\ H!PlateIsToldOn

LEMMA PlateRefreshed ==
  ASSUME PlateInv, H!RefreshedFirst
  PROVE  PlateGoal
  <1>1. /\ todo # <<>> /\ Head(todo).register = "refresh" /\ UNCHANGED device
        /\ device.target <= cached.limit /\ cached' = H!Known
        /\ IF device.error THEN todo' = <<>> ELSE todo' = Tail(todo)
        /\ doing' = IF todo' = <<>> THEN "nothing" ELSE doing
    BY DEF H!RefreshedFirst, H!Now, H!MayRefresh, H!Refreshes, H!Raise, H!Raised, H!Continue
  <1>2. /\ Head(todo) = Refresh /\ doing \notin {"safe", "disconnect", "nothing"}
        /\ Tail(todo) \in {<<HeatOn>>, <<StirOn>>} \/ \E t \in Temperatures : Tail(todo) = <<DecideOn(t)>>
    BY <1>1, PlateGoesOn, PlateExchanges
  <1>3. /\ Believes' /\ cached'.limit = cached.limit
        /\ ~device.error => cached'.heat = device.heat
    BY <1>1 DEF H!Known, H!Believing, Believes, PlateInv
  <1>4. device' \in Plates /\ Coherent(device)'
    BY <1>1 DEF PlateInv, Coherent
  <1>5. device'.target <= cached'.limit
    BY <1>1, <1>3
  <1>6. CASE device.error
    BY <1>1, <1>2, <1>3, <1>4, <1>6, PlateEnds DEF PlateGoal, H!StartsWithinLimit, H!PlateIsToldOn, H!Over
  <1>7. CASE ~device.error
    <2>1. todo' = Tail(todo) /\ Tail(todo) # <<>> /\ doing' = doing
      BY <1>1, <1>2, <1>7, List1
    <2>2. Proceeds(todo)'
      BY <1>1, <1>2, <1>3, <1>5, <1>7, <2>1 DEF Proceeds
    <2>3. PlateInv'
      BY <1>2, <1>3, <1>4, <2>1, <2>2 DEF PlateInv, Believes
    <2> QED
      BY <1>1, <1>2, <2>1, <2>3 DEF PlateGoal, H!StartsWithinLimit, H!PlateIsToldOn, H!Over
  <1> QED
    BY <1>6, <1>7

LEMMA PlateNotRefreshed ==
  ASSUME PlateInv, H!NotRefreshed
  PROVE  PlateGoal
  <1>1. /\ todo # <<>> /\ Head(todo).register = "refresh" /\ UNCHANGED device
        /\ cached' = H!NothingKnown /\ todo' = <<>> /\ doing' = "nothing"
    BY DEF H!NotRefreshed, H!Now, H!RefreshRaises, H!Raise, H!Raised
  <1>2. doing # "safe"
    BY <1>1, PlateGoesOn, PlateExchanges
  <1>3. Believes' /\ device' \in Plates /\ Coherent(device)'
    BY <1>1 DEF H!NothingKnown, H!Believing, Believes, PlateInv, Coherent
  <1> QED
    BY <1>1, <1>2, <1>3, PlateEnds DEF PlateGoal, H!StartsWithinLimit, H!PlateIsToldOn, H!Over

LEMMA JoinTwo ==
  ASSUME NEW a, NEW b, NEW c, NEW d
  PROVE  <<a, b>> \o <<c, d>> = <<a, b, c, d>>
  <1> DEFINE those == {a, b, c, d}
             pq == <<a, b>> \o <<c, d>>
  <1>1. <<a, b>> \in Seq(those) /\ <<c, d>> \in Seq(those) /\ <<a, b, c, d>> \in Seq(those)
    BY List2, List4
  <1>2. pq \in Seq(those) /\ Len(pq) = 4
        /\ \A i \in 1 .. Len(<<a, b>>) + Len(<<c, d>>) :
              pq[i] = IF i <= Len(<<a, b>>) THEN <<a, b>>[i] ELSE <<c, d>>[i - Len(<<a, b>>)]
    BY <1>1, ConcatProperties
  <1>3. pq[1] = a /\ pq[2] = b /\ pq[3] = c /\ pq[4] = d
    BY <1>2
  <1>4. Len(<<a, b, c, d>>) = 4 /\ \A i \in 1 .. 4 : pq[i] = <<a, b, c, d>>[i]
    BY <1>3
  <1> QED
    BY <1>1, <1>2, <1>4, SeqEqual

LEMMA PlateDecides ==
  ASSUME PlateInv, H!Decide
  PROVE  PlateGoal
  <1>1. /\ todo # <<>> /\ Head(todo).register = "decide" /\ UNCHANGED <<device, cached>>
        /\ todo' = IF Head(todo).value = cached.target THEN <<>>
                   ELSE IF cached.heat = TRUE
                   THEN <<HeatOff, Target(Head(todo).value)>> \o <<Refresh, HeatOn>>
                   ELSE <<Target(Head(todo).value)>>
        /\ doing' = IF todo' = <<>> THEN "nothing" ELSE doing
    BY DEF H!Decide, H!Now, H!Value, H!Continue, HeatOff, Target, Refresh, HeatOn, H!StartExchanges
  <1>2. doing \notin {"safe", "disconnect", "nothing"}
    BY <1>1, PlateGoesOn, PlateExchanges
  <1>3. PICK t \in Temperatures : Head(todo).value = t /\ cached.heat = device.heat
    BY <1>1, PlateGoesOn, PlateExchanges
  <1>4. device \in Plates /\ Coherent(device) /\ Believes /\ device.heat \in BOOLEAN
    BY DEF PlateInv, Believes, Plates
  <1>5. Believes' /\ device' \in Plates /\ Coherent(device)' /\ ~(~device.heat /\ device'.heat)
    BY <1>1, <1>4 DEF Believes, Coherent
  <1>6. \/ todo' \in {<<>>, <<HeatOff, Target(t), Refresh, HeatOn>>}
        \/ todo' = <<Target(t)>> /\ device.heat = FALSE
    BY <1>1, <1>3, <1>4, JoinTwo
  <1>7. Proceeds(todo)'
    BY <1>1, <1>6 DEF Proceeds
  <1>8. PlateInv'
    BY <1>1, <1>2, <1>5, <1>7 DEF PlateInv, Believes
  <1> QED
    BY <1>2, <1>5, <1>8 DEF PlateGoal, H!StartsWithinLimit, H!PlateIsToldOn, H!Over

LEMMA PlateSwitched ==
  ASSUME PlateInv, NEW switch \in {"heat", "stir"}, H!SwitchConfirmed(switch)
  PROVE  PlateGoal
  <1>1. /\ todo # <<>> /\ Head(todo).register = switch
        /\ device' = H!Written(switch, Head(todo).value)
        /\ cached' = [cached EXCEPT !.heat = device'.heat, !.stir = device'.stir]
        /\ todo' = Tail(todo) /\ doing' = (IF todo' = <<>> THEN "nothing" ELSE doing) /\ raised' = raised
    BY DEF H!SwitchConfirmed, H!Now, H!Value, H!Continue
  <1>2. device \in Plates /\ Coherent(device) /\ Believes /\ doing # "nothing"
    BY <1>1, PlateGoesOn DEF PlateInv, Believes
  <1>3. Believes' /\ cached'.limit = cached.limit
    BY <1>1, <1>2 DEF Believes
  <1>4. CASE Head(todo) = HeatOff
    <2>1. device' = H!Written("heat", FALSE)
      BY <1>1, <1>4, PlateExchanges
    <2>2. device' \in Plates /\ Coherent(device)' /\ device'.heat = FALSE /\ device'.stir = device.stir
      BY <1>2, <2>1, PlateWritten DEF Coherent
    <2>3. H!StartsWithinLimit
      BY <2>2 DEF H!StartsWithinLimit
    <2>4. CASE doing = "safe"
      <3>1. todo' = <<StirOff>> /\ doing' = doing
        BY <1>1, <1>4, <2>4, PlateGoesOn, PlateExchanges, List1
      <3> QED
        BY <1>3, <2>2, <2>3, <2>4, <3>1 DEF PlateInv, PlateGoal, Believes, H!PlateIsToldOn, H!Over
    <2>5. CASE doing = "disconnect"
      <3>1. todo' = <<StirOff, ClosePort>> /\ doing' = doing
        BY <1>1, <1>4, <2>5, PlateGoesOn, PlateExchanges, List2
      <3> QED
        BY <1>3, <2>2, <2>3, <2>5, <3>1 DEF PlateInv, PlateGoal, Believes, H!PlateIsToldOn, H!Over
    <2>6. CASE doing \notin {"safe", "disconnect"}
      <3>1. todo' = <<>> \/ \E t \in Temperatures : todo' = <<Target(t), Refresh, HeatOn>>
        BY <1>1, <1>4, <2>6, PlateGoesOn, PlateExchanges
      <3>2. Proceeds(todo)'
        BY <2>2, <3>1 DEF Proceeds
      <3>3. doing' = "nothing" => todo' = <<>>
        BY <1>1, <1>2
      <3>4. doing' \notin {"safe", "disconnect"} 
        BY <1>1, <2>6
      <3> QED
        BY <1>3, <2>2, <2>3, <2>6, <3>2, <3>3, <3>4
           DEF PlateInv, PlateGoal, Believes, H!PlateIsToldOn, H!Over
    <2> QED
      BY <2>4, <2>5, <2>6
  <1>5. CASE Head(todo) = StirOff
    <2>1. device' = H!Written("stir", FALSE)
      BY <1>1, <1>5, PlateExchanges
    <2>2. device' \in Plates /\ Coherent(device)' /\ device'.heat = device.heat /\ device'.stir = FALSE
      BY <1>2, <2>1, PlateWritten DEF Coherent
    <2>3. H!StartsWithinLimit
      BY <2>2 DEF H!StartsWithinLimit
    <2>4. CASE doing = "safe"
      <3>1. todo' = <<>> /\ doing' = "nothing" /\ (device.heat => "heat" \in raised)
        BY <1>1, <1>5, <2>4, PlateGoesOn, PlateExchanges
      <3>2. H!PlateIsToldOn
        BY <1>1, <2>2, <3>1 DEF H!PlateIsToldOn
      <3> QED
        BY <1>3, <2>2, <2>3, <3>1, <3>2, PlateEnds DEF PlateGoal
    <2>5. CASE doing = "disconnect"
      <3>1. todo' = <<ClosePort>> /\ doing' = doing
        BY <1>1, <1>5, <2>5, PlateGoesOn, PlateExchanges, List1
      <3> QED
        BY <1>3, <2>2, <2>3, <2>5, <3>1 DEF PlateInv, PlateGoal, Believes, H!PlateIsToldOn, H!Over
    <2>6. CASE doing \notin {"safe", "disconnect"}
      <3>1. todo' = <<>> /\ doing' = "nothing"
        BY <1>1, <1>5, <2>6, PlateGoesOn, PlateExchanges
      <3> QED
        BY <1>3, <2>2, <2>3, <2>6, <3>1, PlateEnds DEF PlateGoal, H!PlateIsToldOn, H!Over
    <2> QED
      BY <2>4, <2>5, <2>6
  <1>6. CASE Head(todo) = StirOn
    <2>1. device' = H!Written("stir", TRUE)
      BY <1>1, <1>6, PlateExchanges
    <2>2. device' \in Plates /\ Coherent(device)' /\ device'.heat = device.heat
      BY <1>2, <2>1, PlateWritten DEF Coherent
    <2>3. todo' = <<>> /\ doing' = "nothing" /\ doing \notin {"safe", "disconnect"}
      BY <1>1, <1>6, PlateGoesOn, PlateExchanges
    <2> QED
      BY <1>3, <2>2, <2>3, PlateEnds DEF PlateGoal, H!StartsWithinLimit, H!PlateIsToldOn, H!Over
  <1>7. CASE Head(todo) = HeatOn
    <2>1. device' = H!Written("heat", TRUE)
      BY <1>1, <1>7, PlateExchanges
    <2>2. device' \in Plates /\ Coherent(device)' /\ device'.target = device.target
      BY <1>2, <2>1, PlateWritten DEF Coherent
    <2>3. /\ todo' = <<>> /\ doing' = "nothing" /\ doing \notin {"safe", "disconnect"}
          /\ device.target <= cached.limit
      BY <1>1, <1>7, PlateGoesOn, PlateExchanges
    <2>4. H!StartsWithinLimit
      BY <1>3, <2>2, <2>3 DEF H!StartsWithinLimit
    <2> QED
      BY <1>3, <2>2, <2>3, <2>4, PlateEnds DEF PlateGoal, H!PlateIsToldOn, H!Over
  <1> QED
    BY <1>1, <1>4, <1>5, <1>6, <1>7, PlateGoesOn, PlateExchanges

LEMMA PlateNotSwitched ==
  ASSUME PlateInv, NEW switch \in {"heat", "stir"}, H!SwitchNotConfirmed(switch)
  PROVE  PlateGoal
  <1>1. /\ todo # <<>> /\ Head(todo).register = switch
        /\ device' \in {device, H!Written(switch, Head(todo).value)}
        /\ cached' = [cached EXCEPT !.heat = Unknown, !.stir = Unknown]
        /\ todo' = (IF doing \in {"safe", "disconnect"} THEN Tail(todo) ELSE <<>>)
        /\ doing' = (IF todo' = <<>> THEN "nothing" ELSE doing) /\ raised' = raised \cup {switch}
    BY DEF H!SwitchNotConfirmed, H!Now, H!Value, H!Raised
  <1>2. device \in Plates /\ Coherent(device) /\ Believes /\ doing # "nothing"
    BY <1>1, PlateGoesOn DEF PlateInv, Believes
  <1>3. Believes' /\ cached'.limit = cached.limit
    BY <1>1, <1>2 DEF Believes
  <1>4. CASE Head(todo) = HeatOff
    <2>1. device' \in {device, H!Written("heat", FALSE)} /\ switch = "heat"
      BY <1>1, <1>4, PlateExchanges
    <2>2. device' \in Plates /\ Coherent(device)' /\ (device'.heat => device.heat)
      BY <1>2, <2>1, PlateWritten DEF Coherent
    <2>3. H!StartsWithinLimit
      BY <2>2 DEF H!StartsWithinLimit
    <2>4. CASE doing = "safe"
      <3>1. todo' = <<StirOff>> /\ doing' = doing /\ "heat" \in raised'
        BY <1>1, <1>4, <2>1, <2>4, PlateGoesOn, PlateExchanges, List1
      <3> QED
        BY <1>3, <2>2, <2>3, <2>4, <3>1 DEF PlateInv, PlateGoal, Believes, H!PlateIsToldOn, H!Over
    <2>5. CASE doing = "disconnect"
      <3>1. todo' = <<StirOff, ClosePort>> /\ doing' = doing
        BY <1>1, <1>4, <2>5, PlateGoesOn, PlateExchanges, List2
      <3> QED
        BY <1>3, <2>2, <2>3, <2>5, <3>1 DEF PlateInv, PlateGoal, Believes, H!PlateIsToldOn, H!Over
    <2>6. CASE doing \notin {"safe", "disconnect"}
      <3>1. todo' = <<>> /\ doing' = "nothing"
        BY <1>1, <2>6
      <3> QED
        BY <1>3, <2>2, <2>3, <2>6, <3>1, PlateEnds DEF PlateGoal, H!PlateIsToldOn, H!Over
    <2> QED
      BY <2>4, <2>5, <2>6
  <1>5. CASE Head(todo) = StirOff
    <2>1. device' \in {device, H!Written("stir", FALSE)} /\ switch = "stir"
      BY <1>1, <1>5, PlateExchanges
    <2>2. device' \in Plates /\ Coherent(device)' /\ device'.heat = device.heat
      BY <1>2, <2>1, PlateWritten DEF Coherent
    <2>3. H!StartsWithinLimit
      BY <2>2 DEF H!StartsWithinLimit
    <2>4. CASE doing = "safe"
      <3>1. todo' = <<>> /\ doing' = "nothing" /\ (device.heat => "heat" \in raised)
        BY <1>1, <1>5, <2>4, PlateGoesOn, PlateExchanges
      <3>2. H!PlateIsToldOn
        BY <1>1, <2>1, <2>2, <3>1 DEF H!PlateIsToldOn
      <3> QED
        BY <1>3, <2>2, <2>3, <3>1, <3>2, PlateEnds DEF PlateGoal
    <2>5. CASE doing = "disconnect"
      <3>1. todo' = <<ClosePort>> /\ doing' = doing
        BY <1>1, <1>5, <2>5, PlateGoesOn, PlateExchanges, List1
      <3> QED
        BY <1>3, <2>2, <2>3, <2>5, <3>1 DEF PlateInv, PlateGoal, Believes, H!PlateIsToldOn, H!Over
    <2>6. CASE doing \notin {"safe", "disconnect"}
      <3>1. todo' = <<>> /\ doing' = "nothing"
        BY <1>1, <2>6
      <3> QED
        BY <1>3, <2>2, <2>3, <2>6, <3>1, PlateEnds DEF PlateGoal, H!PlateIsToldOn, H!Over
    <2> QED
      BY <2>4, <2>5, <2>6
  <1>6. CASE Head(todo) \in {StirOn, HeatOn}
    <2>1. /\ todo' = <<>> /\ doing' = "nothing" /\ doing \notin {"safe", "disconnect"}
          /\ Head(todo) = HeatOn => device.target <= cached.limit
      BY <1>1, <1>6, PlateGoesOn, PlateExchanges
    <2>2. \/ device' \in {device, H!Written("stir", TRUE)}
          \/ device' = H!Written("heat", TRUE) /\ Head(todo) = HeatOn
      BY <1>1, <1>6, PlateExchanges
    <2>3. /\ device' \in Plates /\ Coherent(device)'
          /\ device'.heat = device.heat \/ (device'.target = device.target /\ Head(todo) = HeatOn)
      BY <1>2, <2>2, PlateWritten DEF Coherent
    <2>4. H!StartsWithinLimit
      BY <1>3, <2>1, <2>3 DEF H!StartsWithinLimit
    <2> QED
      BY <1>3, <2>1, <2>3, <2>4, PlateEnds DEF PlateGoal, H!PlateIsToldOn, H!Over
  <1> QED
    BY <1>1, <1>4, <1>5, <1>6, PlateGoesOn, PlateExchanges

LEMMA PlateTargeted ==
  ASSUME PlateInv, H!TargetConfirmed
  PROVE  PlateGoal
  <1>1. /\ todo # <<>> /\ Head(todo).register = "target"
        /\ device' = H!Written("target", Head(todo).value)
        /\ cached' = [cached EXCEPT !.target = Head(todo).value]
        /\ todo' = Tail(todo) /\ doing' = (IF todo' = <<>> THEN "nothing" ELSE doing)
    BY DEF H!TargetConfirmed, H!Now, H!Value, H!Continue
  <1>2. device \in Plates /\ Coherent(device) /\ Believes
    BY DEF PlateInv, Believes
  <1>3. /\ doing \notin {"safe", "disconnect", "nothing"} /\ device.heat = FALSE
        /\ Tail(todo) \in {<<>>, <<Refresh, HeatOn>>}
    BY <1>1, PlateGoesOn, PlateExchanges
  <1>4. PICK t \in Temperatures : Head(todo) = Target(t)
    BY <1>1, PlateGoesOn, PlateExchanges
  <1>5. device' = H!Written("target", t)
    BY <1>1, <1>4, PlateExchanges
  <1>6. device' \in Plates /\ Coherent(device)' /\ device'.heat = FALSE
    BY <1>2, <1>3, <1>5, PlateWritten DEF Coherent
  <1>7. Believes'
    BY <1>1, <1>2 DEF Believes
  <1>8. Proceeds(todo)'
    BY <1>1, <1>3 DEF Proceeds
  <1>9. PlateInv'
    BY <1>1, <1>3, <1>6, <1>7, <1>8 DEF PlateInv, Believes
  <1> QED
    BY <1>3, <1>6, <1>9 DEF PlateGoal, H!StartsWithinLimit, H!PlateIsToldOn, H!Over

LEMMA PlateNotTargeted ==
  ASSUME PlateInv, H!TargetNotConfirmed
  PROVE  PlateGoal
  <1>1. /\ todo # <<>> /\ Head(todo).register = "target"
        /\ device' \in {device, H!Written("target", Head(todo).value)}
        /\ cached' = [cached EXCEPT !.target = Unknown]
        /\ todo' = <<>> /\ doing' = "nothing"
    BY DEF H!TargetNotConfirmed, H!Now, H!Value, H!Raise, H!Raised
  <1>2. device \in Plates /\ Coherent(device) /\ Believes
    BY DEF PlateInv, Believes
  <1>3. doing \notin {"safe", "disconnect", "nothing"} /\ device.heat = FALSE
    BY <1>1, PlateGoesOn, PlateExchanges
  <1>4. PICK t \in Temperatures : Head(todo) = Target(t)
    BY <1>1, PlateGoesOn, PlateExchanges
  <1>5. device' \in {device, H!Written("target", t)}
    BY <1>1, <1>4, PlateExchanges
  <1>6. device' \in Plates /\ Coherent(device)' /\ device'.heat = FALSE
    BY <1>2, <1>3, <1>5, PlateWritten DEF Coherent
  <1>7. Believes'
    BY <1>1, <1>2 DEF Believes
  <1> QED
    BY <1>1, <1>3, <1>6, <1>7, PlateEnds DEF PlateGoal, H!StartsWithinLimit, H!PlateIsToldOn, H!Over

LEMMA PlateCloses ==
  ASSUME PlateInv, H!PortClosed
  PROVE  PlateGoal
  <1>1. /\ todo # <<>> /\ Head(todo).register = "close" /\ UNCHANGED device
        /\ cached' = H!NothingKnown /\ todo' = <<>> /\ doing' = "nothing"
    BY DEF H!PortClosed, H!Now, H!Continue
  <1>2. doing # "safe"
    BY <1>1, PlateGoesOn, PlateExchanges
  <1>3. Believes' /\ device' \in Plates /\ Coherent(device)'
    BY <1>1 DEF H!NothingKnown, H!Believing, Believes, PlateInv, Coherent
  <1> QED
    BY <1>1, <1>2, <1>3, PlateEnds DEF PlateGoal, H!StartsWithinLimit, H!PlateIsToldOn, H!Over

(* The front panel, and what takes a single exchange. *)
LEMMA PlateSingle ==
  ASSUME PlateInv,
         \/ H!Panel
         \/ \E ok \in BOOLEAN : H!Connect(ok) \/ H!Poll(ok)
         \/ \E l \in Limits, ok \in BOOLEAN : H!SetRunLimit(l, ok)
  PROVE  PlateGoal
  <1>1. ASSUME doing = "nothing", UNCHANGED <<doing, todo>>, device' \in Plates, Coherent(device)', Believes'
        PROVE  PlateGoal
    <2>1. todo' = <<>> /\ doing' = "nothing"
      BY <1>1 DEF PlateInv
    <2> QED
      BY <1>1, <2>1, PlateEnds DEF PlateGoal, H!StartsWithinLimit, H!PlateIsToldOn, H!Over, H!Idle
  <1>2. device \in Plates /\ Coherent(device) /\ Believes
    BY DEF PlateInv, Believes
  <1>3. CASE H!Panel
    <2>1. doing = "nothing" /\ UNCHANGED <<doing, todo, cached>> /\ device' \in Plates /\ Coherent(device)'
      BY <1>3 DEF H!Panel, H!Idle, H!opVars, Plates, Coherent
    <2>2. Believes'
      BY <1>2, <2>1 DEF Believes
    <2> QED
      BY <1>1, <2>1, <2>2
  <1>4. ASSUME doing = "nothing", UNCHANGED <<doing, todo, device>>,
               cached' \in {cached, H!Known, H!NothingKnown}
               \/ \E l \in Limits : cached' \in {[H!Known EXCEPT !.limit = l], [cached EXCEPT !.limit = l]}
        PROVE  PlateGoal
    <2>1. device' \in Plates /\ Coherent(device)'
      BY <1>2, <1>4 DEF Coherent
    <2>2. ASSUME NEW h, NEW s1, NEW a, NEW l, cached' = [heat |-> h, stir |-> s1, target |-> a, limit |-> l]
          PROVE  Believes'
      BY <2>2 DEF Believes
    <2>3. H!Known = [heat |-> H!Known.heat, stir |-> H!Known.stir, target |-> H!Known.target, limit |-> cached.limit]
      BY DEF H!Known, H!Believing
    <2>4. H!NothingKnown = [heat |-> Unknown, stir |-> Unknown, target |-> Unknown, limit |-> cached.limit]
      BY DEF H!NothingKnown, H!Believing
    <2>5. ASSUME NEW l \in Limits, cached' \in {[H!Known EXCEPT !.limit = l], [cached EXCEPT !.limit = l]}
          PROVE  Believes'
      BY <1>2, <2>3, <2>5 DEF Believes
    <2>6. Believes'
      BY <1>2, <1>4, <2>2, <2>3, <2>4, <2>5 DEF Believes
    <2> QED
      BY <1>1, <1>4, <2>1, <2>6
  <1>5. ASSUME NEW ok \in BOOLEAN, H!Connect(ok) \/ H!Poll(ok) PROVE PlateGoal
    <2>1. /\ doing = "nothing" /\ UNCHANGED <<doing, todo, device>>
          /\ cached' \in {H!Known, H!NothingKnown}
      BY <1>5 DEF H!Connect, H!Poll, H!Single, H!Idle, H!opVars, H!Refreshes, H!RefreshRaises
    <2> QED
      BY <1>4, <2>1
  <1>6. ASSUME NEW l \in Limits, NEW ok \in BOOLEAN, H!SetRunLimit(l, ok) PROVE PlateGoal
    <2>1. /\ doing = "nothing" /\ UNCHANGED <<doing, todo, device>>
          /\ cached' \in {H!NothingKnown, [H!Known EXCEPT !.limit = l], [cached EXCEPT !.limit = l]}
      BY <1>6 DEF H!SetRunLimit, H!Single, H!Idle, H!opVars
    <2> QED
      BY <1>4, <2>1
  <1> QED
    BY <1>3, <1>5, <1>6

LEMMA PlateStep ==
  ASSUME PlateInv, H!PlateNext \/ UNCHANGED vars
  PROVE  PlateInv' /\ H!StartsWithinLimit /\ H!PlateIsToldOn
  <1>1. CASE UNCHANGED vars
    <2>1. UNCHANGED <<device, cached, doing, todo, raised>>
      BY <1>1, Zenon DEF vars
    <2>2. Proceeds(todo) => Proceeds(todo)'
      BY <2>1 DEF Proceeds
    <2>3. PlateInv'
      BY <2>1, <2>2 DEF PlateInv, Coherent
    <2> QED
      BY <2>1, <2>3 DEF H!StartsWithinLimit, H!PlateIsToldOn, H!Over
  <1>2. CASE \/ \E t \in Temperatures : H!SetTarget(t)
             \/ H!Start \/ H!StartStirring \/ H!SafeState \/ H!Disconnect
             \/ \E switch \in {"heat", "stir"} : H!Stop(switch)
    BY <1>2, PlateOperations DEF H!StartsWithinLimit, H!PlateIsToldOn, H!Over, H!Idle
  <1>3. CASE \/ H!Panel
             \/ \E ok \in BOOLEAN : H!Connect(ok) \/ H!Poll(ok)
             \/ \E l \in Limits, ok \in BOOLEAN : H!SetRunLimit(l, ok)
    BY <1>3, PlateSingle DEF PlateGoal
  <1>4. CASE \/ H!RefreshedFirst \/ H!NotRefreshed \/ H!Decide \/ H!PortClosed
             \/ H!TargetConfirmed \/ H!TargetNotConfirmed
    BY <1>4, PlateRefreshed, PlateNotRefreshed, PlateDecides, PlateCloses, PlateTargeted, PlateNotTargeted
       DEF PlateGoal
  <1>5. ASSUME NEW switch \in {"heat", "stir"}, H!SwitchConfirmed(switch) \/ H!SwitchNotConfirmed(switch)
        PROVE  PlateGoal
    BY <1>5, PlateSwitched, PlateNotSwitched
  <1> QED
    BY <1>1, <1>2, <1>3, <1>4, <1>5 DEF H!PlateNext, PlateGoal


(***************************************************************************)
(* The settings of heating controllers.                                    *)
(***************************************************************************)

(* What is read of a controller is what its registers hold. *)
IsOfRegisters(settings) == settings = [r \in T!Registers |-> settings[r]]

HeaterInv ==
  /\ registers = [d \in Controllers |-> registers[d]]
  /\ \A d \in Controllers : IsOfRegisters(registers[d])
  /\ autotune = [d \in Controllers |-> autotune[d]]
  /\ controller \in Controllers /\ IsOfRegisters(snapshot)

LEMMA SettingsOfRegisters ==
  ASSUME NEW settings \in T!Settings
  PROVE  IsOfRegisters(settings)
  BY DEF IsOfRegisters, T!Settings, T!Registers

LEMMA HeaterWrote ==
  ASSUME HeaterInv, NEW changed, NEW v, T!Wrote(changed, v)
  PROVE  /\ registers' = [d \in Controllers |-> registers'[d]]
         /\ \A d \in Controllers : IsOfRegisters(registers'[d])
         /\ \A d \in Controllers \ {controller} : registers'[d] = registers[d]
         /\ \A r \in T!Registers \ changed : registers'[controller][r] = registers[controller][r]
  <1>1. PICK kept \in SUBSET changed :
           registers' = [registers EXCEPT ![controller] =
                            [r \in T!Registers |-> IF r \in kept THEN v[r] ELSE registers[controller][r]]]
    BY DEF T!Wrote
  <1> DEFINE those == [r \in T!Registers |-> IF r \in kept THEN v[r] ELSE registers[controller][r]]
  <1>2. IsOfRegisters(those) /\ \A r \in T!Registers \ changed : those[r] = registers[controller][r]
    BY DEF IsOfRegisters
  <1>3. registers' = [d \in Controllers |-> IF d = controller THEN those ELSE registers[d]]
    BY <1>1 DEF HeaterInv
  <1> HIDE DEF those
  <1> QED
    BY <1>2, <1>3 DEF HeaterInv

LEMMA HeaterStep ==
  ASSUME HeaterInv, T!HeaterNext \/ UNCHANGED heaterVars
  PROVE  HeaterInv' /\ T!SettingsAreAsTold
  <1>1. T!SettingsAreAsTold
    <2>1. ASSUME NEW rereads \in BOOLEAN, T!Apply(TRUE, rereads), told' = "applied"
          PROVE  /\ \A d \in Controllers \ {controller} : registers'[d] = registers[d]
                 /\ \A r \in T!Registers :
                       registers'[controller][r] = IF r \in T!Changes THEN entries[r] ELSE registers[controller][r]
      <3>1. T!Wrote(T!Changes, entries) /\ T!ReadsBack(T!Changes, entries)
        BY <2>1 DEF T!Apply, T!Applies, T!Tell
      <3> QED
        BY <3>1, HeaterWrote DEF T!ReadsBack
    <2>2. ASSUME NEW rereads \in BOOLEAN, T!RestoreSnapshot(TRUE, rereads), told' = "restored"
          PROVE  registers'[controller] = snapshot
      <3>1. T!Wrote(T!Differing, snapshot) /\ T!ReadsBack(T!Differing, snapshot)
        BY <2>2 DEF T!RestoreSnapshot, T!Tell
      <3>2. \A r \in T!Registers : registers'[controller][r] = snapshot[r]
        BY <3>1, HeaterWrote DEF T!ReadsBack, T!Differing
      <3>3. IsOfRegisters(registers'[controller]) /\ IsOfRegisters(snapshot)
        BY <3>1, HeaterWrote DEF HeaterInv
      <3> QED
        BY <3>2, <3>3 DEF IsOfRegisters
    <2> QED
      BY <2>1, <2>2 DEF T!SettingsAreAsTold
  <1>2. ASSUME registers' = [d \in Controllers |-> registers'[d]], \A d \in Controllers : IsOfRegisters(registers'[d]),
               UNCHANGED autotune, controller' \in Controllers, IsOfRegisters(snapshot')
        PROVE  HeaterInv'
    BY <1>2 DEF HeaterInv, IsOfRegisters
  <1>3. ASSUME UNCHANGED <<registers, autotune>>, controller' \in Controllers, IsOfRegisters(snapshot')
        PROVE  HeaterInv'
    BY <1>2, <1>3 DEF HeaterInv
  <1>4. ASSUME registers' = registers, autotune' = autotune, controller' = controller, snapshot' = snapshot
        PROVE  HeaterInv'
    BY <1>3, <1>4 DEF HeaterInv
  <1>5. ASSUME NEW changed, NEW v, T!Wrote(changed, v), UNCHANGED <<autotune, controller, snapshot>>
        PROVE  HeaterInv'
    BY <1>2, <1>5, HeaterWrote DEF HeaterInv
  <1>6. ASSUME UNCHANGED heaterVars PROVE HeaterInv'
    <2>1. UNCHANGED <<registers, autotune, controller, snapshot>>
      BY <1>6, Zenon DEF heaterVars
    <2> QED
      BY <1>4, <2>1
  <1>7. ASSUME NEW d \in Controllers, T!SetAtPanel(d) PROVE HeaterInv'
    <2>1. PICK settings \in T!Settings : registers' = [registers EXCEPT ![d] = settings]
      BY <1>7 DEF T!SetAtPanel
    <2>2. UNCHANGED <<autotune, controller, snapshot>>
      BY <1>7 DEF T!SetAtPanel
    <2> QED
      BY <1>2, <2>1, <2>2, SettingsOfRegisters DEF HeaterInv
  <1>8. ASSUME NEW d \in Controllers, NEW a, T!SetTarget(d, a) PROVE HeaterInv'
    <2>1. registers' = [registers EXCEPT ![d].target = a] /\ UNCHANGED <<autotune, controller, snapshot>>
      BY <1>8 DEF T!SetTarget
    <2>2. IsOfRegisters([registers[d] EXCEPT !.target = a])
      <3>1. IsOfRegisters(registers[d])
        BY DEF HeaterInv
      <3> QED
        BY <3>1 DEF IsOfRegisters
    <2>3. registers' = [b \in Controllers |-> IF b = d THEN [registers[d] EXCEPT !.target = a] ELSE registers[b]]
      BY <2>1 DEF HeaterInv
    <2> QED
      BY <1>2, <2>1, <2>2, <2>3 DEF HeaterInv
  <1>9. ASSUME NEW d \in Controllers, T!SafeState(d) \/ T!AutotuneEnds(d) \/ T!Choose(d)
        PROVE  HeaterInv'
    <2>1. CASE T!SafeState(d)
      BY <1>8, <2>1 DEF T!SafeState
    <2>2. CASE T!Choose(d)
      BY <1>3, <2>2 DEF T!Choose, HeaterInv
    <2>3. CASE T!AutotuneEnds(d)
      <3>1. PICK end \in {"off", "failed"} : autotune' = [autotune EXCEPT ![d] = end]
        BY <2>3 DEF T!AutotuneEnds
      <3>2. UNCHANGED <<registers, controller, snapshot>>
        BY <2>3 DEF T!AutotuneEnds
      <3> QED
        BY <3>1, <3>2 DEF HeaterInv, IsOfRegisters
    <2> QED
      BY <1>9, <2>1, <2>2, <2>3
  <1>10. ASSUME NEW r, NEW v, T!Edit(r, v) PROVE HeaterInv'
    BY <1>4, <1>10 DEF T!Edit
  <1>11. ASSUME NEW ok \in BOOLEAN, NEW rereads \in BOOLEAN,
                T!Apply(ok, rereads) \/ T!StartAutotune(ok, rereads)
         PROVE  HeaterInv'
    <2>1. T!Applies(ok, rereads) /\ UNCHANGED <<autotune, controller, snapshot>>
      BY <1>11 DEF T!Apply, T!StartAutotune
    <2>2. T!Wrote(T!Changes, entries) \/ UNCHANGED registers
      BY <2>1 DEF T!Applies, T!NothingWritten
    <2> QED
      BY <1>4, <1>5, <2>1, <2>2
  <1>12. ASSUME NEW ok \in BOOLEAN, NEW rereads \in BOOLEAN, T!RestoreSnapshot(ok, rereads)
         PROVE  HeaterInv'
    <2>1. UNCHANGED <<autotune, controller, snapshot>>
      BY <1>12 DEF T!RestoreSnapshot
    <2>2. T!Wrote(T!Differing, snapshot) \/ UNCHANGED registers
      BY <1>12 DEF T!RestoreSnapshot, T!NothingWritten
    <2> QED
      BY <1>4, <1>5, <2>1, <2>2
  <1>13. ASSUME NEW ok \in BOOLEAN, T!Refresh(ok) \/ T!PollAutotune(ok) PROVE HeaterInv'
    BY <1>4, <1>13 DEF T!Refresh, T!PollAutotune
  <1>14. ASSUME T!AutotuneNotAccepted \/ \E ok \in BOOLEAN : T!AutotuneAccepted(ok) PROVE HeaterInv'
    <2>1. /\ UNCHANGED <<registers, controller, snapshot>>
          /\ \/ UNCHANGED autotune
             \/ /\ permitted /\ registers[controller].fit = 1
                /\ autotune' = [autotune EXCEPT ![controller] = "running"]
      BY <1>14 DEF T!AutotuneNotAccepted, T!AutotuneAccepted
    <2>2. ASSUME autotune' = autotune PROVE HeaterInv'
      BY <1>4, <2>1, <2>2
    <2>3. ASSUME autotune' # autotune PROVE HeaterInv'
      BY <2>1, <2>3 DEF HeaterInv, IsOfRegisters
    <2> QED
      BY <2>2, <2>3
  <1>15. ASSUME T!OpenOrClose \/ T!Reopen PROVE HeaterInv'
    <2>1. registers' = registers /\ autotune' = autotune /\ controller' = controller /\ snapshot' = snapshot
      BY <1>15 DEF T!OpenOrClose, T!Reopen
    <2> QED
      BY <1>4, <2>1
  <1>16. ASSUME T!SaveSnapshot PROVE HeaterInv'
    BY <1>3, <1>16 DEF T!SaveSnapshot, HeaterInv
  <1>17. T!HeaterNext => HeaterInv'
    BY <1>7, <1>8, <1>9, <1>10, <1>11, <1>12, <1>13, <1>14, <1>15, <1>16 DEF T!HeaterNext
  <1> QED
    BY <1>1, <1>6, <1>17


(***************************************************************************)
(* The monitor of memory.                                                  *)
(***************************************************************************)

(* Only the thread that is over has said so. *)
MemoryInv == logged = "stopped" => thread = "over"

LEMMA MemoryStep ==
  ASSUME MemoryInv, M!HealthNext \/ UNCHANGED memoryVars
  PROVE  MemoryInv' /\ M!StaysStopped
  <1> USE DEF MemoryInv, M!StaysStopped
  <1>1. CASE UNCHANGED memoryVars
    BY <1>1, Zenon DEF memoryVars
  <1>2. CASE M!Start
    <2>1. thread = "none" /\ logged' = logged
      BY <1>2 DEF M!Start
    <2> QED
      BY <2>1
  <1>3. CASE M!RequestStop \/ M!ThreadEnds \/ M!NewMonitor
    <2>1. (logged' = logged /\ thread' = thread) \/ (logged' = logged /\ thread = "running")
          \/ (logged' = Nothing /\ thread' = "none")
      BY <1>3 DEF M!RequestStop, M!ThreadEnds, M!NewMonitor
    <2> QED
      BY <2>1, NothingAssumption DEF NothingAssumption
  <1>4. CASE M!SampleFails
    BY <1>4 DEF M!SampleFails, M!Around
  <1>5. ASSUME NEW a, NEW b, M!Sample(a, b) PROVE MemoryInv' /\ M!StaysStopped
    <2>1. thread \in {"starting", "running"}
      BY <1>5 DEF M!Sample, M!Around
    <2>2. logged' \in {"started", "sample"}
      BY <1>5 DEF M!Sample, M!WriteSample
    <2> QED
      BY <2>1, <2>2
  <1>6. ASSUME NEW a, NEW b, M!Stopped(a, b) PROVE MemoryInv' /\ M!StaysStopped
    BY <1>6 DEF M!Stopped, M!WriteSample
  <1> QED
    BY <1>1, <1>2, <1>3, <1>4, <1>5, <1>6 DEF M!HealthNext

(***************************************************************************)
(* The set-up and reading of an Alicat.                                    *)
(***************************************************************************)

(* What is checked is a controller exactly if the instrument is one; what was read of its
   configuration is kept as long as it is connected, and a frame is shown only after. *)
AlicatInv ==
  /\ unit \in A!Units
  /\ form = "checking" => probed # Nothing /\ (probed.kind = "meter" <=> unit.loop = "none")
  /\ reading => form = "closed"
  /\ ~reading => conf = Nothing /\ shown = Nothing
  /\ shown # Nothing /\ conf = Nothing => saved.kind = "meter"
  /\ conf # Nothing => saved.kind # "meter"
  /\ conf # Nothing /\ ~reordered => conf.columns \in {unit.frame, Nothing}
  /\ A!NamedAsDescribed

LEMMA AlicatProbes ==
  ASSUME unit \in A!Units, NEW described, NEW asked, A!Probe(described, asked) # Nothing
  PROVE  A!Probe(described, asked).kind = "meter" <=> unit.loop = "none"
  <1> DEFINE columns == IF described THEN A!Layout(unit) ELSE Nothing
             fields == IF columns = Nothing \/ ~A!IsController(columns) THEN A!Default ELSE columns
  <1>1. A!IsController(unit.frame) <=> unit.loop # "none"
    BY DEF A!Units
  <1>2. columns \in {unit.frame, Nothing}
    BY DEF A!Layout
  <1>3. A!Role(unit) \in {"bpr", "mfc", Nothing}
    BY DEF A!Role
  <1>4. /\ unit.loop # "none" /\ asked => /\ A!Role(unit) # Nothing
                                          /\ A!Probe(described, asked) = A!Found(A!Role(unit), fields)
        /\ ~(unit.loop # "none" /\ asked) => /\ columns # Nothing /\ ~A!IsController(columns)
                                             /\ A!Probe(described, asked) = A!Found("meter", columns)
    BY DEF A!Probe
  <1> HIDE DEF columns, fields
  <1>5. CASE unit.loop # "none" /\ asked
    <2>1. A!Role(unit) \in {"bpr", "mfc"} /\ A!Probe(described, asked) = A!Found(A!Role(unit), fields)
      BY <1>3, <1>4, <1>5
    <2>2. A!Probe(described, asked).kind = A!Role(unit)
      BY <2>1 DEF A!Found
    <2> QED
      BY <1>5, <2>1, <2>2
  <1>6. CASE ~(unit.loop # "none" /\ asked)
    BY <1>1, <1>2, <1>4, <1>6 DEF A!Found
  <1> QED
    BY <1>5, <1>6

LEMMA AlicatVerified ==
  ASSUME AlicatInv, A!Verified, UNCHANGED <<unit, saved>>, saved.kind # "meter"
  PROVE  /\ conf' # Nothing
         /\ ~reordered' => conf'.columns \in {unit.frame, Nothing}
         /\ conf # Nothing => UNCHANGED <<conf, reordered>>
  <1>1. A!Full # Nothing /\ A!Full.columns \in {unit.frame, Nothing}
    <2>1. unit.frame \in Frames /\ A!Unsupported(unit) \in BOOLEAN
      BY DEF A!Units, AlicatInv, A!Unsupported
    <2>2. A!Layout(unit) \in {unit.frame, Nothing}
      BY DEF A!Layout
    <2> QED
      BY <2>1, <2>2, NothingAssumption DEF A!Full, NothingAssumption
  <1> QED
    BY <1>1 DEF A!Verified, AlicatInv

LEMMA AlicatStep ==
  ASSUME AlicatInv, A!SetupNext \/ UNCHANGED setupVars
  PROVE  AlicatInv' /\ A!SavedAsItIs
  <1>1. CASE UNCHANGED setupVars
    <2>1. UNCHANGED <<unit, form, probed, saved, reading, conf, shown, reordered>>
      BY <1>1, Zenon DEF setupVars
    <2> QED
      BY <2>1 DEF AlicatInv, A!NamedAsDescribed, A!SavedAsItIs, A!Named
  <1>2. CASE A!Reconfigure
    BY <1>2 DEF A!Reconfigure, AlicatInv, A!NamedAsDescribed, A!SavedAsItIs, A!Named
  <1>3. ASSUME UNCHANGED <<unit, reading, conf, shown, reordered>>, conf = Nothing, shown = Nothing, ~reading,
               form' = "checking" => probed' # Nothing /\ (probed'.kind = "meter" <=> unit.loop = "none")
        PROVE  AlicatInv'
    BY <1>3 DEF AlicatInv, A!NamedAsDescribed
  <1>4. form # "closed" => ~reading
    BY DEF AlicatInv
  <1>5. ~reading => conf = Nothing /\ shown = Nothing
    BY DEF AlicatInv
  <1>6. CASE A!OpenForm \/ A!CloseForm \/ A!Decline
    <2>1. UNCHANGED <<unit, reading, conf, shown, reordered, saved>> /\ ~reading /\ form' # "checking"
      BY <1>4, <1>6 DEF A!OpenForm, A!CloseForm, A!Decline, A!Form
    <2> QED
      BY <1>3, <1>5, <2>1 DEF A!SavedAsItIs
  <1>7. CASE A!RemoveDevice
    BY <1>3, <1>5, <1>7 DEF A!RemoveDevice, A!SavedAsItIs
  <1>8. ASSUME NEW acknowledged \in BOOLEAN, NEW described \in BOOLEAN, NEW asked \in BOOLEAN,
               A!Detect(acknowledged, described, asked)
        PROVE  AlicatInv' /\ A!SavedAsItIs
    <2>1. /\ UNCHANGED <<unit, reading, conf, shown, reordered, saved>> /\ form # "closed"
          /\ form' = "checking" => /\ A!Probe(described, asked) # Nothing
                                   /\ probed' = A!Probe(described, asked)
      BY <1>8 DEF A!Detect, A!Form
    <2>2. unit \in A!Units
      BY DEF AlicatInv
    <2> QED
      BY <1>3, <1>4, <1>5, <2>1, <2>2, AlicatProbes DEF A!SavedAsItIs
  <1>9. ASSUME NEW configured \in BOOLEAN, NEW readback \in BOOLEAN, NEW coincident \in BOOLEAN,
               A!Check(configured, readback, coincident)
        PROVE  AlicatInv' /\ A!SavedAsItIs
    <2>1. /\ UNCHANGED <<unit, reading, conf, shown, reordered>> /\ form = "checking" /\ form' # "checking"
          /\ saved' = saved \/ (saved' = probed /\ A!Confirmed(configured, readback, coincident))
      BY <1>9 DEF A!Check, A!Form
    <2>2. A!SavedAsItIs
      BY <2>1 DEF A!SavedAsItIs, A!Confirmed, AlicatInv
    <2> QED
      BY <1>3, <1>4, <1>5, <2>1, <2>2
  <1>10. ASSUME NEW answered1 \in BOOLEAN, NEW full \in BOOLEAN, A!Connect(answered1, full)
         PROVE  AlicatInv' /\ A!SavedAsItIs
    <2>1. /\ UNCHANGED <<unit, form, probed, saved, shown>> /\ form = "closed" /\ ~reading
          /\ \/ reading' /\ saved.kind # "meter" /\ conf' = A!Full /\ reordered' = FALSE
             \/ UNCHANGED <<conf, reordered>>
      BY <1>10 DEF A!Connect
    <2>2. A!SavedAsItIs
      BY <2>1 DEF A!SavedAsItIs
    <2>3. conf = Nothing /\ shown = Nothing
      BY <1>5, <2>1
    <2>4. CASE reading' /\ saved.kind # "meter" /\ conf' = A!Full /\ reordered' = FALSE
      <3>1. A!Full.columns \in {unit.frame, Nothing}
        BY DEF A!Full, A!Layout
      <3> QED
        BY <2>1, <2>2, <2>3, <2>4, <3>1 DEF AlicatInv, A!NamedAsDescribed
    <2>5. CASE UNCHANGED <<conf, reordered>>
      BY <2>1, <2>2, <2>3, <2>5 DEF AlicatInv, A!NamedAsDescribed
    <2> QED
      BY <2>1, <2>4, <2>5
  <1>11. CASE A!Disconnect
    BY <1>11 DEF A!Disconnect, AlicatInv, A!NamedAsDescribed, A!SavedAsItIs
  <1>12. CASE A!ReadMeter
    BY <1>12 DEF A!ReadMeter, A!Answers, AlicatInv, A!NamedAsDescribed, A!SavedAsItIs
  <1>13. CASE A!ReadController
    <2>1. /\ reading /\ UNCHANGED <<unit, form, probed, saved, reading>> /\ saved.kind # "meter" /\ A!Verified
          /\ conf'.columns \in {saved.fields, Nothing} /\ shown' = unit.frame
      BY <1>13 DEF A!ReadController, A!Matches, A!Answers
    <2>2. conf' # Nothing /\ (~reordered' => conf'.columns \in {unit.frame, Nothing})
      BY <2>1, AlicatVerified
    <2>3. A!NamedAsDescribed'
      BY <2>1, <2>2 DEF A!NamedAsDescribed, A!Named
    <2> QED
      BY <2>1, <2>2, <2>3 DEF AlicatInv, A!SavedAsItIs
  <1>14. CASE A!ReadFails
    <2>1. /\ reading /\ UNCHANGED <<unit, form, probed, saved, reading, shown>> /\ saved.kind # "meter"
          /\ A!Verified
      BY <1>14 DEF A!ReadFails
    <2>2. /\ conf' # Nothing /\ (~reordered' => conf'.columns \in {unit.frame, Nothing})
          /\ conf # Nothing => UNCHANGED <<conf, reordered>>
      BY <2>1, AlicatVerified
    <2>3. A!NamedAsDescribed'
      BY <2>1, <2>2 DEF A!NamedAsDescribed, A!Named, AlicatInv
    <2> QED
      BY <2>1, <2>2, <2>3 DEF AlicatInv, A!SavedAsItIs
  <1> QED
    BY <1>1, <1>2, <1>6, <1>7, <1>8, <1>9, <1>10, <1>11, <1>12, <1>13, <1>14 DEF A!SetupNext


(***************************************************************************)
(* Threads and completions of the screen.                                  *)
(***************************************************************************)

(* A kind in K is among these threads and completions. *)
Among(K, p, q) == (\E i \in 1..Len(p) : p[i] \in K) \/ (\E j \in 1..Len(q) : q[j] \in K)

OnceAmong(K, p, q) ==
  /\ \A i, j \in 1..Len(p) : p[i] \in K /\ p[j] \in K => i = j
  /\ \A i, j \in 1..Len(q) : q[i] \in K /\ q[j] \in K => i = j
  /\ \A i \in 1..Len(p), j \in 1..Len(q) : ~(p[i] \in K /\ q[j] \in K)

LEMMA WorkBegins ==
  ASSUME NEW X, NEW p \in Seq(X), NEW q \in Seq(X), NEW a \in X, NEW K
  PROVE  /\ Append(p, a) \in Seq(X) /\ Len(Append(p, a)) = Len(p) + 1 /\ O!Last(Append(p, a)) = a
         /\ Among(K, Append(p, a), q) <=> a \in K \/ Among(K, p, q)
         /\ OnceAmong(K, p, q) /\ (a \in K => ~Among(K, p, q)) => OnceAmong(K, Append(p, a), q)
  <1> DEFINE r == Append(p, a)
  <1>1. /\ r \in Seq(X) /\ Len(r) = Len(p) + 1 /\ Len(p) \in Nat
        /\ \A i \in 1..Len(p) : r[i] = p[i]
        /\ r[Len(p) + 1] = a
    BY AppendProperties, LenProperties
  <1> HIDE DEF r
  <1>2. O!Last(r) = a
    BY <1>1 DEF O!Last
  <1>3. Among(K, r, q) <=> a \in K \/ Among(K, p, q)
    <2>1. ASSUME NEW i \in 1..Len(r), r[i] \in K PROVE a \in K \/ Among(K, p, q)
      BY <1>1, <2>1 DEF Among
    <2>2. a \in K => Among(K, r, q)
      BY <1>1 DEF Among
    <2>3. Among(K, p, q) => Among(K, r, q)
      BY <1>1 DEF Among
    <2> QED
      BY <2>1, <2>2, <2>3 DEF Among
  <1>4. ASSUME OnceAmong(K, p, q), a \in K => ~Among(K, p, q) PROVE OnceAmong(K, r, q)
    BY <1>1, <1>4 DEF OnceAmong, Among
  <1> QED
    BY <1>1, <1>2, <1>3, <1>4 DEF r

LEMMA WorkCompletes ==
  ASSUME NEW X, NEW p \in Seq(X), NEW q \in Seq(X), q # <<>>, NEW K
  PROVE  /\ Tail(q) \in Seq(X) /\ Head(q) \in X
         /\ Among(K, p, q) <=> Head(q) \in K \/ Among(K, p, Tail(q))
         /\ OnceAmong(K, p, q) => /\ OnceAmong(K, p, Tail(q))
                                  /\ Head(q) \in K => ~Among(K, p, Tail(q))
  <1> DEFINE r == Tail(q)
  <1>1. /\ r \in Seq(X) /\ Head(q) \in X /\ Len(r) = Len(q) - 1 /\ Len(q) \in Nat /\ Len(q) # 0
        /\ \A i \in 1..Len(r) : r[i] = q[i + 1]
        /\ Head(q) = q[1]
    BY HeadTailProperties, LenProperties, EmptySeq
  <1> HIDE DEF r
  <1>2. Among(K, p, q) <=> Head(q) \in K \/ Among(K, p, r)
    <2>1. ASSUME NEW j \in 1..Len(q), q[j] \in K PROVE Head(q) \in K \/ Among(K, p, r)
      <3>1. CASE j = 1
        BY <1>1, <2>1, <3>1
      <3>2. CASE j # 1
        <4>1. j - 1 \in 1..Len(r) /\ r[j - 1] = q[j]
          BY <1>1, <3>2
        <4> QED
          BY <2>1, <4>1 DEF Among
      <3> QED
        BY <3>1, <3>2
    <2>2. Head(q) \in K => Among(K, p, q)
      BY <1>1 DEF Among
    <2>3. ASSUME NEW j \in 1..Len(r), r[j] \in K PROVE Among(K, p, q)
      <3>1. j + 1 \in 1..Len(q) /\ q[j + 1] = r[j]
        BY <1>1
      <3> QED
        BY <2>3, <3>1 DEF Among
    <2> QED
      BY <2>1, <2>2, <2>3 DEF Among
  <1>3. ASSUME OnceAmong(K, p, q) PROVE OnceAmong(K, p, r) /\ (Head(q) \in K => ~Among(K, p, r))
    <2>1. \A j \in 1..Len(r) : j + 1 \in 1..Len(q) /\ q[j + 1] = r[j]
      BY <1>1
    <2>2. \A i, j \in 1..Len(r) : r[i] \in K /\ r[j] \in K => i = j
      <3>1. ASSUME NEW i \in 1..Len(r), NEW j \in 1..Len(r), r[i] \in K, r[j] \in K PROVE i = j
        <4>1. i + 1 = j + 1
          BY <1>3, <2>1, <3>1 DEF OnceAmong
        <4> QED
          BY <4>1
      <3> QED
        BY <3>1
    <2>3. \A i \in 1..Len(p), j \in 1..Len(r) : ~(p[i] \in K /\ r[j] \in K)
      BY <1>3, <2>1 DEF OnceAmong
    <2>4. ASSUME Head(q) \in K, Among(K, p, r) PROVE FALSE
      <3>1. 1 \in 1..Len(q) /\ q[1] \in K
        BY <1>1, <2>4
      <3>2. ASSUME NEW i \in 1..Len(p), p[i] \in K PROVE FALSE
        BY <1>3, <3>1, <3>2 DEF OnceAmong
      <3>3. ASSUME NEW j \in 1..Len(r), r[j] \in K PROVE FALSE
        <4>1. j + 1 = 1
          BY <1>3, <2>1, <3>1, <3>3 DEF OnceAmong
        <4> QED
          BY <4>1
      <3> QED
        BY <2>4, <3>2, <3>3 DEF Among
    <2>5. OnceAmong(K, p, r)
      BY <1>3, <2>2, <2>3 DEF OnceAmong
    <2> QED
      BY <2>4, <2>5
  <1> QED
    BY <1>1, <1>2, <1>3 DEF r

LEMMA Removed ==
  ASSUME NEW X, NEW p \in Seq(X), NEW k \in 1..Len(p)
  PROVE  /\ O!RemoveAt(p, k) \in Seq(X) /\ Len(O!RemoveAt(p, k)) = Len(p) - 1
         /\ \A i \in 1..(Len(p) - 1) : O!RemoveAt(p, k)[i] = p[IF i < k THEN i ELSE i + 1]
  <1>1. Len(p) \in Nat /\ \A i \in 1..Len(p) : p[i] \in X
    BY LenProperties, ElementOfSeq
  <1> DEFINE b == SubSeq(p, 1, k - 1)
             c == SubSeq(p, k + 1, Len(p))
  <1>2. b \in Seq(X) /\ Len(b) = k - 1 /\ \A i \in 1..(k - 1) : b[i] = p[i]
    BY <1>1, SubSeqProperties
  <1>3. c \in Seq(X) /\ Len(c) = Len(p) - k /\ \A i \in 1..(Len(p) - k) : c[i] = p[k + i]
    BY <1>1, SubSeqProperties
  <1> HIDE DEF b, c
  <1>4. /\ b \o c \in Seq(X) /\ Len(b \o c) = Len(p) - 1
        /\ \A i \in 1..(Len(p) - 1) : (b \o c)[i] = IF i <= k - 1 THEN b[i] ELSE c[i - (k - 1)]
    <2>1. /\ b \o c \in Seq(X) /\ Len(b \o c) = Len(b) + Len(c)
          /\ \A i \in 1..(Len(b) + Len(c)) : (b \o c)[i] = IF i <= Len(b) THEN b[i] ELSE c[i - Len(b)]
      BY <1>2, <1>3, ConcatProperties
    <2>2. Len(b) + Len(c) = Len(p) - 1
      BY <1>1, <1>2, <1>3
    <2> QED
      BY <1>2, <2>1, <2>2
  <1>5. \A i \in 1..(Len(p) - 1) : (b \o c)[i] = p[IF i < k THEN i ELSE i + 1]
    BY <1>1, <1>2, <1>3, <1>4
  <1>6. O!RemoveAt(p, k) = b \o c
    BY DEF O!RemoveAt, b, c
  <1> QED
    BY <1>4, <1>5, <1>6

LEMMA WorkEnds ==
  ASSUME NEW X, NEW p \in Seq(X), NEW q \in Seq(X), NEW k \in 1..Len(p), NEW K
  PROVE  /\ O!RemoveAt(p, k) \in Seq(X) /\ Append(q, p[k]) \in Seq(X) /\ Len(O!RemoveAt(p, k)) < Len(p)
         /\ Among(K, O!RemoveAt(p, k), Append(q, p[k])) <=> Among(K, p, q)
         /\ OnceAmong(K, p, q) => OnceAmong(K, O!RemoveAt(p, k), Append(q, p[k]))
  <1> DEFINE b == O!RemoveAt(p, k)
             c == Append(q, p[k])
  <1>1. /\ Len(p) \in Nat /\ Len(q) \in Nat
        /\ b \in Seq(X) /\ Len(b) = Len(p) - 1
        /\ \A i \in 1..(Len(p) - 1) : b[i] = p[IF i < k THEN i ELSE i + 1]
    BY Removed, LenProperties
  <1>2. p[k] \in X
    BY ElementOfSeq
  <1>3. /\ c \in Seq(X) /\ Len(c) = Len(q) + 1
        /\ \A i \in 1..Len(q) : c[i] = q[i]
        /\ c[Len(q) + 1] = p[k]
    BY <1>2, AppendProperties
  <1> HIDE DEF b, c
  <1> DEFINE Was(i) == IF i < k THEN i ELSE i + 1
  <1>4. /\ \A i \in 1..Len(b) : Was(i) \in 1..Len(p) /\ Was(i) # k /\ b[i] = p[Was(i)]
        /\ \A i, j \in 1..Len(b) : Was(i) = Was(j) => i = j
        /\ \A i \in 1..Len(p) : i # k => \E j \in 1..Len(b) : Was(j) = i
    <2>1. ASSUME NEW i \in 1..Len(p), i # k PROVE \E j \in 1..Len(b) : Was(j) = i
      <3>1. CASE i < k
        BY <1>1, <3>1
      <3>2. CASE i > k
        <4>1. i - 1 \in 1..Len(b) /\ Was(i - 1) = i
          BY <1>1, <3>2
        <4> QED
          BY <4>1
      <3> QED
        BY <1>1, <2>1, <3>1, <3>2
    <2>2. \A i \in 1..Len(b) : Was(i) \in 1..Len(p) /\ Was(i) # k /\ b[i] = p[Was(i)]
      BY <1>1
    <2>3. \A i, j \in 1..Len(b) : Was(i) = Was(j) => i = j
      BY <1>1
    <2> QED
      BY <2>1, <2>2, <2>3
  <1> HIDE DEF Was
  <1>5. \A j \in 1..Len(c) : (j \in 1..Len(q) /\ c[j] = q[j]) \/ (j = Len(q) + 1 /\ c[j] = p[k])
    BY <1>1, <1>3
  <1>6. 1..Len(q) \subseteq 1..Len(c) /\ Len(q) + 1 \in 1..Len(c) /\ Len(q) + 1 \notin 1..Len(q)
    BY <1>1, <1>3
  <1>7. Among(K, b, c) <=> Among(K, p, q)
    <2>1. ASSUME NEW i \in 1..Len(b), b[i] \in K PROVE Among(K, p, q)
      BY <1>4, <2>1 DEF Among
    <2>2. ASSUME NEW j \in 1..Len(c), c[j] \in K PROVE Among(K, p, q)
      BY <1>5, <2>2 DEF Among
    <2>3. ASSUME NEW i \in 1..Len(p), p[i] \in K PROVE Among(K, b, c)
      <3>1. CASE i = k
        BY <1>3, <1>6, <2>3, <3>1 DEF Among
      <3>2. CASE i # k
        BY <1>4, <2>3, <3>2 DEF Among
      <3> QED
        BY <3>1, <3>2
    <2>4. ASSUME NEW j \in 1..Len(q), q[j] \in K PROVE Among(K, b, c)
      BY <1>3, <1>6, <2>4 DEF Among
    <2> QED
      BY <2>1, <2>2, <2>3, <2>4 DEF Among
  <1>8. ASSUME OnceAmong(K, p, q) PROVE OnceAmong(K, b, c)
    <2>1. ASSUME NEW i \in 1..Len(b), NEW j \in 1..Len(b), b[i] \in K, b[j] \in K PROVE i = j
      <3>1. Was(i) = Was(j)
        BY <1>4, <1>8, <2>1 DEF OnceAmong
      <3> QED
        BY <1>4, <3>1
    <2>2. ASSUME NEW i \in 1..Len(c), NEW j \in 1..Len(c), c[i] \in K, c[j] \in K PROVE i = j
      BY <1>5, <1>8, <2>2 DEF OnceAmong
    <2>3. ASSUME NEW i \in 1..Len(b), NEW j \in 1..Len(c), b[i] \in K, c[j] \in K PROVE FALSE
      BY <1>4, <1>5, <1>8, <2>3 DEF OnceAmong
    <2> QED
      BY <2>1, <2>2, <2>3 DEF OnceAmong
  <1> QED
    BY <1>1, <1>3, <1>7, <1>8 DEF b, c

LEMMA WorkUnderway ==
  ASSUME NEW X, NEW p \in Seq(X), NEW q \in Seq(X)
  PROVE  /\ (\E a \in X : O!Contains(p, a) \/ O!Contains(q, a)) <=> Among(X, p, q)
         /\ ~Among(X, p, q) => p = <<>> /\ q = <<>>
         /\ \A K, L : X = K \cup L => (Among(X, p, q) <=> Among(K, p, q) \/ Among(L, p, q))
  <1>1. /\ Len(p) \in Nat /\ Len(q) \in Nat
        /\ \A i \in 1..Len(p) : p[i] \in X
        /\ \A i \in 1..Len(q) : q[i] \in X
    BY LenProperties, ElementOfSeq
  <1>2. (\E a \in X : O!Contains(p, a) \/ O!Contains(q, a)) <=> Among(X, p, q)
    BY <1>1 DEF O!Contains, Among
  <1>3. ASSUME ~Among(X, p, q) PROVE p = <<>> /\ q = <<>>
    <2>1. Len(p) = 0 /\ Len(q) = 0
      BY <1>1, <1>3 DEF Among
    <2> QED
      BY <2>1, EmptySeq
  <1>4. ASSUME NEW K, NEW L, X = K \cup L PROVE Among(X, p, q) <=> Among(K, p, q) \/ Among(L, p, q)
    BY <1>1, <1>4 DEF Among
  <1> QED
    BY <1>2, <1>3, <1>4

(***************************************************************************)
(* The screen.                                                             *)
(***************************************************************************)

Orders == {"order", "closing"}
Files == {"exports", "workbook"}
Asks == [ask : {"anyway", "stop"}, from : {"button", "tick"}, force : BOOLEAN]

(* A question that may close without force, and after which nothing may be under way. *)
Unforced(ask) == ask.ask = "stop" /\ ~ask.force

ScreenTypeOK ==
  /\ jobs \in Seq(O!JobKinds) /\ results \in Seq(O!JobKinds) /\ questions \in Seq(Asks)
  /\ acting \in {"order", "closing", Nothing} /\ finalising \in BOOLEAN /\ pending \in BOOLEAN
  /\ live \in BOOLEAN /\ closed \in BOOLEAN /\ forced \in BOOLEAN /\ overtaken \in BOOLEAN

(* What the screen says is in progress, is: exactly one order, until closing is forced, and
   one thread for the exports. *)
ScreenInv ==
  /\ ScreenTypeOK
  /\ OnceAmong(Files, jobs, results) /\ (Among(Files, jobs, results) <=> finalising)
  /\ ~forced => OnceAmong(Orders, jobs, results) /\ (Among(Orders, jobs, results) => acting # Nothing)
  /\ acting # Nothing => Among(Orders, jobs, results)
  /\ pending /\ ~closed /\ ~overtaken => Among(O!JobKinds, jobs, results)
  /\ ~forced => \A k \in 1..Len(questions) :
                   Unforced(questions[k]) => k = Len(questions) /\ acting = Nothing /\ ~finalising

ScreenGoal == ScreenInv' /\ O!ClosesAfterItsWork

LEMMA Kinds4 ==
  /\ O!JobKinds = Orders \cup Files /\ "order" \in Orders /\ "closing" \in Orders
  /\ "exports" \in Files /\ "workbook" \in Files
  /\ "order" \notin Files /\ "closing" \notin Files /\ "exports" \notin Orders /\ "workbook" \notin Orders
  /\ {"order", "closing", "exports", "workbook"} \subseteq O!JobKinds
  BY DEF O!JobKinds, Orders, Files

LEMMA Parts ==
  ASSUME NEW p \in Seq(O!JobKinds), NEW q \in Seq(O!JobKinds)
  PROVE  Among(O!JobKinds, p, q) <=> Among(Orders, p, q) \/ Among(Files, p, q)
  BY WorkUnderway, Kinds4

(* A question is the last one, or one of those before. *)
LEMMA AskedLast ==
  ASSUME questions # <<>>, questions \in Seq(Asks)
  PROVE  /\ Len(questions) \in 1..Len(questions)
         /\ O!Last(questions) = questions[Len(questions)] /\ O!Last(questions) \in Asks
         /\ O!Front(questions) \in Seq(Asks)
         /\ \A k \in 1..Len(O!Front(questions)) :
               O!Front(questions)[k] = questions[k] /\ k \in 1..Len(questions) /\ k # Len(questions)
  <1>1. Len(questions) \in Nat /\ Len(questions) # 0 /\ \A k \in 1..Len(questions) : questions[k] \in Asks
    BY LenProperties, ElementOfSeq, EmptySeq
  <1> DEFINE b == SubSeq(questions, 1, Len(questions) - 1)
  <1>2. \A k \in 1..(Len(questions) - 1) : questions[k] \in Asks
    BY <1>1
  <1>3. /\ b \in Seq(Asks) /\ Len(b) = Len(questions) - 1
        /\ \A k \in 1..(Len(questions) - 1) : b[k] = questions[k]
    <2> DEFINE n == Len(questions) - 1
    <2>1. n \in Nat /\ \A k \in 1..n : questions[k] \in Asks
      BY <1>1, <1>2
    <2> HIDE DEF n
    <2>2. /\ SubSeq(questions, 1, n) \in Seq(Asks) /\ Len(SubSeq(questions, 1, n)) = n
          /\ \A k \in 1..n : SubSeq(questions, 1, n)[k] = questions[k]
      <3>1. /\ SubSeq(questions, 1, n) \in Seq(Asks)
            /\ Len(SubSeq(questions, 1, n)) = IF 1 <= n THEN n - 1 + 1 ELSE 0
            /\ \A k \in 1..(n - 1 + 1) : SubSeq(questions, 1, n)[k] = questions[1 + k - 1]
        BY <2>1, SubSeqProperties
      <3>2. n - 1 + 1 = n /\ \A k \in 1..n : 1 + k - 1 = k
        BY <2>1
      <3> QED
        BY <2>1, <3>1, <3>2
    <2> QED
      BY <2>2 DEF n
  <1>4. O!Front(questions) = b
    BY DEF O!Front
  <1> HIDE DEF b
  <1>5. \A k \in 1..(Len(questions) - 1) : k \in 1..Len(questions) /\ k # Len(questions)
    BY <1>1
  <1>6. Len(questions) \in 1..Len(questions) /\ O!Last(questions) \in Asks
    BY <1>1 DEF O!Last
  <1> QED
    BY <1>3, <1>4, <1>5, <1>6 DEF O!Last

(* Nothing is added to what is in progress. *)
LEMMA ScreenKeeps ==
  ASSUME ScreenInv, UNCHANGED <<acting, finalising, forced, closed, overtaken, questions>>,
         live' \in BOOLEAN, pending' \in BOOLEAN, pending' => pending,
         jobs' \in Seq(O!JobKinds), results' \in Seq(O!JobKinds), Len(jobs') <= Len(jobs),
         OnceAmong(Files, jobs, results) => OnceAmong(Files, jobs', results'),
         Among(Files, jobs', results') <=> Among(Files, jobs, results),
         OnceAmong(Orders, jobs, results) => OnceAmong(Orders, jobs', results'),
         Among(Orders, jobs', results') <=> Among(Orders, jobs, results)
  PROVE  ScreenGoal
  <1>1. ScreenTypeOK'
    BY DEF ScreenInv, ScreenTypeOK
  <1>2. Among(O!JobKinds, jobs', results') <=> Among(O!JobKinds, jobs, results)
    BY Parts DEF ScreenInv, ScreenTypeOK
  <1>3. O!ClosesAfterItsWork
    BY LenProperties DEF O!ClosesAfterItsWork, ScreenInv, ScreenTypeOK
  <1> QED
    BY <1>1, <1>2, <1>3 DEF ScreenGoal, ScreenInv, O!JobKinds

(* Closing begins, or an order or an export, when nothing of its kind is under way. *)
LEMMA ScreenOrders ==
  ASSUME ScreenInv, questions = <<>>, acting = Nothing, acting' = "order", jobs' = Append(jobs, "order"),
         UNCHANGED <<results, finalising, pending, questions, closed, forced, overtaken, live>>
  PROVE  ScreenGoal
  <1>1. jobs \in Seq(O!JobKinds) /\ results \in Seq(O!JobKinds) /\ "order" \in O!JobKinds
    BY Kinds4 DEF ScreenInv, ScreenTypeOK
  <1>2. /\ jobs' \in Seq(O!JobKinds) /\ O!Last(jobs') = "order"
        /\ \A K : /\ Among(K, jobs', results) <=> "order" \in K \/ Among(K, jobs, results)
                  /\ OnceAmong(K, jobs, results) /\ ("order" \in K => ~Among(K, jobs, results))
                        => OnceAmong(K, jobs', results)
    BY <1>1, WorkBegins
  <1>3. ScreenTypeOK'
    BY <1>1, <1>2 DEF ScreenInv, ScreenTypeOK
  <1>4. O!ClosesAfterItsWork
    BY <1>2 DEF O!ClosesAfterItsWork
  <1>5. /\ OnceAmong(Files, jobs', results') /\ (Among(Files, jobs', results') <=> finalising')
        /\ Among(Orders, jobs', results') /\ Among(O!JobKinds, jobs', results')
        /\ ~forced' => OnceAmong(Orders, jobs', results')
    BY <1>1, <1>2, Kinds4 DEF ScreenInv
  <1>6. acting' # Nothing
    BY NothingAssumption DEF NothingAssumption
  <1>7. Len(questions') = 0
    BY EmptySeq
  <1> QED
    BY <1>3, <1>4, <1>5, <1>6, <1>7 DEF ScreenGoal, ScreenInv

LEMMA ScreenExports ==
  ASSUME ScreenInv, questions = <<>>, ~finalising, NEW a \in Files, finalising' = TRUE, jobs' = Append(jobs, a),
         UNCHANGED <<results, acting, pending, questions, closed, forced, overtaken, live>>
  PROVE  ScreenGoal
  <1>1. jobs \in Seq(O!JobKinds) /\ results \in Seq(O!JobKinds) /\ a \in O!JobKinds
    BY Kinds4 DEF ScreenInv, ScreenTypeOK
  <1>2. /\ jobs' \in Seq(O!JobKinds) /\ O!Last(jobs') = a
        /\ \A K : /\ Among(K, jobs', results) <=> a \in K \/ Among(K, jobs, results)
                  /\ OnceAmong(K, jobs, results) /\ (a \in K => ~Among(K, jobs, results))
                        => OnceAmong(K, jobs', results)
    BY <1>1, WorkBegins
  <1>3. ScreenTypeOK'
    BY <1>1, <1>2 DEF ScreenInv, ScreenTypeOK
  <1>4. a # "closing" /\ a \notin Orders
    BY DEF Files, Orders
  <1>5. O!ClosesAfterItsWork
    BY <1>2, <1>4 DEF O!ClosesAfterItsWork
  <1>6. /\ OnceAmong(Files, jobs', results') /\ Among(Files, jobs', results')
        /\ Among(Orders, jobs', results') <=> Among(Orders, jobs, results)
        /\ Among(O!JobKinds, jobs', results')
        /\ ~forced' => OnceAmong(Orders, jobs', results')
    BY <1>1, <1>2, <1>4, Kinds4 DEF ScreenInv
  <1>7. Len(questions') = 0
    BY EmptySeq
  <1> QED
    BY <1>3, <1>5, <1>6, <1>7 DEF ScreenGoal, ScreenInv

LEMMA ScreenShuts ==
  ASSUME ScreenTypeOK, NEW force \in BOOLEAN, O!Shutdown(force), results' \in Seq(O!JobKinds), ~closed,
         UNCHANGED <<closed, live, overtaken>>, pending' \in BOOLEAN, finalising' \in BOOLEAN,
         questions' \in Seq(Asks),
         OnceAmong(Files, jobs, results'), Among(Files, jobs, results') <=> finalising',
         ~forced /\ ~force => /\ ~Among(O!JobKinds, jobs, results')
                              /\ \A k \in 1..Len(questions') : ~Unforced(questions'[k])
  PROVE  ScreenGoal
  <1>1. acting' = "closing" /\ jobs' = Append(jobs, "closing") /\ forced' = (forced \/ force)
    BY DEF O!Shutdown, O!InBackground
  <1>2. jobs \in Seq(O!JobKinds) /\ "closing" \in O!JobKinds
    BY Kinds4 DEF ScreenTypeOK
  <1>3. /\ jobs' \in Seq(O!JobKinds)
        /\ \A K : /\ Among(K, jobs', results') <=> "closing" \in K \/ Among(K, jobs, results')
                  /\ OnceAmong(K, jobs, results') /\ ("closing" \in K => ~Among(K, jobs, results'))
                        => OnceAmong(K, jobs', results')
    BY <1>1, <1>2, WorkBegins
  <1>4. ScreenTypeOK'
    BY <1>1, <1>3 DEF ScreenTypeOK
  <1>5. /\ OnceAmong(Files, jobs', results') /\ (Among(Files, jobs', results') <=> finalising')
        /\ Among(Orders, jobs', results') /\ Among(O!JobKinds, jobs', results')
    BY <1>3, Kinds4
  <1>6. acting' # Nothing
    BY <1>1, NothingAssumption DEF NothingAssumption
  <1>7. CASE forced'
    BY <1>4, <1>5, <1>6, <1>7 DEF ScreenGoal, ScreenInv, O!ClosesAfterItsWork
  <1>8. CASE ~forced'
    <2>1. ~forced /\ ~force
      BY <1>1, <1>8
    <2>2. ~Among(Orders, jobs, results')
      BY <1>2, <2>1, Parts
    <2>3. OnceAmong(Orders, jobs, results')
      BY <2>2 DEF Among, OnceAmong
    <2>4. jobs = <<>> /\ results' = <<>>
      BY <1>2, <2>1, WorkUnderway
    <2>5. OnceAmong(Orders, jobs', results')
      BY <1>3, <2>2, <2>3
    <2> QED
      BY <1>4, <1>5, <1>6, <2>1, <2>4, <2>5 DEF ScreenGoal, ScreenInv, O!ClosesAfterItsWork
  <1> QED
    BY <1>7, <1>8

(* What a request to close does, given what remains in progress. *)
LEMMA ScreenRequested ==
  ASSUME ScreenTypeOK, ~closed, results' \in Seq(O!JobKinds), UNCHANGED <<closed, live, overtaken>>,
         NEW from \in {"button", "tick"}, NEW order \in {"order", "closing", Nothing}, NEW writing \in BOOLEAN,
         NEW waiting \in BOOLEAN, O!RequestClose(from, order, writing, waiting), finalising' = writing,
         OnceAmong(Files, jobs, results'), Among(Files, jobs, results') <=> writing,
         ~forced => /\ OnceAmong(Orders, jobs, results')
                    /\ Among(Orders, jobs, results') => order # Nothing
                    /\ \A k \in 1..Len(questions) : ~Unforced(questions[k]),
         order # Nothing => Among(Orders, jobs, results'),
         waiting /\ ~overtaken => Among(O!JobKinds, jobs, results')
  PROVE  ScreenGoal
  <1>1. jobs \in Seq(O!JobKinds) /\ questions \in Seq(Asks)
    BY DEF ScreenTypeOK
  <1>2. Among(O!JobKinds, jobs, results') <=> Among(Orders, jobs, results') \/ writing
    BY <1>1, Parts
  <1> DEFINE busy == order # Nothing \/ writing
  <1>3. CASE busy /\ ~waiting /\ pending' = TRUE /\ acting' = order /\ UNCHANGED <<jobs, questions, forced>>
    <2>1. ScreenTypeOK'
      BY <1>1, <1>3 DEF ScreenTypeOK
    <2>2. O!ClosesAfterItsWork
      BY <1>1, <1>3, LenProperties DEF O!ClosesAfterItsWork
    <2> QED
      BY <1>2, <1>3, <2>1, <2>2 DEF ScreenGoal, ScreenInv
  <1>4. ASSUME NEW ask \in Asks, questions' = Append(questions, ask), pending' = waiting, acting' = order,
               UNCHANGED <<jobs, forced>>, Unforced(ask) => ~busy
        PROVE  ScreenGoal
    <2>1. questions' \in Seq(Asks)
      BY <1>1, <1>4, AppendProperties
    <2>2. Len(questions) \in Nat
      BY <1>1, LenProperties
    <2>3. \A k \in 1..Len(questions') : (k \in 1..Len(questions) /\ questions'[k] = questions[k])
                                        \/ (k = Len(questions') /\ questions'[k] = ask)
      BY <1>1, <1>4, <2>2, AppendProperties
    <2>4. ScreenTypeOK'
      BY <1>1, <1>4, <2>1 DEF ScreenTypeOK
    <2>5. O!ClosesAfterItsWork
      BY <1>1, <1>4, LenProperties DEF O!ClosesAfterItsWork
    <2>6. ~forced' => \A k \in 1..Len(questions') :
             Unforced(questions'[k]) => k = Len(questions') /\ acting' = Nothing /\ ~finalising'
      BY <1>4, <2>3
    <2> QED
      BY <1>2, <1>4, <2>4, <2>5, <2>6 DEF ScreenGoal, ScreenInv
  <1>5. CASE /\ busy /\ waiting /\ questions' = Append(questions, O!Question("anyway", from, TRUE))
             /\ pending' = waiting /\ acting' = order /\ UNCHANGED <<jobs, forced>>
    <2>1. O!Question("anyway", from, TRUE) \in Asks /\ ~Unforced(O!Question("anyway", from, TRUE))
      BY DEF O!Question, Asks, Unforced
    <2> QED
      BY <1>4, <1>5, <2>1
  <1>6. CASE /\ ~busy /\ live /\ questions' = Append(questions, O!Question("stop", from, FALSE))
             /\ pending' = waiting /\ acting' = order /\ UNCHANGED <<jobs, forced>>
    <2>1. O!Question("stop", from, FALSE) \in Asks
      BY DEF O!Question, Asks
    <2> QED
      BY <1>4, <1>6, <2>1
  <1>7. CASE ~busy /\ O!Shutdown(FALSE) /\ pending' = waiting /\ UNCHANGED questions
    <2>1. ~forced => ~Among(O!JobKinds, jobs, results')
      BY <1>2, <1>7
    <2> QED
      BY <1>1, <1>7, <2>1, ScreenShuts
  <1> QED
    BY <1>3, <1>5, <1>6, <1>7 DEF O!RequestClose

(* A completion is taken from the queue. *)
LEMMA ScreenTakes ==
  ASSUME ScreenInv, NEW a \in O!JobKinds, O!Completes(a)
  PROVE  /\ ~closed /\ jobs \in Seq(O!JobKinds) /\ results' \in Seq(O!JobKinds)
         /\ OnceAmong(Files, jobs, results')
         /\ a \in Files => finalising /\ ~Among(Files, jobs, results')
         /\ a \notin Files => (Among(Files, jobs, results') <=> finalising)
         /\ ~forced => /\ OnceAmong(Orders, jobs, results')
                       /\ a \in Orders => ~Among(Orders, jobs, results')
                       /\ Among(Orders, jobs, results') => acting # Nothing
                       /\ \A k \in 1..Len(questions) : ~Unforced(questions[k])
         /\ a \notin Orders => (acting # Nothing => Among(Orders, jobs, results'))
  <1>1. results # <<>> /\ Head(results) = a /\ results' = Tail(results) /\ ~closed
    BY DEF O!Completes, O!Ticking
  <1>2. jobs \in Seq(O!JobKinds) /\ results \in Seq(O!JobKinds)
    BY DEF ScreenInv, ScreenTypeOK
  <1>3. /\ results' \in Seq(O!JobKinds)
        /\ \A K : /\ Among(K, jobs, results) <=> a \in K \/ Among(K, jobs, results')
                  /\ OnceAmong(K, jobs, results) => /\ OnceAmong(K, jobs, results')
                                                    /\ a \in K => ~Among(K, jobs, results')
    BY <1>1, <1>2, WorkCompletes
  <1>4. ASSUME ~forced PROVE \A k \in 1..Len(questions) : ~Unforced(questions[k])
    BY <1>3, <1>4, Kinds4 DEF ScreenInv
  <1>5. OnceAmong(Files, jobs, results') /\ (a \in Files => ~Among(Files, jobs, results'))
    BY <1>3 DEF ScreenInv
  <1>6. Among(Files, jobs, results) <=> finalising
    BY DEF ScreenInv
  <1>7. /\ a \in Files => finalising
        /\ a \notin Files => (Among(Files, jobs, results') <=> finalising)
    BY <1>3, <1>6
  <1>8. ~forced => OnceAmong(Orders, jobs, results) /\ (Among(Orders, jobs, results) => acting # Nothing)
    BY DEF ScreenInv
  <1>9. ~forced => /\ OnceAmong(Orders, jobs, results')
                   /\ a \in Orders => ~Among(Orders, jobs, results')
                   /\ Among(Orders, jobs, results') => acting # Nothing
    BY <1>3, <1>8
  <1>10. acting # Nothing => Among(Orders, jobs, results)
    BY DEF ScreenInv
  <1>11. a \notin Orders => (acting # Nothing => Among(Orders, jobs, results'))
    BY <1>3, <1>10
  <1> QED
    BY <1>1, <1>2, <1>3, <1>4, <1>5, <1>7, <1>9, <1>11

(* A close that waits is resumed. *)
LEMMA ScreenResumes ==
  ASSUME ScreenInv, NEW a \in {"order", "exports", "workbook"}, O!Completes(a),
         UNCHANGED <<closed, live, overtaken>>,
         NEW order \in {"order", "closing", Nothing}, NEW writing \in BOOLEAN, finalising' = writing,
         O!Resume(order, writing),
         a = "order" => order = Nothing /\ writing = finalising,
         a # "order" => order = acting /\ writing = FALSE
  PROVE  ScreenGoal
  <1>1. a \in O!JobKinds /\ (a \in Orders <=> a = "order") /\ (a \in Files <=> a # "order")
    BY DEF O!JobKinds, Orders, Files
  <1>2. ScreenTypeOK /\ ~closed /\ jobs \in Seq(O!JobKinds) /\ results' \in Seq(O!JobKinds)
    BY <1>1, ScreenTakes DEF ScreenInv
  <1>3. /\ OnceAmong(Files, jobs, results') /\ (Among(Files, jobs, results') <=> writing)
        /\ order # Nothing => Among(Orders, jobs, results')
    BY <1>1, ScreenTakes
  <1>4. ~forced => /\ OnceAmong(Orders, jobs, results')
                   /\ Among(Orders, jobs, results') => order # Nothing
                   /\ \A k \in 1..Len(questions) : ~Unforced(questions[k])
    BY <1>1, ScreenTakes
  <1>5. CASE pending
    <2>1. O!RequestClose("tick", order, writing, FALSE)
      BY <1>5 DEF O!Resume
    <2> QED
      BY <1>2, <1>3, <1>4, <2>1, ScreenRequested
  <1>6. CASE ~pending
    <2>1. acting' = order /\ UNCHANGED <<jobs, pending, questions, forced>>
      BY <1>6 DEF O!Resume
    <2>2. ScreenTypeOK'
      BY <1>2, <2>1 DEF ScreenTypeOK
    <2>3. O!ClosesAfterItsWork
      BY <1>2, <2>1, LenProperties DEF O!ClosesAfterItsWork
    <2> QED
      BY <1>3, <1>4, <1>6, <2>1, <2>2, <2>3 DEF ScreenGoal, ScreenInv
  <1> QED
    BY <1>5, <1>6

LEMMA ScreenAnswers ==
  ASSUME ScreenInv, O!WaitOn \/ O!CloseAnyway \/ O!StopAndClose \/ O!KeepOpen
  PROVE  ScreenGoal
  <1>1. questions # <<>> /\ ~closed /\ UNCHANGED <<finalising, results, live, closed>>
    BY DEF O!WaitOn, O!CloseAnyway, O!StopAndClose, O!KeepOpen, O!Answered
  <1>2. /\ jobs \in Seq(O!JobKinds) /\ results \in Seq(O!JobKinds) /\ ScreenTypeOK
        /\ questions \in Seq(Asks) /\ finalising \in BOOLEAN /\ pending \in BOOLEAN
    BY DEF ScreenInv, ScreenTypeOK
  <1> DEFINE ask == O!Last(questions)
             before == O!Front(questions)
  <1>3. /\ ask \in Asks /\ before \in Seq(Asks)
        /\ ~forced => /\ Unforced(ask) => acting = Nothing /\ ~finalising
                      /\ \A k \in 1..Len(before) : ~Unforced(before[k])
    <2>1. ~forced => \A k \in 1..Len(questions) :
                        Unforced(questions[k]) => k = Len(questions) /\ acting = Nothing /\ ~finalising
      BY DEF ScreenInv
    <2> QED
      BY <1>1, <1>2, <2>1, AskedLast
  <1> HIDE DEF ask, before
  <1>4. /\ OnceAmong(Files, jobs, results') /\ (Among(Files, jobs, results') <=> finalising')
        /\ finalising' \in BOOLEAN /\ results' \in Seq(O!JobKinds)
    BY <1>1, <1>2 DEF ScreenInv
  <1>5. Among(O!JobKinds, jobs, results) <=> Among(Orders, jobs, results) \/ finalising
    BY <1>2, Parts DEF ScreenInv
  <1>6. ~forced => (Among(Orders, jobs, results) <=> acting # Nothing)
    BY DEF ScreenInv
  <1>7. CASE O!WaitOn \/ O!KeepOpen
    <2>1. /\ questions' = before /\ UNCHANGED <<acting, jobs, forced>>
          /\ \/ pending' = TRUE /\ overtaken' = (overtaken \/ ~O!Busy)
             \/ UNCHANGED <<pending, overtaken>>
      BY <1>7 DEF O!WaitOn, O!KeepOpen, before
    <2>2. O!ClosesAfterItsWork
      BY <1>2, <2>1, LenProperties DEF O!ClosesAfterItsWork
    <2>3. ScreenTypeOK'
      BY <1>1, <1>2, <1>3, <2>1 DEF ScreenTypeOK
    <2>4. pending' /\ ~closed' /\ ~overtaken' => Among(O!JobKinds, jobs', results')
      <3>1. pending' /\ ~overtaken' => (pending /\ ~overtaken) \/ O!Busy
        BY <1>2, <2>1 DEF ScreenTypeOK
      <3>2. O!Busy => Among(O!JobKinds, jobs, results)
        BY <1>5 DEF O!Busy, ScreenInv
      <3> QED
        BY <1>1, <2>1, <3>1, <3>2 DEF ScreenInv
    <2> QED
      BY <1>1, <1>3, <2>1, <2>2, <2>3, <2>4 DEF ScreenGoal, ScreenInv
  <1>8. CASE O!StopAndClose
    <2>1. /\ ask.ask = "stop" /\ questions' = before /\ O!Shutdown(ask.force) /\ UNCHANGED <<pending, overtaken>>
      BY <1>8 DEF O!StopAndClose, O!Asked, ask, before
    <2>2. ask.force \in BOOLEAN
      BY <1>3 DEF Asks
    <2>3. ASSUME ~forced, ~ask.force PROVE ~Among(O!JobKinds, jobs, results')
      BY <1>1, <1>3, <1>5, <1>6, <2>1, <2>3 DEF Unforced
    <2> QED
      BY <1>1, <1>2, <1>3, <1>4, <2>1, <2>2, <2>3, ScreenShuts
  <1>9. CASE O!CloseAnyway
    <2>1. /\ pending' = FALSE /\ UNCHANGED overtaken
          /\ IF live
             THEN /\ questions' = Append(before, O!Question("stop", ask.from, TRUE))
                  /\ UNCHANGED <<acting, jobs, forced>>
             ELSE questions' = before /\ O!Shutdown(TRUE)
      BY <1>9 DEF O!CloseAnyway, O!Asked, ask, before
    <2>2. CASE ~live
      BY <1>1, <1>2, <1>3, <1>4, <2>1, <2>2, ScreenShuts
    <2>3. CASE live
      <3> DEFINE then == O!Question("stop", ask.from, TRUE)
      <3>1. then \in Asks /\ ~Unforced(then) /\ questions' = Append(before, then)
        BY <1>3, <2>1, <2>3 DEF O!Question, Asks, Unforced
      <3> HIDE DEF then
      <3>2. questions' \in Seq(Asks)
        BY <1>3, <3>1, AppendProperties
      <3>3. ~forced => \A k \in 1..Len(questions') : ~Unforced(questions'[k])
        <4>1. Len(before) \in Nat
          BY <1>3, LenProperties
        <4>2. \A k \in 1..Len(questions') : \/ k \in 1..Len(before) /\ questions'[k] = before[k]
                                            \/ questions'[k] = then
          BY <1>3, <3>1, <4>1, AppendProperties
        <4> QED
          BY <1>3, <3>1, <4>2
      <3>4. O!ClosesAfterItsWork
        BY <1>2, <2>1, <2>3, LenProperties DEF O!ClosesAfterItsWork
      <3>5. ScreenTypeOK'
        BY <1>1, <1>2, <2>1, <2>3, <3>2 DEF ScreenTypeOK
      <3> QED
        BY <1>1, <2>1, <2>3, <3>3, <3>4, <3>5 DEF ScreenGoal, ScreenInv
    <2> QED
      BY <2>2, <2>3
  <1> QED
    BY <1>7, <1>8, <1>9

LEMMA ScreenSame ==
  ASSUME ScreenInv, live' \in BOOLEAN,
         UNCHANGED <<acting, finalising, pending, questions, jobs, results, closed, forced, overtaken>>
  PROVE  ScreenGoal
  <1>1. jobs' \in Seq(O!JobKinds) /\ results' \in Seq(O!JobKinds) /\ Len(jobs') <= Len(jobs) /\ pending' \in BOOLEAN
    BY LenProperties DEF ScreenInv, ScreenTypeOK
  <1> QED
    BY <1>1, ScreenKeeps

LEMMA ScreenStep ==
  ASSUME ScreenInv, O!ScreenNext \/ UNCHANGED screenVars
  PROVE  ScreenGoal
  <1>1. /\ jobs \in Seq(O!JobKinds) /\ results \in Seq(O!JobKinds) /\ ScreenTypeOK
        /\ live \in BOOLEAN /\ finalising \in BOOLEAN /\ pending \in BOOLEAN
        /\ acting \in {"order", "closing", Nothing}
    BY DEF ScreenInv, ScreenTypeOK
  <1>2. CASE UNCHANGED screenVars
    <2>1. UNCHANGED <<acting, finalising, pending, questions, jobs, results, closed, forced, overtaken, live>>
      BY <1>2, Zenon DEF screenVars
    <2> QED
      BY <1>1, <2>1, ScreenSame
  <1>3. CASE O!Order \/ O!StartRecording
    <2>1. /\ questions = <<>> /\ UNCHANGED <<results, finalising, pending, questions, closed, forced, overtaken, live>>
          /\ IF acting # Nothing THEN UNCHANGED <<acting, jobs>>
                                 ELSE acting' = "order" /\ jobs' = Append(jobs, "order")
      BY <1>3 DEF O!Order, O!StartRecording, O!Free, O!InBackground, O!closeVars
    <2> QED
      BY <1>1, <2>1, ScreenSame, ScreenOrders
  <1>4. ASSUME NEW folder \in Folders,
               O!StopRecording(folder) \/ O!ReviewPastRun(folder) \/ O!SaveReview(folder) \/ O!SkipReview(folder)
        PROVE  ScreenGoal
    <2>1. CASE O!StopRecording(folder)
      <3>1. /\ questions = <<>> /\ ~finalising /\ finalising' = TRUE /\ jobs' = Append(jobs, "exports")
            /\ UNCHANGED <<results, acting, pending, questions, closed, forced, overtaken, live>>
        BY <2>1 DEF O!StopRecording, O!Free, O!InBackground, O!closeVars
      <3> QED
        BY <3>1, Kinds4, ScreenExports
    <2>2. CASE O!ReviewPastRun(folder) \/ O!SkipReview(folder)
      <3>1. UNCHANGED <<acting, finalising, pending, questions, jobs, results, closed, forced, overtaken, live>>
        BY <2>2 DEF O!ReviewPastRun, O!SkipReview, O!closeVars, O!jobVars
      <3> QED
        BY <1>1, <3>1, ScreenSame
    <2>3. CASE O!SaveReview(folder)
      <3>1. /\ questions = <<>> /\ UNCHANGED <<results, acting, pending, questions, closed, forced, overtaken, live>>
            /\ \/ finalising' = finalising /\ UNCHANGED jobs
               \/ ~finalising /\ finalising' = TRUE /\ jobs' = Append(jobs, "workbook")
        BY <2>3 DEF O!SaveReview, O!Free, O!RefreshExcel, O!InBackground, O!closeVars
      <3> QED
        BY <1>1, <3>1, Kinds4, ScreenSame, ScreenExports
    <2> QED
      BY <1>4, <2>1, <2>2, <2>3
  <1>5. CASE O!Close
    <2>1. /\ ~closed /\ questions = <<>> /\ UNCHANGED <<results, finalising, closed, live, overtaken>>
          /\ O!RequestClose("button", acting, finalising, pending)
      BY <1>5 DEF O!Close, O!Free
    <2>2. Len(questions) = 0
      BY <2>1, EmptySeq
    <2>3. /\ OnceAmong(Files, jobs, results') /\ (Among(Files, jobs, results') <=> finalising)
          /\ ~forced => OnceAmong(Orders, jobs, results') /\ (Among(Orders, jobs, results') => acting # Nothing)
          /\ acting # Nothing => Among(Orders, jobs, results')
          /\ pending /\ ~overtaken => Among(O!JobKinds, jobs, results')
          /\ results' \in Seq(O!JobKinds)
      BY <1>1, <2>1 DEF ScreenInv
    <2> QED
      BY <1>1, <2>1, <2>2, <2>3, ScreenRequested
  <1>6. CASE O!WaitOn \/ O!CloseAnyway \/ O!StopAndClose \/ O!KeepOpen
    BY <1>6, ScreenAnswers
  <1>7. ASSUME NEW k \in DOMAIN jobs, O!JobEnds(k) PROVE ScreenGoal
    <2>1. /\ jobs' = O!RemoveAt(jobs, k) /\ results' = Append(results, jobs[k])
          /\ live' \in IF jobs[k] \in {"exports", "closing"} THEN {FALSE} ELSE {live, jobs[k] = "order"}
          /\ UNCHANGED <<acting, finalising, pending, questions, closed, forced, overtaken>>
      BY <1>7 DEF O!JobEnds, O!closeVars
    <2>2. k \in 1..Len(jobs) /\ live' \in BOOLEAN
      BY <1>1, <2>1, LenProperties
    <2>3. /\ jobs' \in Seq(O!JobKinds) /\ results' \in Seq(O!JobKinds) /\ Len(jobs') < Len(jobs)
          /\ \A K : /\ Among(K, jobs', results') <=> Among(K, jobs, results)
                    /\ OnceAmong(K, jobs, results) => OnceAmong(K, jobs', results')
      BY <1>1, <2>1, <2>2, WorkEnds
    <2>4. Len(jobs') <= Len(jobs) /\ pending' \in BOOLEAN
      BY <1>1, <2>1, <2>3, LenProperties
    <2> QED
      BY <2>1, <2>2, <2>3, <2>4, ScreenKeeps
  <1>8. CASE O!RecipeRecords
    <2>1. UNCHANGED <<acting, finalising, pending, questions, jobs, results, closed, forced, overtaken>>
          /\ live' \in BOOLEAN
      BY <1>8 DEF O!RecipeRecords, O!closeVars, O!jobVars
    <2> QED
      BY <2>1, ScreenSame
  <1>9. CASE O!OrderCompletes
    <2>1. O!Completes("order") /\ O!Resume(Nothing, finalising) /\ UNCHANGED <<finalising, closed, live, overtaken>>
      BY <1>9 DEF O!OrderCompletes
    <2> QED
      BY <1>1, <2>1, ScreenResumes
  <1>10. CASE O!ExportsComplete
    <2>1. O!Completes("exports") /\ UNCHANGED <<closed, live, overtaken>>
      BY <1>10 DEF O!ExportsComplete
    <2>2. \/ finalising' = FALSE /\ O!Resume(acting, FALSE)
          \/ /\ finalising' = TRUE /\ jobs' = Append(jobs, "workbook")
             /\ UNCHANGED <<acting, pending, questions, forced>>
      BY <1>10 DEF O!ExportsComplete, O!RefreshExcel, O!InBackground
    <2>3. CASE finalising' = FALSE /\ O!Resume(acting, FALSE)
      BY <1>1, <2>1, <2>3, ScreenResumes
    <2>4. CASE /\ finalising' = TRUE /\ jobs' = Append(jobs, "workbook")
               /\ UNCHANGED <<acting, pending, questions, forced>>
      <3>1. /\ results' \in Seq(O!JobKinds) /\ finalising /\ ~Among(Files, jobs, results')
            /\ OnceAmong(Files, jobs, results')
            /\ ~forced => /\ OnceAmong(Orders, jobs, results')
                          /\ Among(Orders, jobs, results') => acting # Nothing
                          /\ \A k \in 1..Len(questions) : ~Unforced(questions[k])
            /\ acting # Nothing => Among(Orders, jobs, results')
        BY <2>1, Kinds4, ScreenTakes
      <3>2. /\ jobs' \in Seq(O!JobKinds) /\ O!Last(jobs') = "workbook"
            /\ \A K : /\ Among(K, jobs', results') <=> "workbook" \in K \/ Among(K, jobs, results')
                      /\ OnceAmong(K, jobs, results') /\ ("workbook" \in K => ~Among(K, jobs, results'))
                            => OnceAmong(K, jobs', results')
        BY <1>1, <2>4, <3>1, Kinds4, WorkBegins
      <3>3. ScreenTypeOK'
        BY <1>1, <2>1, <2>4, <3>1, <3>2 DEF ScreenTypeOK
      <3>4. O!ClosesAfterItsWork
        BY <3>2 DEF O!ClosesAfterItsWork
      <3>5. /\ OnceAmong(Files, jobs', results') /\ Among(Files, jobs', results')
            /\ Among(Orders, jobs', results') <=> Among(Orders, jobs, results')
            /\ Among(O!JobKinds, jobs', results')
            /\ OnceAmong(Orders, jobs, results') => OnceAmong(Orders, jobs', results')
        BY <3>1, <3>2, Kinds4
      <3> QED
        BY <2>1, <2>4, <3>1, <3>3, <3>4, <3>5 DEF ScreenGoal, ScreenInv
    <2> QED
      BY <2>2, <2>3, <2>4
  <1>11. CASE O!WorkbookCompletes
    <2>1. O!Completes("workbook") /\ finalising' = FALSE /\ O!Resume(acting, FALSE) /\ UNCHANGED <<closed, live, overtaken>>
      BY <1>11 DEF O!WorkbookCompletes
    <2> QED
      BY <1>1, <2>1, ScreenResumes
  <1>12. CASE O!ClosingCompletes
    <2>1. /\ O!Completes("closing") /\ acting' = Nothing /\ closed' = TRUE
          /\ UNCHANGED <<finalising, pending, questions, forced, overtaken, jobs, live>>
      BY <1>12 DEF O!ClosingCompletes
    <2>2. /\ results' \in Seq(O!JobKinds) /\ OnceAmong(Files, jobs, results')
          /\ Among(Files, jobs, results') <=> finalising
          /\ ~forced => /\ OnceAmong(Orders, jobs, results') /\ ~Among(Orders, jobs, results')
                        /\ \A k \in 1..Len(questions) : ~Unforced(questions[k])
      BY <2>1, Kinds4, ScreenTakes
    <2>3. ScreenTypeOK'
      BY <1>1, <2>1, <2>2 DEF ScreenTypeOK
    <2>4. O!ClosesAfterItsWork
      BY <1>1, <2>1, LenProperties DEF O!ClosesAfterItsWork
    <2> QED
      BY <2>1, <2>2, <2>3, <2>4 DEF ScreenGoal, ScreenInv
  <1> QED
    BY <1>2, <1>3, <1>4, <1>5, <1>6, <1>7, <1>8, <1>9, <1>10, <1>11, <1>12 DEF O!ScreenNext


(***************************************************************************)
(* Alicats that share a port.                                              *)
(***************************************************************************)

(* A device that does anything, or is ready, holds a reference; one that is disconnected
   holds none, and does nothing. *)
Station(s) ==
  /\ s.holds \in BOOLEAN
  /\ s.doing # "nothing" \/ s.status = "READY" => s.holds
  /\ s.status = "DISCONNECTED" => ~s.holds

(* The references are those the devices hold, and the port is the clients' as long as there
   is one. *)
BusInv ==
  /\ alicat = [d \in Sharing |-> alicat[d]] /\ answered = [d \in Sharing |-> answered[d]]
  /\ port \in {"open", "closed"}
  /\ \A d \in Sharing : Station(alicat[d]) /\ answered[d] \in {d, Nothing}
  /\ IsFiniteSet(Y!Holders) /\ clients = Cardinality(Y!Holders)
  /\ opened <=> Y!Holders # {}
  /\ port = "open" => Y!Holders # {}
  /\ Y!Holders # {} /\ ~cut => port = "open"

(* Of the connection itself. *)
Held(p, n, o, c, holders) ==
  /\ p \in {"open", "closed"}
  /\ IsFiniteSet(holders) /\ n = Cardinality(holders)
  /\ o <=> holders # {}
  /\ p = "open" => holders # {}
  /\ holders # {} /\ ~c => p = "open"

LEMMA BusServes ==
  ASSUME BusInv
  PROVE  Y!BusServesItsClients
  BY DEF BusInv, Y!BusServesItsClients, Station

LEMMA BusTurns ==
  ASSUME BusInv, NEW d \in Sharing, NEW a, NEW b \in BOOLEAN, NEW v, NEW w, Y!Turn(d, a, b, v, w),
         v # "nothing" \/ a = "READY" => b, a = "DISCONNECTED" => ~b
  PROVE  /\ alicat' = [e \in Sharing |-> alicat'[e]] /\ \A e \in Sharing : Station(alicat'[e])
         /\ Y!Holders' = IF b THEN Y!Holders \cup {d} ELSE Y!Holders \ {d}
  <1>1. alicat' = [e \in Sharing |->
                      IF e = d THEN [status |-> a, holds |-> b, doing |-> v, left |-> w] ELSE alicat[e]]
    BY DEF Y!Turn, BusInv
  <1>2. alicat' = [e \in Sharing |-> alicat'[e]] /\ \A e \in Sharing : Station(alicat'[e])
    BY <1>1 DEF BusInv, Station
  <1>3. \A e \in Sharing : alicat'[e].holds <=> IF e = d THEN b ELSE alicat[e].holds
    BY <1>1
  <1>4. Y!Holders' = IF b THEN Y!Holders \cup {d} ELSE Y!Holders \ {d}
    BY <1>3 DEF Y!Holders
  <1> QED
    BY <1>2, <1>4

LEMMA BusGains ==
  ASSUME BusInv, NEW d \in Sharing, NEW a, a # "DISCONNECTED", NEW v, NEW w, Y!Turn(d, a, TRUE, v, w)
  PROVE  /\ alicat' = [e \in Sharing |-> alicat'[e]] /\ \A e \in Sharing : Station(alicat'[e])
         /\ Y!Holders' = Y!Holders \cup {d}
  BY BusTurns

LEMMA BusHeld ==
  ASSUME BusInv
  PROVE  Held(port, clients, opened, cut, Y!Holders)
  BY DEF BusInv, Held

LEMMA BusKeeps ==
  ASSUME alicat' = [e \in Sharing |-> alicat'[e]], \A e \in Sharing : Station(alicat'[e]),
         answered' = [e \in Sharing |-> answered'[e]], \A e \in Sharing : answered'[e] \in {e, Nothing},
         Held(port', clients', opened', cut', Y!Holders')
  PROVE  BusInv'
  BY DEF BusInv, Held

(* A device that holds goes on: nothing of the connection changes. *)
LEMMA BusGoesOn ==
  ASSUME BusInv, NEW d \in Sharing, alicat[d].holds, NEW a, NEW v, NEW w, Y!Turn(d, a, TRUE, v, w),
         a # "DISCONNECTED", UNCHANGED <<port, clients, opened, cut>>,
         answered' = answered \/ answered' = [answered EXCEPT ![d] = d]
  PROVE  BusInv'
  <1>1. Y!Holders \cup {d} = Y!Holders
    BY DEF Y!Holders
  <1>2. /\ alicat' = [e \in Sharing |-> alicat'[e]] /\ \A e \in Sharing : Station(alicat'[e])
        /\ Y!Holders' = Y!Holders
    BY <1>1, BusGains
  <1>3. answered' = [e \in Sharing |-> answered'[e]] /\ \A e \in Sharing : answered'[e] \in {e, Nothing}
    BY DEF BusInv
  <1> QED
    BY <1>2, <1>3, BusHeld, BusKeeps

(* One that holds gives its reference back. *)
LEMMA BusReleases ==
  ASSUME BusInv, NEW d \in Sharing, alicat[d].holds, NEW a, a # "READY", NEW w, NEW waiting,
         Y!Turn(d, a, FALSE, "nothing", w), Y!Release(waiting), UNCHANGED <<answered, cut>>
  PROVE  BusInv'
  <1>1. /\ alicat' = [e \in Sharing |-> alicat'[e]] /\ \A e \in Sharing : Station(alicat'[e])
        /\ Y!Holders' = Y!Holders \ {d}
    BY BusTurns
  <1>2. d \in Y!Holders /\ Y!Holders # {} /\ opened
    BY DEF Y!Holders, BusInv
  <1>3. IsFiniteSet(Y!Holders \ {d}) /\ Cardinality(Y!Holders \ {d}) = clients - 1
    BY <1>2, FS_RemoveElement DEF BusInv
  <1>4. Cardinality(Y!Holders \ {d}) = 0 <=> Y!Holders \ {d} = {}
    BY <1>3, FS_EmptySet
  <1>5. clients = 1 <=> Y!Holders \ {d} = {}
    BY <1>3, <1>4, FS_CardinalityType DEF BusInv
  <1>6. /\ clients' = clients - 1
        /\ clients = 1 => port' = "closed" /\ opened' = FALSE
        /\ clients # 1 => UNCHANGED <<port, opened>>
    BY <1>2 DEF Y!Release
  <1>7. CASE clients = 1
    <2>1. Held(port', clients', opened', cut', Y!Holders')
      BY <1>1, <1>3, <1>5, <1>6, <1>7 DEF Held
    <2> QED
      BY <1>1, <2>1, BusKeeps DEF BusInv
  <1>8. CASE clients # 1
    <2>1. Held(port', clients', opened', cut', Y!Holders')
      BY <1>1, <1>2, <1>3, <1>5, <1>6, <1>8 DEF Held, BusInv
    <2> QED
      BY <1>1, <2>1, BusKeeps DEF BusInv
  <1> QED
    BY <1>7, <1>8

LEMMA BusFails ==
  ASSUME BusInv, NEW d \in Sharing, Y!Asks(d), NEW waiting, Y!Fails(d, waiting), UNCHANGED <<answered, cut>>
  PROVE  BusInv'
  <1>1. alicat[d].holds
    BY DEF Y!Asks, BusInv, Station
  <1>2. CASE alicat[d].doing = "connect"
    BY <1>1, <1>2, BusReleases DEF Y!Fails
  <1>3. CASE alicat[d].doing # "connect"
    <2>1. \/ Y!Turn(d, "FAULTED", TRUE, "nothing", 0) /\ UNCHANGED <<port, clients, opened>>
          \/ Y!Turn(d, "READY", TRUE, "read", alicat[d].left - 1) /\ UNCHANGED <<port, clients, opened>>
      BY <1>3 DEF Y!Fails
    <2> QED
      BY <1>1, <2>1, BusGoesOn
  <1> QED
    BY <1>2, <1>3

LEMMA BusTakes ==
  ASSUME BusInv, NEW d \in Sharing, Y!Asks(d), NEW waiting, Y!Takes(d, waiting), UNCHANGED cut
  PROVE  BusInv'
  <1>1. CASE waiting = <<>> \/ Head(waiting) # d
    <2>1. Y!Fails(d, IF waiting = <<>> THEN <<>> ELSE Tail(waiting)) /\ UNCHANGED answered
      BY <1>1 DEF Y!Takes
    <2> QED
      BY <2>1, BusFails
  <1>2. CASE waiting # <<>> /\ Head(waiting) = d
    <2>1. alicat[d].holds
      BY DEF Y!Asks, BusInv, Station
    <2>2. /\ Y!Turn(d, IF alicat[d].doing = "connect" /\ d \in Describing THEN "CONNECTING" ELSE "READY",
                    TRUE, IF alicat[d].doing = "connect" /\ d \in Describing THEN "describe" ELSE "nothing", 0)
          /\ answered' = [answered EXCEPT ![d] = d] /\ UNCHANGED <<port, clients, opened>>
      BY <1>2 DEF Y!Takes
    <2> QED
      BY <2>1, <2>2, BusGoesOn
  <1> QED
    BY <1>1, <1>2

LEMMA BusAcquires ==
  ASSUME BusInv, NEW d \in Sharing, Y!Acquire(d)
  PROVE  BusInv'
  <1>1. /\ Y!Turn(d, "CONNECTING", TRUE, "connect", 1) /\ clients' = clients + 1 /\ UNCHANGED answered
        /\ clients = 0 /\ port = "closed" => port' = "open" /\ opened' = TRUE /\ cut' = FALSE
        /\ ~(clients = 0 /\ port = "closed") => UNCHANGED <<port, opened, cut>>
        /\ alicat[d].status = "DISCONNECTED"
    BY DEF Y!Acquire, Y!Opens
  <1>2. /\ alicat' = [e \in Sharing |-> alicat'[e]] /\ \A e \in Sharing : Station(alicat'[e])
        /\ Y!Holders' = Y!Holders \cup {d}
    BY <1>1, BusGains
  <1>3. d \notin Y!Holders
    BY <1>1 DEF Y!Holders, BusInv, Station
  <1>4. IsFiniteSet(Y!Holders \cup {d}) /\ Cardinality(Y!Holders \cup {d}) = clients + 1
    BY <1>3, FS_AddElement DEF BusInv
  <1>5. Y!Holders = {} => clients = 0
    BY FS_EmptySet DEF BusInv
  <1>6. clients = 0 => Y!Holders = {}
    BY FS_EmptySet DEF BusInv
  <1>7. Held(port', clients', opened', cut', Y!Holders')
    <2>1. CASE clients = 0 /\ port = "closed"
      BY <1>1, <1>2, <1>4, <2>1 DEF Held
    <2>2. CASE ~(clients = 0 /\ port = "closed")
      <3>1. Y!Holders # {}
        BY <1>5, <1>6, <2>2 DEF BusInv
      <3> QED
        BY <1>1, <1>2, <1>4, <2>2, <3>1 DEF Held, BusInv
    <2> QED
      BY <2>1, <2>2
  <1> QED
    BY <1>1, <1>2, <1>7, BusKeeps DEF BusInv

LEMMA BusStep ==
  ASSUME BusInv, Y!BusNext \/ UNCHANGED busVars
  PROVE  BusInv'
  <1>1. ASSUME UNCHANGED <<port, clients, opened, alicat, answered, cut>> PROVE BusInv'
    BY <1>1 DEF BusInv, Y!Holders
  <1>2. CASE UNCHANGED busVars
    <2>1. UNCHANGED <<port, clients, opened, unread, coming, alicat, answered, cut>>
      BY <1>2, Zenon DEF busVars
    <2> QED
      BY <1>1, <2>1
  <1>3. ASSUME NEW d \in Sharing, Y!OpenFails(d) PROVE BusInv'
    <2>1. /\ Y!Turn(d, "FAULTED", FALSE, "nothing", 0) /\ alicat[d].status = "DISCONNECTED"
          /\ UNCHANGED <<port, clients, opened, answered, cut>>
      BY <1>3 DEF Y!OpenFails
    <2>2. Y!Holders \ {d} = Y!Holders
      BY <2>1 DEF Y!Holders, BusInv, Station
    <2>3. /\ alicat' = [e \in Sharing |-> alicat'[e]] /\ \A e \in Sharing : Station(alicat'[e])
          /\ Y!Holders' = Y!Holders
      BY <2>1, <2>2, BusTurns
    <2> QED
      BY <2>1, <2>3, BusHeld, BusKeeps DEF BusInv
  <1>4. ASSUME NEW d \in Sharing, Y!Disconnect(d) PROVE BusInv'
    <2>1. /\ Y!Turn(d, "DISCONNECTED", FALSE, "nothing", 0) /\ UNCHANGED <<answered, cut>>
          /\ alicat[d].holds => Y!Release(unread)
          /\ ~alicat[d].holds => UNCHANGED <<port, clients, opened>>
      BY <1>4 DEF Y!Disconnect
    <2>2. CASE alicat[d].holds
      BY <2>1, <2>2, BusReleases
    <2>3. CASE ~alicat[d].holds
      <3>1. Y!Holders \ {d} = Y!Holders
        BY <2>3 DEF Y!Holders
      <3>2. /\ alicat' = [e \in Sharing |-> alicat'[e]] /\ \A e \in Sharing : Station(alicat'[e])
            /\ Y!Holders' = Y!Holders
        BY <2>1, <3>1, BusTurns
      <3> QED
        BY <2>1, <2>3, <3>2, BusHeld, BusKeeps DEF BusInv
    <2> QED
      BY <2>2, <2>3
  <1>5. ASSUME NEW d \in Sharing, Y!Exchange(d) PROVE BusInv'
    BY <1>5, BusTakes DEF Y!Exchange
  <1>6. ASSUME NEW d \in Sharing, Y!AnsweredLate(d) PROVE BusInv'
    BY <1>6, BusTakes DEF Y!AnsweredLate
  <1>7. ASSUME NEW d \in Sharing, Y!NotConnected(d) PROVE BusInv'
    BY <1>7, BusFails DEF Y!NotConnected
  <1>8. ASSUME NEW d \in Sharing, Y!Arrive(d) PROVE BusInv'
    BY <1>1, <1>8 DEF Y!Arrive
  <1>9. ASSUME NEW d \in Sharing, Y!BeginReading(d) PROVE BusInv'
    <2>1. /\ Y!Turn(d, "READY", TRUE, "read", Attempts) /\ alicat[d].status = "READY"
          /\ UNCHANGED <<port, clients, opened, answered, cut>>
      BY <1>9 DEF Y!BeginReading
    <2>2. alicat[d].holds
      BY <2>1 DEF BusInv, Station
    <2> QED
      BY <2>1, <2>2, BusGoesOn
  <1>10. ASSUME NEW d \in Sharing, Y!Describe(d) PROVE BusInv'
    <2>1. /\ alicat[d].doing = "describe" /\ Y!Turn(d, "READY", TRUE, "nothing", 0)
          /\ UNCHANGED <<clients, opened, answered>>
          /\ UNCHANGED <<port, cut>> \/ (port' = "closed" /\ cut' = TRUE)
      BY <1>10 DEF Y!Describe
    <2>2. alicat[d].holds
      BY <2>1 DEF BusInv, Station
    <2>3. Y!Holders \cup {d} = Y!Holders
      BY <2>2 DEF Y!Holders
    <2>4. /\ alicat' = [e \in Sharing |-> alicat'[e]] /\ \A e \in Sharing : Station(alicat'[e])
          /\ Y!Holders' = Y!Holders
      BY <2>1, <2>3, BusTurns
    <2>5. Held(port', clients', opened', cut', Y!Holders')
      BY <2>1, <2>4, BusHeld DEF Held
    <2> QED
      BY <2>1, <2>4, <2>5, BusKeeps DEF BusInv
  <1>11. ASSUME NEW d \in Sharing, Y!Acquire(d) PROVE BusInv'
    BY <1>11, BusAcquires
  <1> QED
    BY <1>2, <1>3, <1>4, <1>5, <1>6, <1>7, <1>8, <1>9, <1>10, <1>11 DEF Y!BusNext


(***************************************************************************)
(* Calibrations.                                                           *)
(***************************************************************************)

(* A history in the cache is the file's, as long as it has the file's stamp; and between
   the naming of a run's calibrations and its end none is written. *)
CalInv ==
  /\ history = [d \in Calibrated |-> history[d]] /\ stamp \in [Calibrated -> Nat]
  /\ cache = [d \in Calibrated |-> cache[d]]
  /\ \A d \in Calibrated : /\ cache[d].stamp \in Nat /\ cache[d].stamp <= stamp[d]
                           /\ cache[d].stamp = stamp[d] => cache[d].names = history[d]
  /\ chosen \in Calibrated
  /\ starting \/ inRun => /\ operating
                          /\ \A d \in Calibrated : history[d] # Nothing => named[d] = C!Active(history[d])
  /\ C!ReviewedAsShown

LEMMA CalNames ==
  ASSUME CalInv
  PROVE  C!RunUsesWhatItNames
  <1>1. \A d \in Calibrated : C!Looked(d) = history[d]
    BY DEF CalInv, C!Looked
  <1>2. C!Active(Nothing) = Nothing
    BY DEF C!Active
  <1> QED
    BY <1>1, <1>2 DEF CalInv, C!RunUsesWhatItNames, C!Applied

LEMMA CalWrites ==
  ASSUME CalInv, NEW d \in Calibrated, NEW names, C!Write(d, names), UNCHANGED cache
  PROVE  /\ history' = [e \in Calibrated |-> history'[e]] /\ stamp' \in [Calibrated -> Nat]
         /\ history'[d] = names /\ \A e \in Calibrated \ {d} : history'[e] = history[e]
         /\ \A e \in Calibrated : /\ cache'[e].stamp \in Nat /\ cache'[e].stamp <= stamp'[e]
                                  /\ cache'[e].stamp = stamp'[e] => cache'[e].names = history'[e]
  <1>1. /\ history' = [history EXCEPT ![d] = names]
        /\ stamp' = [stamp EXCEPT ![d] = @ + 1]
    BY DEF C!Write
  <1>2. /\ history' = [e \in Calibrated |-> IF e = d THEN names ELSE history[e]]
        /\ stamp' = [e \in Calibrated |-> IF e = d THEN stamp[e] + 1 ELSE stamp[e]]
    BY <1>1 DEF CalInv
  <1> QED
    BY <1>2 DEF CalInv

LEMMA CalStep ==
  ASSUME CalInv, C!CalibrationsNext \/ UNCHANGED calVars
  PROVE  CalInv'
  <1> USE DEF C!ReviewedAsShown
  <1>1. CASE UNCHANGED calVars
    <2>1. UNCHANGED <<history, stamp, cache, chosen, candidate, listed, operating, starting, named, inRun>>
      BY <1>1, Zenon DEF calVars
    <2> QED
      BY <2>1 DEF CalInv, C!Active
  <1>2. ASSUME NEW d \in Calibrated, C!ChooseDevice(d) PROVE CalInv'
    <2>1. /\ chosen' = d /\ candidate' = Nothing /\ listed' = C!Listing(d)
          /\ UNCHANGED <<history, stamp, cache, operating, starting, named, inRun>>
      BY <1>2 DEF C!ChooseDevice, C!fileVars, C!runVars
    <2> QED
      BY <2>1 DEF CalInv, C!Listing, C!Active
  <1>3. ASSUME NEW d \in Calibrated, C!Spoil(d) PROVE CalInv'
    <2>1. C!Write(d, Nothing) /\ UNCHANGED <<cache, chosen, candidate, listed, operating, starting, named, inRun>>
      BY <1>3 DEF C!Spoil, C!panelVars, C!runVars
    <2>2. /\ history' = [e \in Calibrated |-> history'[e]] /\ stamp' \in [Calibrated -> Nat]
          /\ history'[d] = Nothing /\ \A e \in Calibrated \ {d} : history'[e] = history[e]
          /\ \A e \in Calibrated : /\ cache'[e].stamp \in Nat /\ cache'[e].stamp <= stamp'[e]
                                   /\ cache'[e].stamp = stamp'[e] => cache'[e].names = history'[e]
      BY <2>1, CalWrites
    <2>3. (\A e \in Calibrated : history[e] # Nothing => named[e] = C!Active(history[e]))
            => \A e \in Calibrated : history'[e] # Nothing => named'[e] = C!Active(history'[e])
      BY <2>1, <2>2
    <2> QED
      BY <2>1, <2>2, <2>3 DEF CalInv, C!Active
  <1>4. ASSUME NEW d \in Calibrated, C!Read(d) PROVE CalInv'
    <2>1. /\ cache' = cache \/ cache' = [cache EXCEPT ![d] = [stamp |-> stamp[d], names |-> C!Looked(d)]]
          /\ UNCHANGED <<history, stamp, chosen, candidate, listed, operating, starting, named, inRun>>
      BY <1>4 DEF C!Read, C!fileVars, C!panelVars, C!runVars
    <2>2. C!Looked(d) = history[d]
      BY DEF CalInv, C!Looked
    <2> QED
      BY <2>1, <2>2 DEF CalInv, C!Active
  <1>5. ASSUME NEW name \in Names, C!Fit(name) PROVE CalInv'
    <2>1. /\ candidate' = chosen
          /\ UNCHANGED <<history, stamp, cache, chosen, listed, operating, starting, named, inRun>>
      BY <1>5 DEF C!Fit, C!fileVars, C!runVars
    <2> QED
      BY <2>1 DEF CalInv, C!Active
  <1>6. ASSUME NEW name \in Names, C!Accept(name) PROVE CalInv'
    <2>1. /\ candidate # Nothing /\ ~operating /\ ~inRun /\ C!Write(candidate, Append(history[candidate], name))
          /\ candidate' = Nothing /\ listed' = [device |-> chosen, names |-> history'[chosen]]
          /\ UNCHANGED <<cache, chosen, operating, starting, named, inRun>>
      BY <1>6 DEF C!Accept, C!MayWrite, C!runVars
    <2>2. candidate \in Calibrated
      BY <2>1 DEF CalInv
    <2>3. /\ history' = [e \in Calibrated |-> history'[e]] /\ stamp' \in [Calibrated -> Nat]
          /\ \A e \in Calibrated : /\ cache'[e].stamp \in Nat /\ cache'[e].stamp <= stamp'[e]
                                   /\ cache'[e].stamp = stamp'[e] => cache'[e].names = history'[e]
      BY <2>1, <2>2, CalWrites
    <2> QED
      BY <2>1, <2>3 DEF CalInv
  <1>7. CASE C!Decline \/ C!OpenOperation \/ C!CloseOperation \/ C!StopRun \/ \E ok \in BOOLEAN : C!StartRun(ok)
    <2>1. /\ UNCHANGED <<history, stamp, cache, chosen, listed, named>> /\ candidate' \in {candidate, Nothing}
          /\ starting' \/ inRun' => (starting \/ inRun) /\ (operating' \/ ~operating)
      BY <1>7 DEF C!Decline, C!OpenOperation, C!CloseOperation, C!StopRun, C!StartRun,
                  C!fileVars, C!runVars, C!panelVars, CalInv
    <2> QED
      BY <2>1 DEF CalInv, C!Active
  <1>8. CASE C!CalibrationMetadata
    <2>1. /\ UNCHANGED <<history, stamp, cache, chosen, listed, candidate, operating>> /\ operating
          /\ named' = [d \in Calibrated |-> C!Active(history[d])]
      BY <1>8 DEF C!CalibrationMetadata, C!fileVars, C!panelVars
    <2> QED
      BY <2>1 DEF CalInv, C!Active
  <1> QED
    BY <1>1, <1>2, <1>3, <1>4, <1>5, <1>6, <1>7, <1>8 DEF C!CalibrationsNext


(***************************************************************************)
(* What works by itself: everything of a kind keeps what holds of its      *)
(* kind, whatever the others are.                                          *)
(***************************************************************************)

(* The inductive invariant, by kind.  Of the others nothing but their kind is said. *)
OperationInv ==
  /\ kind = "pump" => PumpInv
  /\ kind = "hotplate" => PlateInv
  /\ kind = "flow" => FlowInv
  /\ kind = "pressure" => PressureInv
  /\ kind = "supply" => SupplyInv
  /\ kind = "heater" => HeaterInv
  /\ kind = "calibrations" => CalInv
  /\ kind = "screen" => ScreenInv
  /\ kind = "alicat" => AlicatInv
  /\ kind = "memory" => MemoryInv
  /\ kind = "bus" => BusInv

LEMMA PumpStarts ==
  ASSUME P!PumpInit
  PROVE  PumpInv
  BY DEF P!PumpInit, PumpInv, P!NothingKnown, Pumps, P!Coherent, Safes

LEMMA PlateStarts ==
  ASSUME H!PlateInit
  PROVE  PlateInv
  <1>1. PICK t \in Temperatures :
           device = [heat |-> FALSE, stir |-> FALSE, target |-> t, heats |-> t, error |-> FALSE]
    BY DEF H!PlateInit
  <1>2. device \in Plates /\ Coherent(device)
    BY <1>1 DEF Plates, Coherent
  <1> QED
    BY <1>2 DEF H!PlateInit, PlateInv, Proceeds

LEMMA FlowStarts ==
  ASSUME F!FlowInit
  PROVE  FlowInv
  BY DEF F!FlowInit, FlowInv

LEMMA PressureStarts ==
  ASSUME B!PressureInit
  PROVE  PressureInv
  BY List1 DEF B!PressureInit, PressureInv, HoldOff

LEMMA SupplyStarts ==
  ASSUME S!SupplyInit
  PROVE  SupplyInv
  <1>1. 0 \in 0..MaxVolts /\ 0 \in 0..MaxAmps
    BY LimitsAssumption DEF LimitsAssumption
  <1>2. cached \in [on : BOOLEAN, volts : 0..MaxVolts, amps : 0..MaxAmps, mode : {"cc", "cv"},
                    current : 0..MaxAmps, voltage : 0..MaxVolts]
    BY <1>1 DEF S!SupplyInit
  <1>3. device \in [on : BOOLEAN, volts : 0..MaxVolts, amps : 0..MaxAmps]
    BY DEF S!SupplyInit
  <1> QED
    BY <1>2, <1>3 DEF S!SupplyInit, SupplyInv, S!SupplyTypeOK

LEMMA HeaterStarts ==
  ASSUME T!HeaterInit
  PROVE  HeaterInv
  <1>1. /\ registers \in [Controllers -> T!Settings] /\ autotune = [d \in Controllers |-> "off"]
        /\ controller \in Controllers /\ snapshot \in T!Settings
    BY DEF T!HeaterInit
  <1>2. IsOfRegisters(snapshot) /\ \A d \in Controllers : IsOfRegisters(registers[d])
    BY <1>1, SettingsOfRegisters
  <1> QED
    BY <1>1, <1>2 DEF HeaterInv

LEMMA CalibrationsStart ==
  ASSUME C!CalibrationsInit
  PROVE  CalInv
  BY DEF C!CalibrationsInit, CalInv, C!ReviewedAsShown

LEMMA ScreenStarts ==
  ASSUME O!ScreenInit
  PROVE  ScreenInv
  <1>1. Len(jobs) = 0 /\ Len(results) = 0 /\ Len(questions) = 0 /\ ScreenTypeOK
    BY EmptySeq DEF O!ScreenInit, ScreenTypeOK
  <1>2. \A K : OnceAmong(K, jobs, results) /\ ~Among(K, jobs, results)
    BY <1>1 DEF OnceAmong, Among
  <1> QED
    BY <1>1, <1>2 DEF O!ScreenInit, ScreenInv

LEMMA AlicatStarts ==
  ASSUME A!SetupInit
  PROVE  AlicatInv
  BY DEF A!SetupInit, AlicatInv, A!NamedAsDescribed

LEMMA MemoryStarts ==
  ASSUME M!HealthInit
  PROVE  MemoryInv
  BY NothingAssumption DEF M!HealthInit, MemoryInv, NothingAssumption

LEMMA BusStarts ==
  ASSUME Y!BusInit
  PROVE  BusInv
  <1>1. Y!Holders = {}
    BY DEF Y!BusInit, Y!Holders
  <1> QED
    BY <1>1, FS_EmptySet DEF Y!BusInit, BusInv, Station

LEMMA Starts ==
  ASSUME Init
  PROVE  OperationInv
  <1>1. /\ kind = "pump" => P!PumpInit
        /\ kind = "hotplate" => H!PlateInit
        /\ kind = "flow" => F!FlowInit
        /\ kind = "pressure" => B!PressureInit
        /\ kind = "supply" => S!SupplyInit
        /\ kind = "heater" => T!HeaterInit
        /\ kind = "calibrations" => C!CalibrationsInit
        /\ kind = "screen" => O!ScreenInit
        /\ kind = "alicat" => A!SetupInit
        /\ kind = "memory" => M!HealthInit
        /\ kind = "bus" => Y!BusInit
    BY DEF Init
  <1> QED
    BY <1>1, PumpStarts, PlateStarts, FlowStarts, PressureStarts, SupplyStarts, HeaterStarts,
       CalibrationsStart, ScreenStarts, AlicatStarts, MemoryStarts, BusStarts DEF OperationInv

(* A step is one of what there is, or of nothing of it. *)
LEMMA Steps ==
  ASSUME [Next]_all
  PROVE  /\ kind' = kind
         /\ kind = "pump" => P!PumpNext \/ UNCHANGED vars
         /\ kind = "hotplate" => H!PlateNext \/ UNCHANGED vars
         /\ kind = "flow" => F!FlowNext \/ UNCHANGED vars
         /\ kind = "pressure" => B!PressureNext \/ UNCHANGED vars
         /\ kind = "supply" => S!SupplyNext \/ UNCHANGED vars
         /\ kind = "heater" => T!HeaterNext \/ UNCHANGED heaterVars
         /\ kind = "calibrations" => C!CalibrationsNext \/ UNCHANGED calVars
         /\ kind = "notes" => N!NotesNext \/ UNCHANGED noteVars
         /\ kind = "screen" => O!ScreenNext \/ UNCHANGED screenVars
         /\ kind = "alicat" => A!SetupNext \/ UNCHANGED setupVars
         /\ kind = "graph" => G!HistoryNext \/ UNCHANGED graphVars
         /\ kind = "memory" => M!HealthNext \/ UNCHANGED memoryVars
         /\ kind = "set" => E!SetNext \/ UNCHANGED entryVars
         /\ kind = "loop" => E!LoopNext \/ UNCHANGED entryVars
         /\ kind = "end" => E!EndNext \/ UNCHANGED entryVars
         /\ kind = "bus" => Y!BusNext \/ UNCHANGED busVars
  <1>1. CASE Next
    BY <1>1 DEF Next
  <1>2. CASE UNCHANGED all
    BY <1>2, Zenon DEF all
  <1> QED
    BY <1>1, <1>2

LEMMA Stays ==
  ASSUME OperationInv, [Next]_all
  PROVE  OperationInv' /\ StartWithinLimit /\ StepAsTold
  <1>1. kind' = kind
    BY Steps
  <1>2. kind = "pump" => PumpInv' /\ P!PumpIsToldOn
    BY Steps, PumpStep DEF OperationInv
  <1>3. kind = "hotplate" => PlateInv' /\ H!StartsWithinLimit /\ H!PlateIsToldOn
    BY Steps, PlateStep DEF OperationInv, PlateGoal
  <1>4. kind = "flow" => FlowInv' /\ F!FlowIsToldOn
    BY Steps, FlowStep DEF OperationInv
  <1>5. kind = "pressure" => PressureInv' /\ B!OpensWithinCeiling /\ B!PressureIsToldOpen
    BY Steps, PressureStep DEF OperationInv
  <1>6. kind = "supply" => SupplyInv' /\ S!RaisedWithinCeiling /\ S!SupplyIsToldOn
    BY Steps, SupplyStep DEF OperationInv
  <1>7. kind = "heater" => HeaterInv' /\ T!SettingsAreAsTold
    BY Steps, HeaterStep DEF OperationInv
  <1>8. kind = "calibrations" => CalInv'
    BY Steps, CalStep DEF OperationInv
  <1>9. kind = "screen" => ScreenInv' /\ O!ClosesAfterItsWork
    BY Steps, ScreenStep DEF OperationInv, ScreenGoal
  <1>10. kind = "alicat" => AlicatInv' /\ A!SavedAsItIs
    BY Steps, AlicatStep DEF OperationInv
  <1>11. kind = "memory" => MemoryInv' /\ M!StaysStopped
    BY Steps, MemoryStep DEF OperationInv
  <1>12. kind = "bus" => BusInv'
    BY Steps, BusStep DEF OperationInv
  <1>13. OperationInv'
    BY <1>1, <1>2, <1>3, <1>4, <1>5, <1>6, <1>7, <1>8, <1>9, <1>10, <1>11, <1>12, Zenon DEF OperationInv
  <1>14. StartWithinLimit
    BY <1>3, <1>5, <1>6, Zenon DEF StartWithinLimit
  <1>15. StepAsTold
    BY <1>2, <1>3, <1>4, <1>5, <1>6, <1>7, <1>9, <1>10, <1>11, Zenon DEF StepAsTold
  <1> QED
    BY <1>13, <1>14, <1>15

(* A close that waits is resumed by what is under way, and of the orders there is one. *)
LEMMA ScreenShows ==
  ASSUME ScreenInv
  PROVE  O!CloseIsNotLost /\ O!OneOrder
  <1>1. O!CloseIsNotLost
    <2>1. pending /\ ~closed /\ ~overtaken => Among(O!JobKinds, jobs, results)
      BY DEF ScreenInv
    <2>2. jobs \in Seq(O!JobKinds) /\ results \in Seq(O!JobKinds)
      BY DEF ScreenInv, ScreenTypeOK
    <2> QED
      BY <2>1, <2>2, WorkUnderway DEF O!CloseIsNotLost, O!Underway
  <1>2. O!OneOrder
    <2> DEFINE them == {k \in DOMAIN jobs : jobs[k] \in Orders}
    <2>1. SUFFICES ASSUME ~forced PROVE Cardinality(them) <= 1
      BY DEF O!OneOrder, Orders, O!Cardinality, Cardinality
    <2>2. \A i, j \in them : i = j
      <3>1. DOMAIN jobs = 1..Len(jobs)
        BY LenProperties DEF ScreenInv, ScreenTypeOK
      <3> QED
        BY <2>1, <3>1 DEF ScreenInv, OnceAmong
    <2>3. CASE them = {}
      BY <2>3, FS_EmptySet
    <2>4. CASE them # {}
      <3>1. PICK k \in them : TRUE
        BY <2>4
      <3>2. them = {k}
        BY <2>2, <3>1
      <3>3. Cardinality({k}) = 1
        BY FS_Singleton
      <3> QED
        BY <3>2, <3>3
    <2> QED
      BY <2>3, <2>4
  <1> QED
    BY <1>1, <1>2

LEMMA Shows ==
  ASSUME OperationInv
  PROVE  RigIsAsShown
  <1>1. kind = "pump" => P!TurnsAsShown
    BY DEF OperationInv, PumpInv, P!TurnsAsShown
  <1>2. kind = "hotplate" => H!HeatsToItsTarget
    BY DEF OperationInv, PlateInv, Coherent, H!HeatsToItsTarget
  <1>3. kind = "calibrations" => C!RunUsesWhatItNames /\ C!ReviewedAsShown
    BY CalNames DEF OperationInv, CalInv
  <1>4. kind = "screen" => O!CloseIsNotLost /\ O!OneOrder
    BY ScreenShows DEF OperationInv
  <1>5. kind = "alicat" => A!NamedAsDescribed
    BY DEF OperationInv, AlicatInv
  <1>6. kind = "bus" => Y!BusServesItsClients
    BY BusServes DEF OperationInv
  <1> QED
    BY <1>1, <1>2, <1>3, <1>4, <1>5, <1>6, Zenon DEF RigIsAsShown

LEMMA Invariance == Spec => []OperationInv
  BY Starts, Stays, PTL DEF Spec

(* Whatever exchange fails and whatever front panels, operators and late replies do in
   between: a pump turns and a hotplate heats as it shows, a run is corrected by the
   calibrations it names, a screen closes when it says it will and gives one order at a
   time, and an Alicat is read under its own columns and its own name, on a port that is
   open as long as one uses it. *)
THEOREM RigAlwaysAsShown == Spec => []RigIsAsShown
  BY Invariance, Shows, PTL

(* No heating, opening, raising or tuning begins over its limit, for any temperatures,
   pressures, ceilings and ratings. *)
THEOREM StartsAreWithinLimits == Spec => StartsWithinLimit
  BY Invariance, Stays, PTL DEF Spec, StartsWithinLimit

(* What is told to be stopped, applied, closed or saved is so when it is told, at every
   step of anything that works by itself. *)
THEOREM WhatIsToldIsDone == Spec => DoneAsTold
  BY Invariance, Stays, PTL DEF Spec, DoneAsTold

=============================================================================
