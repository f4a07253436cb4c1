--------------------------- MODULE ControllerLink ---------------------------
(***************************************************************************)
(* The host's side of the ESP32: the bus that several devices share        *)
(* (devices/esp32_bus.py), its session and client (esp32/), the controller *)
(* device with its heartbeat thread (devices/esp32_controller.py) and a    *)
(* sensor behind the same line (devices/esp32_dht11.py).                   *)
(*                                                                         *)
(* A request and the wait for its reply hold the bus lock; a session       *)
(* being opened, and a read tried again, hold it throughout.  The          *)
(* controller's own lock is taken before the bus's.  The thread that has   *)
(* the bus is bus.user, and what it asked is bus.name.                     *)
(***************************************************************************)
EXTENDS WatchdogBoard, FiniteSets

CONSTANTS Operator,     \* the thread that connects, disconnects and commands the controller
          Poller,       \* the thread that connects, reads and disconnects the sensor
          Beats,        \* heartbeat threads
          Nobody,
          Attempts,     \* read_attempts
          Orders,       \* the commands the operator gives
          MaxClients,   \* bound: how often the bus is acquired at once
          MaxConnects   \* bound: how often the controller is connected

Threads == {Operator, Poller} \cup Beats

ASSUME ThreadsAssumption ==
    /\ Operator # Poller /\ {Operator, Poller} \cap Beats = {}
    /\ Nobody \notin Threads
ASSUME AttemptsAssumption == Attempts \in Nat \ {0}
ASSUME BoundsAssumption == MaxClients \in Nat \ {0} /\ MaxConnects \in Nat
ASSUME OrdersAssumption == Orders \subseteq {"rearm", "safe_state"}

VARIABLES bus,          \* Esp32Bus._lock and the request made under it
          clients,      \* Esp32Bus._client_count
          portOpen,     \* whether the session is connected
          ctl,          \* Esp32Controller: _bus_acquired, _status, believed watchdog_tripped
          ctlUser,      \* the thread that has Esp32Controller._lock
          stop,         \* Esp32Controller._stop
          sensorHas,    \* Esp32Dht11._bus_acquired
          at,           \* where each thread is
          left,         \* how the last disconnect() of the controller ended
          connects,     \* counted for its bound
          gone          \* the host's process has ended

vars == <<board, madeSafe, toBoard, toHost, faults, bus, clients, portOpen, ctl, ctlUser, stop,
          sensorHas, at, left, connects, gone>>

hostVars == <<bus, clients, portOpen, ctl, ctlUser, stop, sensorHas, at, left, connects, gone>>

(* What most steps of the host leave alone, by what it is about. *)
farSide == <<board, madeSafe>>
line == <<toBoard, toHost>>
connection == <<clients, portOpen, sensorHas>>
outcomes == <<left, connects, gone>>

Statuses == {"DISCONNECTED", "CONNECTING", "READY", "DEGRADED"}

OperatorLabels == {"idle", "acquire", "open", "first", "starting", "undo",
                   "join", "safe", "release", "rearm", "safe_state", "command",
                   "afterwards", "checking"}

PollerLabels == {"idle", "acquire", "open", "read"}

BeatLabels == {"dead", "waiting", "beat", "heartbeat", "look", "looking", "failed"}

(* Everything keeps to its type; the bus is asked by a thread that is about it. *)
TypeOK ==
    /\ BoardTypeOK
    /\ bus.user \in Threads \cup {Nobody}
    /\ bus.user # Nobody => bus.name \in Commands
    /\ clients \in 0..MaxClients
    /\ ctl \in [acquired : BOOLEAN, status : Statuses, tripped : BOOLEAN]
    /\ ctlUser \in {Operator, Nobody} \cup Beats
    /\ {portOpen, stop, sensorHas, gone} \subseteq BOOLEAN
    /\ at[Operator] \in OperatorLabels
    /\ at[Poller] \in PollerLabels
    /\ \A b \in Beats : at[b] \in BeatLabels
    /\ left \in {"none", "clean", "raised"}
    /\ connects \in 0..MaxConnects

FreeBus == [user |-> Nobody, name |-> "status", attempt |-> 1]

Init ==
    /\ BoardInit
    /\ bus = FreeBus
    /\ clients = 0
    /\ portOpen = FALSE
    /\ ctl = [acquired |-> FALSE, status |-> "DISCONNECTED", tripped |-> FALSE]
    /\ ctlUser = Nobody
    /\ stop = FALSE
    /\ sensorHas = FALSE
    /\ at = [t \in Threads |-> IF t \in Beats THEN "dead" ELSE "idle"]
    /\ left = "none"
    /\ connects = 0
    /\ gone = FALSE

Goto(t, label) == at' = [at EXCEPT ![t] = label]

-----------------------------------------------------------------------------
(* A request: _request() of the client, and the bus around it. *)

Asks(t, name) ==
    /\ bus = FreeBus
    /\ bus' = [FreeBus EXCEPT !.user = t, !.name = name]
    /\ Sent(name, toHost)

Waits(t) == bus.user = t

(* Mutation: the identifier of the reply is not compared. *)
AnyReply == toHost # <<>> /\ Head(toHost).ok

Matches == toHost # <<>> /\ Head(toHost).ok /\ Head(toHost).latest

Unread == IF toHost = <<>> THEN <<>> ELSE Tail(toHost)

Answered == Matches /\ toHost' = Unread /\ UNCHANGED faults

(* Another reply came, or a refusal, or none in time. *)
NoAnswer ==
    /\ ~Matches
    /\ toHost = <<>> /\ AnswerComing => faults < MaxFaults
    /\ faults' = IF toHost = <<>> /\ AnswerComing THEN faults + 1 ELSE faults

Raises == NoAnswer /\ toHost' = Unread

-----------------------------------------------------------------------------
(* acquire(), for the controller and for the sensor. *)

Acquired(t) ==
    IF t = Operator
    THEN ctl' = [ctl EXCEPT !.acquired = TRUE] /\ Goto(t, "first") /\ UNCHANGED sensorHas
    ELSE sensorHas' = TRUE /\ Goto(t, "idle") /\ UNCHANGED ctl

Acquire(t) ==
    /\ at[t] = "acquire"
    /\ bus = FreeBus
    /\ IF clients = 0
       THEN /\ portOpen' = TRUE
            /\ Asks(t, "identify")
            /\ Goto(t, "open")
            /\ UNCHANGED <<clients, ctl, sensorHas>>
       ELSE clients' = clients + 1 /\ Acquired(t) /\ UNCHANGED <<bus, portOpen, line>>
    /\ UNCHANGED <<farSide, ctlUser, stop, outcomes, faults>>

(* The session asks who is there, and for a heartbeat and its status. *)
Greet(t) ==
    /\ at[t] = "open"
    /\ Waits(t)
    /\ Matches
    /\ IF bus.name = "status"
       THEN /\ bus' = FreeBus
            /\ clients' = 1
            /\ Acquired(t)
            /\ toHost' = Unread
            /\ UNCHANGED toBoard
       ELSE LET next == IF bus.name = "identify" THEN "heartbeat" ELSE "status"
            IN /\ bus' = [bus EXCEPT !.name = next]
               /\ Sent(next, Unread)
               /\ UNCHANGED <<clients, ctl, sensorHas, at>>
    /\ UNCHANGED <<farSide, portOpen, ctlUser, stop, outcomes, faults>>

GreetingFails(t) ==
    /\ at[t] = "open"
    /\ Waits(t)
    /\ NoAnswer
    /\ PortClosed
    /\ portOpen' = FALSE
    /\ bus' = FreeBus
    /\ IF t = Operator
       THEN ctl' = [ctl EXCEPT !.status = "DISCONNECTED"] /\ ctlUser' = Nobody
       ELSE UNCHANGED <<ctl, ctlUser>>
    /\ Goto(t, "idle")
    /\ UNCHANGED <<farSide, clients, sensorHas, stop, outcomes>>

(* Mutation: whoever releases the bus closes it. *)
CloseAnyway ==
    /\ bus = FreeBus
    /\ clients' = clients - 1
    /\ portOpen' = FALSE
    /\ PortClosed

Release ==
    /\ bus = FreeBus
    /\ clients' = clients - 1
    /\ IF clients = 1 THEN portOpen' = FALSE /\ PortClosed
                      ELSE UNCHANGED <<portOpen, line>>

-----------------------------------------------------------------------------
(* The sensor, and whoever polls it.  Nothing stops it being connected when it
   is; the bound leaves room for the controller. *)

SensorConnects ==
    /\ at[Poller] = "idle"
    /\ clients + (IF ctl.acquired THEN 0 ELSE 1) < MaxClients
    /\ Goto(Poller, "acquire")
    /\ UNCHANGED <<farSide, line, bus, connection, ctl, ctlUser, stop, outcomes, faults>>

SensorDisconnects ==
    /\ at[Poller] = "idle"
    /\ sensorHas
    /\ Release
    /\ sensorHas' = FALSE
    /\ UNCHANGED <<farSide, bus, ctl, ctlUser, stop, at, outcomes, faults>>

Read ==
    /\ at[Poller] = "idle"
    /\ clients > 0
    /\ Asks(Poller, "read_sensors")
    /\ Goto(Poller, "read")
    /\ UNCHANGED <<farSide, connection, ctl, ctlUser, stop, outcomes, faults>>

ReadEnds ==
    /\ at[Poller] = "read"
    /\ Waits(Poller)
    /\ Answered \/ (bus.attempt = Attempts /\ Raises)
    /\ bus' = FreeBus
    /\ Goto(Poller, "idle")
    /\ UNCHANGED <<farSide, toBoard, connection, ctl, ctlUser, stop, outcomes>>

ReadAgain ==
    /\ at[Poller] = "read"
    /\ Waits(Poller)
    /\ bus.attempt < Attempts
    /\ NoAnswer
    /\ bus' = [bus EXCEPT !.attempt = @ + 1]
    /\ Sent("read_sensors", Unread)
    /\ UNCHANGED <<farSide, connection, ctl, ctlUser, stop, at, outcomes>>

-----------------------------------------------------------------------------
(* connect() of the controller. *)

Connect ==
    /\ at[Operator] = "idle"
    /\ connects < MaxConnects
    /\ ctlUser = Nobody
    /\ ~ctl.acquired
    /\ connects' = connects + 1
    /\ ctlUser' = Operator
    /\ ctl' = [ctl EXCEPT !.status = "CONNECTING"]
    /\ left' = "none"
    /\ Goto(Operator, "acquire")
    /\ UNCHANGED <<farSide, line, bus, connection, stop, gone, faults>>

AskStatus(t, from, to) ==
    /\ at[t] = from
    /\ clients > 0
    /\ Asks(t, "status")
    /\ Goto(t, to)
    /\ UNCHANGED <<farSide, connection, ctl, ctlUser, stop, outcomes, faults>>

NewThread == CHOOSE b \in Beats : at[b] = "dead"

(* Mutation: the heartbeat thread is started before _stop is cleared. *)
StartBeforeClearing ==
    /\ at[Operator] = "starting"
    /\ Waits(Operator)
    /\ Answered
    /\ \E b \in Beats : at[b] = "dead"
    /\ bus' = FreeBus
    /\ ctlUser' = Nobody
    /\ ctl' = [ctl EXCEPT !.status = "READY", !.tripped = Head(toHost).tripped]
    /\ stop' = FALSE
    /\ at' = [at EXCEPT ![Operator] = "idle", ![NewThread] = IF stop THEN "dead" ELSE "waiting"]
    /\ UNCHANGED <<farSide, toBoard, connection, outcomes>>

Start ==
    /\ at[Operator] = "starting"
    /\ Waits(Operator)
    /\ Answered
    /\ \E b \in Beats : at[b] = "dead"
    /\ bus' = FreeBus
    /\ ctlUser' = Nobody
    /\ ctl' = [ctl EXCEPT !.status = "READY", !.tripped = Head(toHost).tripped]
    /\ stop' = FALSE
    /\ at' = [at EXCEPT ![Operator] = "idle", ![NewThread] = "waiting"]
    /\ UNCHANGED <<farSide, toBoard, connection, outcomes>>

StartFails ==
    /\ at[Operator] = "starting"
    /\ Waits(Operator)
    /\ Raises
    /\ bus' = FreeBus
    /\ Goto(Operator, "undo")
    /\ UNCHANGED <<farSide, toBoard, connection, ctl, ctlUser, stop, outcomes>>

Leave ==
    /\ Release
    /\ ctl' = [ctl EXCEPT !.acquired = FALSE, !.status = "DISCONNECTED"]
    /\ ctlUser' = Nobody
    /\ Goto(Operator, "idle")
    /\ UNCHANGED <<farSide, bus, sensorHas, outcomes, faults>>

Undo == at[Operator] = "undo" /\ Leave /\ UNCHANGED stop

-----------------------------------------------------------------------------
(* disconnect() of the controller. *)

Disconnect ==
    /\ at[Operator] = "idle"
    /\ IF ctl.acquired
       THEN /\ stop' = TRUE
            /\ madeSafe' = FALSE
            /\ left' = "none"
            /\ Goto(Operator, "join")
            /\ UNCHANGED ctl
       ELSE /\ ctl.status # "DISCONNECTED"
            /\ ctl' = [ctl EXCEPT !.status = "DISCONNECTED"]
            /\ UNCHANGED <<stop, madeSafe, left, at>>
    /\ UNCHANGED <<board, faults, line, bus, connection, ctlUser, connects, gone>>

(* The wait for the heartbeat thread ends with it, or after a while; then the
   controller's lock is waited for. *)
Joined ==
    /\ at[Operator] = "join"
    /\ ctlUser = Nobody
    /\ ctlUser' = Operator
    /\ Goto(Operator, IF ctl.status = "DISCONNECTED" THEN "release" ELSE "safe")
    /\ UNCHANGED <<farSide, line, bus, connection, ctl, stop, outcomes, faults>>

AskSafe ==
    /\ at[Operator] = "safe"
    /\ Asks(Operator, "safe_state")
    /\ UNCHANGED <<farSide, connection, ctl, ctlUser, stop, at, outcomes, faults>>

SafeEnds ==
    /\ at[Operator] = "safe"
    /\ Waits(Operator)
    /\ \/ Answered /\ left' = "clean"
       \/ Raises /\ left' = "raised"
    /\ bus' = FreeBus
    /\ Goto(Operator, "release")
    /\ UNCHANGED <<farSide, toBoard, connection, ctl, ctlUser, stop, connects, gone>>

Disconnected == at[Operator] = "release" /\ Leave /\ UNCHANGED stop

-----------------------------------------------------------------------------
(* rearm() and enter_safe_state(): the command, and then the status. *)

Order(name) ==
    /\ at[Operator] = "idle"
    /\ ctlUser = Nobody
    /\ ctlUser' = Operator
    /\ Goto(Operator, name)
    /\ UNCHANGED <<farSide, line, bus, connection, ctl, stop, outcomes, faults>>

AskOrder ==
    /\ at[Operator] \in {"rearm", "safe_state"}
    /\ clients > 0
    /\ Asks(Operator, at[Operator])
    /\ Goto(Operator, "command")
    /\ UNCHANGED <<farSide, connection, ctl, ctlUser, stop, outcomes, faults>>

(* Nothing is connected: the bus refuses. *)
CannotAsk(t, labels, to) ==
    /\ at[t] \in labels
    /\ bus = FreeBus
    /\ clients = 0
    /\ ctlUser' = Nobody
    /\ Goto(t, to)
    /\ UNCHANGED <<farSide, line, bus, connection, ctl, stop, outcomes, faults>>

Ordered ==
    /\ at[Operator] = "command"
    /\ Waits(Operator)
    /\ Answered
    /\ bus' = FreeBus
    /\ Goto(Operator, "afterwards")
    /\ UNCHANGED <<farSide, toBoard, connection, ctl, ctlUser, stop, outcomes>>

OrderEnds ==
    /\ \/ at[Operator] = "command" /\ Raises /\ UNCHANGED ctl
       \/ at[Operator] = "checking" /\ Raises /\ UNCHANGED ctl
       \/ /\ at[Operator] = "checking"
          /\ Answered
          /\ ctl' = [ctl EXCEPT !.tripped = Head(toHost).tripped]
    /\ Waits(Operator)
    /\ bus' = FreeBus
    /\ ctlUser' = Nobody
    /\ Goto(Operator, "idle")
    /\ UNCHANGED <<farSide, toBoard, connection, stop, outcomes>>

-----------------------------------------------------------------------------
(* The heartbeat threads. *)

BeatWakes(b) ==
    /\ at[b] = "waiting"
    /\ Goto(b, IF stop THEN "dead" ELSE "beat")
    /\ UNCHANGED <<farSide, line, bus, connection, ctl, ctlUser, stop, outcomes, faults>>

Locks(b) ==
    /\ at[b] = "beat"
    /\ ctlUser = Nobody
    /\ ctlUser' = b
    /\ Goto(b, "heartbeat")
    /\ UNCHANGED <<farSide, line, bus, connection, ctl, stop, outcomes, faults>>

AskHeartbeat(b) ==
    /\ at[b] = "heartbeat"
    /\ clients > 0
    /\ Asks(b, "heartbeat")
    /\ UNCHANGED <<farSide, connection, ctl, ctlUser, stop, at, outcomes, faults>>

Beat(b) ==
    /\ at[b] = "heartbeat"
    /\ Waits(b)
    /\ bus' = FreeBus
    /\ \/ Answered /\ ctl' = [ctl EXCEPT !.status = "READY"] /\ Goto(b, "waiting")
       \/ Raises /\ Goto(b, "failed") /\ UNCHANGED ctl
    /\ ctlUser' = Nobody
    /\ UNCHANGED <<farSide, toBoard, connection, stop, outcomes>>

(* When thirty seconds have passed since the last look, the status is asked too. *)
BeatAndLook(b) ==
    /\ at[b] = "heartbeat"
    /\ Waits(b)
    /\ Answered
    /\ bus' = FreeBus
    /\ ctl' = [ctl EXCEPT !.status = "READY"]
    /\ Goto(b, "look")
    /\ UNCHANGED <<farSide, toBoard, connection, ctlUser, stop, outcomes>>

(* Mutation: the status only ever clears what is believed of the latch. *)
LookClears(b) ==
    /\ at[b] = "looking"
    /\ Waits(b)
    /\ bus' = FreeBus
    /\ \/ Answered /\ ctl' = [ctl EXCEPT !.tripped = @ /\ Head(toHost).tripped]
       \/ Raises /\ UNCHANGED ctl
    /\ ctlUser' = Nobody
    /\ Goto(b, "waiting")
    /\ UNCHANGED <<farSide, toBoard, connection, stop, outcomes>>

Look(b) ==
    /\ at[b] = "looking"
    /\ Waits(b)
    /\ bus' = FreeBus
    /\ \/ Answered /\ ctl' = [ctl EXCEPT !.tripped = Head(toHost).tripped]
       \/ Raises /\ UNCHANGED ctl
    /\ ctlUser' = Nobody
    /\ Goto(b, "waiting")
    /\ UNCHANGED <<farSide, toBoard, connection, stop, outcomes>>

(* The failure is noted under the controller's lock, taken again. *)
BeatFailed(b) ==
    /\ at[b] = "failed"
    /\ ctlUser = Nobody
    /\ ctl' = [ctl EXCEPT !.status = "DEGRADED"]
    /\ Goto(b, "waiting")
    /\ UNCHANGED <<farSide, line, bus, connection, ctlUser, stop, outcomes, faults>>

-----------------------------------------------------------------------------
(* The host's process ends; the line and the board stay. *)
HostEnds ==
    /\ ~gone
    /\ gone' = TRUE
    /\ PortClosed
    /\ bus' = FreeBus
    /\ clients' = 0
    /\ portOpen' = FALSE
    /\ sensorHas' = FALSE
    /\ ctl' = [acquired |-> FALSE, status |-> "DISCONNECTED", tripped |-> FALSE]
    /\ ctlUser' = Nobody
    /\ at' = [t \in Threads |-> IF t \in Beats THEN "dead" ELSE "idle"]
    /\ stop' = FALSE
    /\ left' = "none"
    /\ connects' = 0
    /\ UNCHANGED <<farSide, faults>>

Connecting == Acquire(Operator) \/ Greet(Operator) \/ GreetingFails(Operator)
              \/ AskStatus(Operator, "first", "starting") \/ Start \/ StartFails \/ Undo

Disconnecting == Joined \/ AskSafe \/ SafeEnds \/ Disconnected

Commanding == AskOrder \/ Ordered \/ AskStatus(Operator, "afterwards", "checking") \/ OrderEnds
              \/ CannotAsk(Operator, {"rearm", "safe_state", "afterwards"}, "idle")

Polling == Acquire(Poller) \/ Greet(Poller) \/ GreetingFails(Poller) \/ ReadEnds \/ ReadAgain

Beating(b) == BeatWakes(b) \/ Locks(b) \/ AskHeartbeat(b) \/ Beat(b) \/ BeatAndLook(b)
              \/ CannotAsk(b, {"heartbeat"}, "failed") \/ CannotAsk(b, {"look"}, "waiting")
              \/ AskStatus(b, "look", "looking") \/ Look(b) \/ BeatFailed(b)

Board == TimePasses \/ CheckWatchdog \/ handleCommand \/ LineFault

Host ==
    \/ Connect \/ Connecting
    \/ Disconnect \/ Disconnecting
    \/ (\E name \in Orders : Order(name)) \/ Commanding
    \/ SensorConnects \/ SensorDisconnects \/ Read \/ Polling
    \/ \E b \in Beats : Beating(b)

Next ==
    \/ Board /\ UNCHANGED hostVars
    \/ ~gone /\ Host
    \/ HostEnds

Spec == Init /\ [][Next]_vars

(* The board's loop runs.  Whoever waits for a reply goes on when one comes or
   the time is up.  The operator's and the heartbeat threads get a lock that is
   free again and again, and of many good heartbeats some come when the status
   is due. *)
FairSpec ==
    /\ Spec
    /\ WF_vars(CheckWatchdog /\ UNCHANGED hostVars)
    /\ WF_vars(handleCommand /\ UNCHANGED hostVars)
    /\ WF_vars(gone /\ TimePasses /\ UNCHANGED hostVars)
    /\ WF_vars(~gone /\ Polling)
    /\ SF_vars(~gone /\ (Connecting \/ Disconnecting \/ Commanding))
    /\ SF_vars(~gone /\ \E b \in Beats : Beating(b))
    /\ SF_vars(~gone /\ \E b \in Beats : BeatAndLook(b))

-----------------------------------------------------------------------------
(* A device that has the bus is never cut off by another that leaves it, or that
   failed to connect: the port is open exactly while somebody counts. *)
NobodyCutOff ==
    /\ (IF ctl.acquired THEN 1 ELSE 0) + (IF sensorHas THEN 1 ELSE 0) <= clients
    /\ bus = FreeBus => (portOpen <=> clients > 0)

(* While the controller is connected a heartbeat thread runs that nobody has told
   to stop, whatever is left of those before it. *)
BeatsWhileConnected ==
    ctl.acquired /\ at[Operator] = "idle" => ~stop /\ \E b \in Beats : at[b] # "dead"

(* A disconnect() that does not raise has made the board safe, whatever late
   replies were on the line. *)
CleanDisconnectIsSafe == left = "clean" => madeSafe

(* The operator does not go on seeing a ready controller with nothing latched
   when the board has latched. *)
Trusted == ctl.acquired /\ ctl.status = "READY" /\ ~ctl.tripped

TripIsLearned == board.watchdogTripped /\ Trusted ~> ~board.watchdogTripped \/ ~Trusted

(* A board that heard heartbeats latches for good once the host has ended. *)
SilenceTrips == gone ~> [](board.heartbeatReceived => board.watchdogTripped)

(* The board notices that it is alone, and the operator that it noticed. *)
WatchdogDoesItsWork == SilenceTrips /\ TripIsLearned

=============================================================================
