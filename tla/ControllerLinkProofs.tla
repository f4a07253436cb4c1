------------------------ MODULE ControllerLinkProofs ------------------------
(* Proofs about ControllerLink for any number of heartbeat threads, of attempts,
   of faults on the line and of connections. *)
EXTENDS ControllerLink, SequenceTheorems, TLAPS

(***************************************************************************)
(* The line.                                                               *)
(***************************************************************************)

LineType == toBoard \in Seq(Requests) /\ toHost \in Seq(Replies)

(* Taking the first message of a line leaves messages. *)
LEMMA HeadAndTail ==
  ASSUME NEW S, NEW s \in Seq(S), s # <<>>
  PROVE  /\ Head(s) \in S
         /\ Tail(s) \in Seq(S)
         /\ 1 \in DOMAIN s /\ Head(s) = s[1]
         /\ \A i \in DOMAIN Tail(s) : i + 1 \in DOMAIN s /\ Tail(s)[i] = s[i + 1]
  BY HeadTailProperties, EmptySeq, LenProperties, ElementOfSeq

(* Adding a message leaves the others. *)
LEMMA Added ==
  ASSUME NEW S, NEW s \in Seq(S), NEW e \in S
  PROVE  /\ Append(s, e) \in Seq(S)
         /\ \A i \in DOMAIN Append(s, e) : (i \in DOMAIN s /\ Append(s, e)[i] = s[i]) \/ Append(s, e)[i] = e
  BY AppendProperties, LenProperties

(* What a message says. *)
LEMMA RequestFields ==
  ASSUME NEW r \in Requests
  PROVE  r.name \in Commands /\ r.latest \in BOOLEAN /\ [r EXCEPT !.latest = FALSE] \in Requests
         /\ [r EXCEPT !.latest = FALSE].latest = FALSE
  BY DEF Requests

LEMMA ReplyFields ==
  ASSUME NEW r \in Replies
  PROVE  r.ok \in BOOLEAN /\ r.latest \in BOOLEAN /\ r.tripped \in BOOLEAN
  BY DEF Replies

LEMMA RequestMade ==
  ASSUME NEW n \in Commands, NEW b \in BOOLEAN
  PROVE  [name |-> n, latest |-> b] \in Requests
  BY Zenon DEF Requests

LEMMA ReplyMade ==
  ASSUME NEW a \in BOOLEAN, NEW b \in BOOLEAN, NEW c \in BOOLEAN
  PROVE  [ok |-> a, latest |-> b, tripped |-> c] \in Replies
  BY Zenon DEF Replies

(* With a new request or none, no earlier message is the latest any more. *)
LEMMA StaleTypes ==
  ASSUME LineType, NEW unread \in Seq(Replies)
  PROVE  /\ StaleRequests \in Seq(Requests)
         /\ \A i \in DOMAIN StaleRequests : StaleRequests[i].latest = FALSE
         /\ StaleReplies(unread) \in Seq(Replies)
         /\ \A i \in DOMAIN StaleReplies(unread) : StaleReplies(unread)[i].latest = FALSE
  <1>1. /\ StaleRequests \in Seq(Requests)
        /\ \A i \in DOMAIN StaleRequests : StaleRequests[i].latest = FALSE
    <2>1. Len(toBoard) \in Nat /\ DOMAIN toBoard = 1 .. Len(toBoard)
          /\ \A i \in DOMAIN toBoard : toBoard[i] \in Requests
      BY LenProperties, ElementOfSeq DEF LineType
    <2>2. StaleRequests \in [1 .. Len(toBoard) -> Requests]
      BY <2>1, RequestFields DEF StaleRequests
    <2>3. StaleRequests \in Seq(Requests)
      BY <2>1, <2>2, IsASeq
    <2>4. ASSUME NEW i \in DOMAIN StaleRequests
          PROVE  StaleRequests[i].latest = FALSE
      <3>1. toBoard[i] \in Requests /\ StaleRequests[i] = [toBoard[i] EXCEPT !.latest = FALSE]
        BY <2>1, <2>4 DEF StaleRequests
      <3> QED
        BY <3>1, RequestFields
    <2> QED
      BY <2>3, <2>4
  <1>2. /\ StaleReplies(unread) \in Seq(Replies)
        /\ \A i \in DOMAIN StaleReplies(unread) : StaleReplies(unread)[i].latest = FALSE
    <2>1. Len(unread) \in Nat /\ DOMAIN unread = 1 .. Len(unread)
      BY LenProperties
    <2>2. [ok |-> TRUE, latest |-> FALSE, tripped |-> FALSE] \in Replies
      BY Zenon DEF Replies
    <2>3. StaleReplies(unread) \in [1 .. Len(unread) -> Replies]
      BY <2>1, <2>2 DEF StaleReplies
    <2> QED
      BY <2>1, <2>3, IsASeq DEF StaleReplies
  <1> QED
    BY <1>1, <1>2

(* After a request is sent it alone is the latest, and no reply is. *)
LEMMA SentLine ==
  ASSUME LineType, NEW name \in Commands, NEW unread \in Seq(Replies), Sent(name, unread)
  PROVE  /\ LineType'
         /\ \A i \in DOMAIN toBoard' : toBoard'[i].latest => toBoard'[i].name = name
         /\ \A i \in DOMAIN toHost' : ~toHost'[i].latest
  <1>1. PICK e \in Requests : e = [name |-> name, latest |-> TRUE]
    BY RequestMade
  <1>2. PICK stale \in Seq(Requests) :
           stale = StaleRequests /\ \A i \in DOMAIN stale : stale[i].latest = FALSE
    BY StaleTypes
  <1>3. toBoard' = Append(stale, e)
    BY <1>1, <1>2 DEF Sent
  <1>4. toBoard' \in Seq(Requests) /\ \A i \in DOMAIN toBoard' : toBoard'[i].latest => toBoard'[i] = e
    BY <1>2, <1>3, Added
  <1>5. toHost' \in Seq(Replies) /\ \A i \in DOMAIN toHost' : toHost'[i].latest = FALSE
    BY StaleTypes DEF Sent
  <1> QED
    BY <1>1, <1>4, <1>5 DEF LineType

(* After the port is closed nothing on the line is the latest. *)
LEMMA ClosedLine ==
  ASSUME LineType, PortClosed
  PROVE  LineType'
  BY StaleTypes, EmptySeq DEF PortClosed, LineType

(* What is left unread are replies. *)
LEMMA UnreadType == ASSUME LineType PROVE Unread \in Seq(Replies)
  BY HeadAndTail, EmptySeq DEF Unread, LineType

(* The board's steps keep the line's types. *)
LEMMA BoardLine ==
  ASSUME LineType, Board, board.watchdogTripped \in BOOLEAN
  PROVE  LineType'
  <1>1. CASE TimePasses \/ CheckWatchdog
    BY <1>1 DEF TimePasses, CheckWatchdog, LineType
  <1>2. CASE handleCommand
    <2> DEFINE request == Head(toBoard)
    <2>1. request \in Requests /\ Tail(toBoard) \in Seq(Requests)
      BY <1>2, HeadAndTail DEF handleCommand, LineType
    <2>2. Reply(request) \in Replies
      <3>1. Refused(request.name) \in BOOLEAN /\ request.latest \in BOOLEAN
        BY <2>1, RequestFields DEF Refused
      <3>2. (request.name = "status" /\ request.latest /\ board.watchdogTripped) \in BOOLEAN
        OBVIOUS
      <3> QED
        BY <3>1, <3>2, ReplyMade, Zenon DEF Reply
    <2> QED
      BY <1>2, <2>1, <2>2, Added DEF handleCommand, LineType
  <1>3. CASE LineFault
    BY <1>3, HeadAndTail, EmptySeq DEF LineFault, LineType
  <1> QED
    BY <1>1, <1>2, <1>3 DEF Board

(***************************************************************************)
(* The bus, and who has it.                                                *)
(***************************************************************************)

BusType == bus \in [user : Threads \cup {Nobody}, name : Commands, attempt : Nat]

CtlType == ctl \in [acquired : BOOLEAN, status : Statuses, tripped : BOOLEAN]

AtType ==
    /\ at \in [Threads -> OperatorLabels \cup PollerLabels \cup BeatLabels]
    /\ at[Operator] \in OperatorLabels
    /\ at[Poller] \in PollerLabels
    /\ \A b \in Beats : at[b] \in BeatLabels

HostType == BusType /\ CtlType /\ AtType /\ clients \in Nat

(* What makes NobodyCutOff inductive: whoever opens the session has the bus for
   the whole of it, and the controller is acquired exactly where connect() and
   disconnect() take it to be. *)
BusInv ==
    /\ (IF ctl.acquired THEN 1 ELSE 0) + (IF sensorHas THEN 1 ELSE 0) <= clients
    /\ \A t \in {Operator, Poller} : at[t] = "open" => bus.user = t /\ clients = 0 /\ portOpen
    /\ at[Operator] # "open" /\ at[Poller] # "open" => (portOpen <=> clients > 0)
    /\ at[Operator] \in {"acquire", "open"} => ~ctl.acquired
    /\ at[Operator] \in {"first", "starting", "undo", "join", "safe", "release"} => ctl.acquired

(* Threads are told apart. *)
LEMMA ThreadFacts ==
  /\ Operator \in Threads /\ Poller \in Threads /\ Beats \subseteq Threads
  /\ Operator # Poller /\ Operator \notin Beats /\ Poller \notin Beats
  /\ Nobody \notin Threads
  BY ThreadsAssumption DEF Threads

LEMMA FreeBusType ==
  /\ FreeBus \in [user : Threads \cup {Nobody}, name : Commands, attempt : Nat]
  /\ FreeBus.user = Nobody
  BY DEF FreeBus, Commands

(* The labels of each kind of thread. *)
LEMMA LabelFacts ==
  /\ {"idle", "acquire", "open", "first", "starting", "undo", "join", "safe", "release", "rearm",
      "safe_state", "command", "afterwards", "checking"} \subseteq OperatorLabels
  /\ {"idle", "acquire", "open", "read"} \subseteq PollerLabels
  /\ {"dead", "waiting", "beat", "heartbeat", "look", "looking", "failed"} \subseteq BeatLabels
  /\ "open" \notin BeatLabels
  BY DEF OperatorLabels, PollerLabels, BeatLabels

(* A thread that moves leaves the others where they are. *)
LEMMA OperatorMoves ==
  ASSUME AtType, NEW l \in OperatorLabels, Goto(Operator, l)
  PROVE  AtType' /\ at'[Operator] = l /\ at'[Poller] = at[Poller] /\ \A b \in Beats : at'[b] = at[b]
  BY ThreadFacts DEF AtType, Goto

LEMMA PollerMoves ==
  ASSUME AtType, NEW l \in PollerLabels, Goto(Poller, l)
  PROVE  AtType' /\ at'[Poller] = l /\ at'[Operator] = at[Operator] /\ \A b \in Beats : at'[b] = at[b]
  BY ThreadFacts DEF AtType, Goto

LEMMA BeatMoves ==
  ASSUME AtType, NEW b \in Beats, NEW l \in BeatLabels, Goto(b, l)
  PROVE  /\ AtType' /\ at'[Poller] = at[Poller] /\ at'[Operator] = at[Operator]
         /\ at'[b] = l /\ \A o \in Beats \ {b} : at'[o] = at[o]
  BY ThreadFacts DEF AtType, Goto

(* What the controller remembers changes field by field. *)
LEMMA CtlChanges ==
  ASSUME CtlType, NEW s \in Statuses, NEW b \in BOOLEAN
  PROVE  /\ ctl' = [ctl EXCEPT !.acquired = b] => CtlType' /\ ctl'.acquired = b
         /\ ctl' = [ctl EXCEPT !.status = s] => CtlType' /\ ctl'.acquired = ctl.acquired
         /\ ctl' = [ctl EXCEPT !.tripped = b] => CtlType' /\ ctl'.acquired = ctl.acquired
         /\ ctl' = [ctl EXCEPT !.status = s, !.tripped = b] => CtlType' /\ ctl'.acquired = ctl.acquired
         /\ ctl' = [ctl EXCEPT !.acquired = b, !.status = s] => CtlType' /\ ctl'.acquired = b
  BY DEF CtlType

LEMMA StatusFacts == {"DISCONNECTED", "CONNECTING", "READY", "DEGRADED"} \subseteq Statuses
  BY DEF Statuses

LEMMA CommandFacts ==
  {"identify", "heartbeat", "status", "safe_state", "rearm", "read_sensors"} \subseteq Commands
  BY DEF Commands

LEMMA HostInit == Init => HostType /\ BusInv
  <1> SUFFICES ASSUME Init PROVE HostType /\ BusInv
    OBVIOUS
  <1> USE ThreadFacts
  <1>1. CtlType
    BY DEF Init, Statuses, CtlType
  <1>2. AtType
    BY LabelFacts DEF Init, AtType
  <1> QED
    BY <1>1, <1>2, FreeBusType DEF Init, HostType, BusType, BusInv

(* Who asks has the bus. *)
LEMMA AskedBus ==
  ASSUME NEW t \in Threads, NEW name \in Commands, Asks(t, name)
  PROVE  bus.user = Nobody /\ BusType' /\ bus'.user = t /\ bus'.name = name
  BY FreeBusType, ThreadFacts DEF Asks, BusType

(* Steps that leave the session and its users alone, whatever the operator does
   with the controller. *)
LEMMA BusUntouched ==
  ASSUME BusInv, HostType, AtType',
         UNCHANGED <<clients, portOpen, sensorHas, ctl.acquired, at[Poller]>>,
         UNCHANGED bus \/ bus.user = Nobody \/ at[bus.user] # "open",
         \/ UNCHANGED at[Operator]
         \/ at'[Operator] \in {"acquire", "open"} /\ ~ctl.acquired /\ at[Operator] # "open" /\ at'[Operator] # "open"
         \/ at'[Operator] \notin {"acquire", "open"} /\ at[Operator] # "open"
            /\ (at'[Operator] \in {"first", "starting", "undo", "join", "safe", "release"} => ctl.acquired)
  PROVE  BusInv'
  BY ThreadFacts DEF BusInv, HostType, BusType

(* connect() and disconnect() of the controller. *)
LEMMA ConnectBus ==
  ASSUME HostType, BusInv, LineType, Connect \/ Connecting \/ Disconnect \/ Disconnecting
  PROVE  HostType' /\ BusInv'
  <1> USE ThreadFacts, LabelFacts, StatusFacts, CommandFacts
      DEF HostType, farSide, line, connection, outcomes
  <1>1. CASE Connect
    BY <1>1, OperatorMoves, CtlChanges, BusUntouched DEF Connect, BusType
  <1>2. CASE Acquire(Operator)
    <2>1. CASE clients = 0
      <3>1. Asks(Operator, "identify") /\ portOpen' = TRUE /\ Goto(Operator, "open")
            /\ UNCHANGED <<clients, ctl, sensorHas>> /\ at[Operator] = "acquire"
        BY <1>2, <2>1 DEF Acquire
      <3>2. BusType' /\ bus'.user = Operator /\ bus.user = Nobody
        BY <3>1, AskedBus
      <3>3. AtType' /\ at'[Operator] = "open" /\ at'[Poller] = at[Poller]
        BY <3>1, OperatorMoves
      <3> QED
        BY <2>1, <3>1, <3>2, <3>3 DEF CtlType, BusInv
    <2>2. CASE clients # 0
      <3>1. clients' = clients + 1 /\ ctl' = [ctl EXCEPT !.acquired = TRUE] /\ Goto(Operator, "first")
            /\ UNCHANGED <<bus, portOpen, sensorHas>> /\ at[Operator] = "acquire"
        BY <1>2, <2>2 DEF Acquire, Acquired
      <3>2. CtlType' /\ ctl'.acquired = TRUE
        BY <3>1, CtlChanges
      <3>3. AtType' /\ at'[Operator] = "first" /\ at'[Poller] = at[Poller]
        BY <3>1, OperatorMoves
      <3> QED
        BY <2>2, <3>1, <3>2, <3>3 DEF BusType, BusInv
    <2> QED
      BY <2>1, <2>2
  <1>3. CASE Greet(Operator)
    <2>1. at[Operator] = "open" /\ bus.user = Operator /\ UNCHANGED portOpen
      BY <1>3 DEF Greet, Waits
    <2>2. CASE bus.name = "status"
      <3>1. bus' = FreeBus /\ clients' = 1 /\ ctl' = [ctl EXCEPT !.acquired = TRUE] /\ Goto(Operator, "first")
            /\ UNCHANGED sensorHas
        BY <1>3, <2>2 DEF Greet, Acquired
      <3>2. CtlType' /\ ctl'.acquired = TRUE
        BY <3>1, CtlChanges
      <3>3. AtType' /\ at'[Operator] = "first" /\ at'[Poller] = at[Poller]
        BY <3>1, OperatorMoves
      <3> QED
        BY <2>1, <3>1, <3>2, <3>3, FreeBusType DEF BusType, BusInv
    <2>3. CASE bus.name # "status"
      <3>1. PICK next \in Commands : bus' = [bus EXCEPT !.name = next]
        BY <1>3, <2>3 DEF Greet
      <3>2. BusType' /\ bus'.user = bus.user
        BY <3>1 DEF BusType
      <3>3. UNCHANGED <<clients, ctl, sensorHas, at>>
        BY <1>3, <2>3 DEF Greet
      <3> QED
        BY <2>1, <3>2, <3>3 DEF AtType, CtlType, BusInv
    <2> QED
      BY <2>2, <2>3
  <1>4. CASE GreetingFails(Operator)
    <2>1. /\ at[Operator] = "open" /\ bus.user = Operator /\ portOpen' = FALSE /\ bus' = FreeBus
          /\ ctl' = [ctl EXCEPT !.status = "DISCONNECTED"] /\ Goto(Operator, "idle")
          /\ UNCHANGED <<clients, sensorHas>>
      BY <1>4 DEF GreetingFails, Waits
    <2>2. CtlType' /\ ctl'.acquired = ctl.acquired
      BY <2>1, CtlChanges
    <2>3. AtType' /\ at'[Operator] = "idle" /\ at'[Poller] = at[Poller]
      BY <2>1, OperatorMoves
    <2> QED
      BY <2>1, <2>2, <2>3, FreeBusType DEF BusType, BusInv
  <1>5. CASE AskStatus(Operator, "first", "starting")
    BY <1>5, OperatorMoves, AskedBus, BusUntouched DEF AskStatus, CtlType, BusInv
  <1>6. CASE Start
    <2>1. /\ at[Operator] = "starting" /\ bus.user = Operator /\ bus' = FreeBus
          /\ ctl' = [ctl EXCEPT !.status = "READY", !.tripped = Head(toHost).tripped]
          /\ at' = [at EXCEPT ![Operator] = "idle", ![NewThread] = "waiting"]
          /\ UNCHANGED <<clients, portOpen, sensorHas>>
      BY <1>6 DEF Start, Waits
    <2>2. NewThread \in Beats
      BY <1>6 DEF Start, NewThread
    <2>3. AtType' /\ at'[Operator] = "idle" /\ at'[Poller] = at[Poller]
      BY <2>1, <2>2 DEF AtType
    <2>4. Head(toHost).tripped \in BOOLEAN
      BY <1>6, HeadAndTail, ReplyFields DEF Start, Answered, Matches, LineType
    <2>5. CtlType' /\ ctl'.acquired = ctl.acquired
      BY <2>1, <2>4, CtlChanges
    <2> QED
      BY <2>1, <2>3, <2>5, BusUntouched, FreeBusType DEF BusType
  <1>7. CASE StartFails
    BY <1>7, OperatorMoves, BusUntouched, FreeBusType DEF StartFails, Waits, BusType, CtlType, BusInv
  <1>8. CASE Undo \/ Disconnected
    <2>1. /\ at[Operator] \in {"undo", "release"} /\ clients' = clients - 1 /\ bus = FreeBus
          /\ ctl' = [ctl EXCEPT !.acquired = FALSE, !.status = "DISCONNECTED"] /\ Goto(Operator, "idle")
          /\ UNCHANGED <<bus, sensorHas>>
          /\ IF clients = 1 THEN portOpen' = FALSE ELSE UNCHANGED portOpen
      BY <1>8 DEF Undo, Disconnected, Leave, Release
    <2>2. CtlType' /\ ctl'.acquired = FALSE
      BY <2>1, CtlChanges
    <2>3. AtType' /\ at'[Operator] = "idle" /\ at'[Poller] = at[Poller]
      BY <2>1, OperatorMoves
    <2>4. clients > 0 /\ at[Poller] # "open"
      BY <2>1, FreeBusType DEF BusInv
    <2> QED
      BY <2>1, <2>2, <2>3, <2>4 DEF BusType, BusInv
  <1>9. CASE Disconnect
    <2>1. CASE ctl.acquired
      BY <1>9, <2>1, OperatorMoves, BusUntouched DEF Disconnect, BusType, CtlType
    <2>2. CASE ~ctl.acquired
      BY <1>9, <2>2, CtlChanges, BusUntouched DEF Disconnect, BusType, AtType
    <2> QED
      BY <2>1, <2>2
  <1>10. CASE Joined
    BY <1>10, OperatorMoves, BusUntouched DEF Joined, BusType, CtlType, BusInv
  <1>11. CASE AskSafe
    BY <1>11, AskedBus, BusUntouched DEF AskSafe, CtlType, AtType
  <1>12. CASE SafeEnds
    BY <1>12, OperatorMoves, BusUntouched, FreeBusType DEF SafeEnds, Waits, BusType, CtlType, BusInv
  <1> QED
    BY <1>1, <1>2, <1>3, <1>4, <1>5, <1>6, <1>7, <1>8, <1>9, <1>10, <1>11, <1>12 DEF Connecting, Disconnecting

(* rearm() and enter_safe_state(). *)
LEMMA CommandBus ==
  ASSUME HostType, BusInv, LineType, (\E name \in Orders : Order(name)) \/ Commanding
  PROVE  HostType' /\ BusInv'
  <1> USE ThreadFacts, LabelFacts, CommandFacts, FreeBusType
      DEF HostType, farSide, line, connection, outcomes
  <1>1. ASSUME NEW name \in Orders, Order(name)
        PROVE  HostType' /\ BusInv'
    <2>1. name \in OperatorLabels /\ name \notin {"acquire", "open", "first", "starting", "undo", "join", "safe", "release"}
      BY OrdersAssumption
    <2> QED
      BY <1>1, <2>1, OperatorMoves, BusUntouched DEF Order, BusType, CtlType
  <1>2. CASE AskOrder
    <2>1. at[Operator] \in Commands
      BY <1>2 DEF AskOrder
    <2> QED
      BY <1>2, <2>1, OperatorMoves, AskedBus, BusUntouched DEF AskOrder, CtlType
  <1>3. CASE Ordered
    BY <1>3, OperatorMoves, BusUntouched DEF Ordered, Waits, BusType, CtlType
  <1>4. CASE AskStatus(Operator, "afterwards", "checking")
    BY <1>4, OperatorMoves, AskedBus, BusUntouched DEF AskStatus, CtlType
  <1>5. CASE OrderEnds
    <2>1. /\ at[Operator] \in {"command", "checking"} /\ bus.user = Operator /\ bus' = FreeBus
          /\ Goto(Operator, "idle") /\ UNCHANGED <<clients, portOpen, sensorHas>>
      BY <1>5 DEF OrderEnds, Waits
    <2>2. CtlType' /\ ctl'.acquired = ctl.acquired
      <3>1. CASE UNCHANGED ctl
        BY <3>1 DEF CtlType
      <3>2. CASE ~UNCHANGED ctl
        <4>1. ctl' = [ctl EXCEPT !.tripped = Head(toHost).tripped] /\ Head(toHost).tripped \in BOOLEAN
          BY <1>5, <3>2, HeadAndTail, ReplyFields DEF OrderEnds, Answered, Matches, LineType
        <4> QED
          BY <4>1, CtlChanges, StatusFacts
      <3> QED
        BY <3>1, <3>2
    <2> QED
      BY <2>1, <2>2, OperatorMoves, BusUntouched DEF BusType
  <1>6. CASE CannotAsk(Operator, {"rearm", "safe_state", "afterwards"}, "idle")
    BY <1>6, OperatorMoves, BusUntouched DEF CannotAsk, BusType, CtlType
  <1> QED
    BY <1>1, <1>2, <1>3, <1>4, <1>5, <1>6 DEF Commanding

(* The sensor and whoever polls it. *)
LEMMA SensorBus ==
  ASSUME HostType, BusInv, LineType,
         SensorConnects \/ SensorDisconnects \/ Read \/ Polling
  PROVE  HostType' /\ BusInv'
  <1> USE ThreadFacts, LabelFacts, StatusFacts, CommandFacts, FreeBusType
      DEF HostType, farSide, line, connection, outcomes
  <1>1. CASE SensorConnects
    BY <1>1, PollerMoves DEF SensorConnects, BusType, CtlType, BusInv
  <1>2. CASE SensorDisconnects
    <2>1. /\ sensorHas /\ ~sensorHas' /\ clients' = clients - 1 /\ bus.user = Nobody
          /\ IF clients = 1 THEN portOpen' = FALSE ELSE UNCHANGED portOpen
          /\ UNCHANGED <<bus, ctl, at>>
      BY <1>2 DEF SensorDisconnects, Release
    <2>2. clients > 0 /\ at[Operator] # "open" /\ at[Poller] # "open"
      BY <2>1 DEF BusInv
    <2> QED
      BY <2>1, <2>2 DEF BusType, CtlType, AtType, BusInv
  <1>3. CASE Read
    BY <1>3, PollerMoves, AskedBus DEF Read, CtlType, BusInv
  <1>4. CASE ReadEnds
    BY <1>4, PollerMoves DEF ReadEnds, Waits, BusType, CtlType, BusInv
  <1>5. CASE ReadAgain
    <2>1. at[Poller] = "read" /\ bus' = [bus EXCEPT !.attempt = @ + 1] /\ UNCHANGED <<clients, portOpen, sensorHas, ctl, at>>
      BY <1>5 DEF ReadAgain
    <2>2. BusType' /\ bus'.user = bus.user
      BY <2>1 DEF BusType
    <2> QED
      BY <2>1, <2>2 DEF CtlType, AtType, BusInv
  <1>6. CASE Acquire(Poller)
    <2>1. CASE clients = 0
      <3>1. Asks(Poller, "identify") /\ portOpen' = TRUE /\ Goto(Poller, "open")
            /\ UNCHANGED <<clients, ctl, sensorHas>> /\ at[Poller] = "acquire"
        BY <1>6, <2>1 DEF Acquire
      <3>2. BusType' /\ bus'.user = Poller /\ bus.user = Nobody
        BY <3>1, AskedBus
      <3>3. AtType' /\ at'[Poller] = "open" /\ at'[Operator] = at[Operator]
        BY <3>1, PollerMoves
      <3> QED
        BY <2>1, <3>1, <3>2, <3>3 DEF CtlType, BusInv
    <2>2. CASE clients # 0
      <3>1. clients' = clients + 1 /\ sensorHas' /\ Goto(Poller, "idle")
            /\ UNCHANGED <<bus, portOpen, ctl>> /\ at[Poller] = "acquire"
        BY <1>6, <2>2 DEF Acquire, Acquired
      <3>2. AtType' /\ at'[Poller] = "idle" /\ at'[Operator] = at[Operator]
        BY <3>1, PollerMoves
      <3> QED
        BY <2>2, <3>1, <3>2 DEF BusType, CtlType, BusInv
    <2> QED
      BY <2>1, <2>2
  <1>7. CASE Greet(Poller)
    <2>1. at[Poller] = "open" /\ bus.user = Poller /\ UNCHANGED portOpen
      BY <1>7 DEF Greet, Waits
    <2>2. CASE bus.name = "status"
      <3>1. bus' = FreeBus /\ clients' = 1 /\ sensorHas' /\ Goto(Poller, "idle") /\ UNCHANGED ctl
        BY <1>7, <2>2 DEF Greet, Acquired
      <3>2. AtType' /\ at'[Poller] = "idle" /\ at'[Operator] = at[Operator]
        BY <3>1, PollerMoves
      <3> QED
        BY <2>1, <3>1, <3>2 DEF BusType, CtlType, BusInv
    <2>3. CASE bus.name # "status"
      <3>1. PICK next \in Commands : bus' = [bus EXCEPT !.name = next]
        BY <1>7, <2>3 DEF Greet
      <3>2. BusType' /\ bus'.user = bus.user
        BY <3>1 DEF BusType
      <3>3. UNCHANGED <<clients, ctl, sensorHas, at>>
        BY <1>7, <2>3 DEF Greet
      <3> QED
        BY <2>1, <3>2, <3>3 DEF AtType, CtlType, BusInv
    <2> QED
      BY <2>2, <2>3
  <1>8. CASE GreetingFails(Poller)
    <2>1. /\ at[Poller] = "open" /\ bus.user = Poller /\ portOpen' = FALSE /\ bus' = FreeBus
          /\ Goto(Poller, "idle") /\ UNCHANGED <<clients, sensorHas, ctl>>
      BY <1>8 DEF GreetingFails, Waits
    <2>2. AtType' /\ at'[Poller] = "idle" /\ at'[Operator] = at[Operator]
      BY <2>1, PollerMoves
    <2> QED
      BY <2>1, <2>2 DEF BusType, CtlType, BusInv
  <1> QED
    BY <1>1, <1>2, <1>3, <1>4, <1>5, <1>6, <1>7, <1>8 DEF Polling

(* The heartbeat threads leave the session and its users alone. *)
LEMMA BeatBus ==
  ASSUME HostType, BusInv, LineType, NEW b \in Beats, Beating(b)
  PROVE  HostType' /\ BusInv'
  <1> USE ThreadFacts, LabelFacts, StatusFacts, CommandFacts, FreeBusType
      DEF HostType, farSide, line, connection, outcomes
  <1>0. at[b] # "open"
    BY DEF AtType
  <1>1. CASE BeatWakes(b)
    BY <1>1, BeatMoves, BusUntouched DEF BeatWakes, BusType, CtlType
  <1>2. CASE Locks(b)
    BY <1>2, BeatMoves, BusUntouched DEF Locks, BusType, CtlType
  <1>3. CASE AskHeartbeat(b)
    BY <1>3, AskedBus, BusUntouched DEF AskHeartbeat, CtlType, AtType
  <1>4. CASE Beat(b)
    <2>1. bus.user = b /\ bus' = FreeBus /\ UNCHANGED <<clients, portOpen, sensorHas>>
          /\ \/ ctl' = [ctl EXCEPT !.status = "READY"] /\ Goto(b, "waiting")
             \/ UNCHANGED ctl /\ Goto(b, "failed")
      BY <1>4 DEF Beat, Waits
    <2>2. CtlType' /\ ctl'.acquired = ctl.acquired
      BY <2>1, CtlChanges DEF CtlType
    <2> QED
      BY <1>0, <2>1, <2>2, BeatMoves, BusUntouched DEF BusType
  <1>5. CASE BeatAndLook(b)
    BY <1>0, <1>5, CtlChanges, BeatMoves, BusUntouched DEF BeatAndLook, Waits, BusType
  <1>6. CASE CannotAsk(b, {"heartbeat"}, "failed") \/ CannotAsk(b, {"look"}, "waiting")
    BY <1>6, BeatMoves, BusUntouched DEF CannotAsk, BusType, CtlType
  <1>7. CASE AskStatus(b, "look", "looking")
    BY <1>7, AskedBus, BeatMoves, BusUntouched DEF AskStatus, CtlType
  <1>8. CASE Look(b)
    <2>1. bus.user = b /\ bus' = FreeBus /\ Goto(b, "waiting") /\ UNCHANGED <<clients, portOpen, sensorHas>>
      BY <1>8 DEF Look, Waits
    <2>2. CtlType' /\ ctl'.acquired = ctl.acquired
      <3>1. CASE UNCHANGED ctl
        BY <3>1 DEF CtlType
      <3>2. CASE ~UNCHANGED ctl
        <4>1. ctl' = [ctl EXCEPT !.tripped = Head(toHost).tripped] /\ Head(toHost).tripped \in BOOLEAN
          BY <1>8, <3>2, HeadAndTail, ReplyFields DEF Look, Answered, Matches, LineType
        <4> QED
          BY <4>1, CtlChanges
      <3> QED
        BY <3>1, <3>2
    <2> QED
      BY <1>0, <2>1, <2>2, BeatMoves, BusUntouched DEF BusType
  <1>9. CASE BeatFailed(b)
    BY <1>9, CtlChanges, BeatMoves, BusUntouched DEF BeatFailed, BusType
  <1> QED
    BY <1>1, <1>2, <1>3, <1>4, <1>5, <1>6, <1>7, <1>8, <1>9 DEF Beating

(***************************************************************************)
(* The whole invariant.                                                    *)
(***************************************************************************)

BoardType ==
    board \in [heartbeatReceived : BOOLEAN, tooLongAgo : BOOLEAN, watchdogTripped : BOOLEAN]

LinkInv == HostType /\ BusInv /\ LineType /\ BoardType

LEMMA BoardKeepsType ==
  ASSUME BoardType, Board
  PROVE  BoardType'
  <1>1. CASE TimePasses \/ CheckWatchdog
    BY <1>1 DEF BoardType, TimePasses, CheckWatchdog
  <1>3. CASE LineFault
    <2>1. PoweredUp \in [heartbeatReceived : BOOLEAN, tooLongAgo : BOOLEAN, watchdogTripped : BOOLEAN]
      BY Zenon DEF PoweredUp
    <2>2. board' = board \/ board' = PoweredUp
      BY <1>3 DEF LineFault
    <2> QED
      BY <2>1, <2>2 DEF BoardType
  <1>2. CASE handleCommand
    BY <1>2 DEF BoardType, handleCommand, Done
  <1> QED
    BY <1>1, <1>2, <1>3 DEF Board

(* A message taken from the host's end, or a new request, keeps the line's types. *)
LEMMA LineMoves ==
  ASSUME LineType,
         \/ UNCHANGED line
         \/ \E name \in Commands : Sent(name, toHost) \/ Sent(name, Unread)
         \/ toHost' = Unread /\ UNCHANGED toBoard
         \/ PortClosed
  PROVE  LineType'
  <1>1. CASE UNCHANGED line
    BY <1>1 DEF line, LineType
  <1>2. CASE \E name \in Commands : Sent(name, toHost) \/ Sent(name, Unread)
    BY <1>2, SentLine, UnreadType DEF LineType
  <1>3. CASE toHost' = Unread /\ UNCHANGED toBoard
    BY <1>3, UnreadType DEF LineType
  <1>4. CASE PortClosed
    BY <1>4, ClosedLine
  <1> QED
    BY <1>1, <1>2, <1>3, <1>4

(* Only whoever has the bus touches the line: while disconnect() waits for the
   answer to its safe_state, nobody else does. *)
LEMMA HostLine ==
  ASSUME HostType, LineType, Host
  PROVE  /\ LineType'
         /\ bus.user = Operator /\ at[Operator] = "safe"
            => SafeEnds \/ UNCHANGED <<toBoard, toHost, bus, at[Operator], madeSafe, left>>
  <1> USE ThreadFacts, CommandFacts, FreeBusType DEF farSide, line, outcomes
  <1>a. at \in [Threads -> OperatorLabels \cup PollerLabels \cup BeatLabels]
    BY DEF HostType, AtType
  <1>1. CASE Connect \/ Disconnect \/ Joined \/ (\E name \in Orders : Order(name))
             \/ CannotAsk(Operator, {"rearm", "safe_state", "afterwards"}, "idle")
    BY <1>1, LineMoves DEF Connect, Disconnect, Joined, Order, CannotAsk
  <1>2. CASE \/ SensorConnects
             \/ \E b \in Beats : \/ BeatWakes(b) \/ Locks(b) \/ BeatFailed(b)
                                 \/ CannotAsk(b, {"heartbeat"}, "failed")
                                 \/ CannotAsk(b, {"look"}, "waiting")
    <2>1. PICK t \in {Poller} \cup Beats : /\ \E l : at' = [at EXCEPT ![t] = l]
                                          /\ UNCHANGED <<toBoard, toHost, bus, madeSafe, left>>
      BY <1>2 DEF SensorConnects, BeatWakes, Locks, BeatFailed, CannotAsk, Goto
    <2>2. UNCHANGED at[Operator]
      BY <1>a, <2>1
    <2> QED
      BY <2>1, <2>2, LineMoves
  <1>3. CASE \/ AskStatus(Operator, "first", "starting") \/ AskStatus(Operator, "afterwards", "checking")
             \/ AskSafe \/ AskOrder \/ Read
             \/ \E b \in Beats : AskHeartbeat(b) \/ AskStatus(b, "look", "looking")
    <2>1. PICK name \in Commands : \E t \in Threads : Asks(t, name)
      BY <1>3 DEF AskStatus, AskSafe, AskOrder, Read, AskHeartbeat
    <2> QED
      BY <2>1, LineMoves DEF Asks
  <1>4. CASE Start \/ StartFails \/ Ordered \/ OrderEnds
    BY <1>4, LineMoves DEF Start, StartFails, Ordered, OrderEnds, Answered, Raises
  <1>5. CASE SafeEnds
    BY <1>5, LineMoves DEF SafeEnds, Answered, Raises
  <1>6. CASE ReadEnds \/ \E b \in Beats : Beat(b) \/ BeatAndLook(b) \/ Look(b)
    BY <1>6, LineMoves DEF ReadEnds, Beat, BeatAndLook, Look, Answered, Raises, Waits
  <1>7. CASE ReadAgain
    BY <1>7, LineMoves DEF ReadAgain, Waits
  <1>8. CASE Undo \/ Disconnected \/ SensorDisconnects
    BY <1>8, LineMoves DEF Undo, Disconnected, SensorDisconnects, Leave, Release
  <1>9. ASSUME NEW t \in {Operator, Poller}, Acquire(t)
        PROVE  LineType' /\ (bus.user # Operator \/ UNCHANGED <<toBoard, toHost>>) /\ at[t] = "acquire"
               /\ UNCHANGED <<madeSafe, left>> /\ (t = Poller => bus = FreeBus)
    BY <1>9, LineMoves DEF Acquire, Asks
  <1>10. ASSUME NEW t \in {Operator, Poller}, Greet(t)
         PROVE  LineType' /\ bus.user = t /\ at[t] = "open"
    <2>1. CASE bus.name = "status"
      BY <1>10, <2>1, LineMoves DEF Greet, Waits
    <2>2. CASE bus.name # "status"
      BY <1>10, <2>2, LineMoves DEF Greet, Waits
    <2> QED
      BY <2>1, <2>2
  <1>11. ASSUME NEW t \in {Operator, Poller}, GreetingFails(t)
         PROVE  LineType' /\ bus.user = t /\ at[t] = "open"
    BY <1>11, LineMoves DEF GreetingFails, Waits
  <1> QED
    BY <1>1, <1>2, <1>3, <1>4, <1>5, <1>6, <1>7, <1>8, <1>9, <1>10, <1>11
    DEF Host, Connecting, Disconnecting, Commanding, Polling, Beating

(* The end of the host's process. *)
LEMMA EndBus ==
  ASSUME LinkInv, HostEnds
  PROVE  LinkInv'
  <1> USE ThreadFacts, LabelFacts, StatusFacts, FreeBusType DEF HostEnds, farSide
  <1>1. LineType' /\ BoardType'
    BY ClosedLine DEF LinkInv, BoardType
  <1>2. AtType' /\ at'[Operator] = "idle" /\ at'[Poller] = "idle"
    BY DEF AtType
  <1>3. CtlType' /\ ~ctl'.acquired
    BY DEF CtlType
  <1> QED
    BY <1>1, <1>2, <1>3 DEF LinkInv, HostType, BusType, BusInv

LEMMA LinkInit == Init => LinkInv
  BY HostInit, EmptySeq DEF Init, BoardInit, PoweredUp, LinkInv, LineType, BoardType

LEMMA LinkStep == LinkInv /\ [Next]_vars => LinkInv'
  <1> SUFFICES ASSUME LinkInv, [Next]_vars PROVE LinkInv'
    OBVIOUS
  <1> USE DEF LinkInv
  <1>1. CASE (Board /\ UNCHANGED hostVars) \/ UNCHANGED vars
    <2>1. HostType' /\ BusInv'
      BY <1>1 DEF vars, hostVars, HostType, BusType, CtlType, AtType, BusInv
    <2>2. LineType' /\ BoardType'
      BY <1>1, BoardLine, BoardKeepsType DEF vars, LineType, BoardType
    <2> QED
      BY <2>1, <2>2
  <1>2. CASE Host
    <2>1. HostType' /\ BusInv'
      BY <1>2, ConnectBus, CommandBus, SensorBus, BeatBus DEF Host
    <2>2. UNCHANGED board
      BY <1>2 DEF Host, Connect, Connecting, Acquire, Greet, GreetingFails, AskStatus, Start, StartFails,
         Undo, Leave, Disconnect, Disconnecting, Joined, AskSafe, SafeEnds, Disconnected, Order, Commanding,
         AskOrder, Ordered, OrderEnds, CannotAsk, SensorConnects, SensorDisconnects, Read, Polling, ReadEnds,
         ReadAgain, Beating, BeatWakes, Locks, AskHeartbeat, Beat, BeatAndLook, Look, BeatFailed, farSide
    <2> QED
      BY <1>2, <2>1, <2>2, HostLine DEF BoardType
  <1>3. CASE HostEnds
    BY <1>3, EndBus
  <1> QED
    BY <1>1, <1>2, <1>3 DEF Next

LEMMA LinkAlways == Spec => []LinkInv
  BY LinkInit, LinkStep, PTL DEF Spec

(* A device that has the bus is never cut off by another that leaves it, or that
   failed to connect (Esp32Bus.acquire and release). *)
THEOREM PortServesItsUsers == Spec => []NobodyCutOff
  <1>1. LinkInv => NobodyCutOff
    BY ThreadFacts, FreeBusType DEF LinkInv, HostType, BusInv, NobodyCutOff
  <1> QED
    BY LinkAlways, <1>1, PTL

(***************************************************************************)
(* The heartbeat threads.                                                  *)
(***************************************************************************)

(* Between connect() and disconnect(). *)
Connected ==
    ctl.acquired /\ at[Operator] \in {"idle", "rearm", "safe_state", "command", "afterwards", "checking"}

(* BeatsWhileConnected for all of that time: a command may be under way. *)
BeatInv == Connected => ~stop /\ \E b \in Beats : at[b] # "dead"

(* Steps that neither connect the controller nor tell its thread to stop. *)
LEMMA BeatsKept ==
  ASSUME BeatInv, Connected' => Connected, UNCHANGED stop,
         \A b \in Beats : at[b] # "dead" => at'[b] # "dead"
  PROVE  BeatInv'
  BY DEF BeatInv

LEMMA BeatStep ==
  ASSUME LinkInv, BeatInv, [Next]_vars
  PROVE  BeatInv'
  <1> USE ThreadFacts, LabelFacts DEF LinkInv, HostType, outcomes
  <1>1. CASE (Board /\ UNCHANGED hostVars) \/ UNCHANGED vars
    BY <1>1 DEF vars, hostVars, BeatInv, Connected
  <1>2. CASE HostEnds
    BY <1>2 DEF HostEnds, BeatInv, Connected
  <1>3. CASE Connect \/ Joined \/ AskSafe \/ SafeEnds \/ StartFails
             \/ AskStatus(Operator, "first", "starting")
    <2>1. /\ UNCHANGED stop /\ \A b \in Beats : at'[b] = at[b]
          /\ at'[Operator] \notin {"idle", "rearm", "safe_state", "command", "afterwards", "checking"}
      BY <1>3, OperatorMoves DEF Connect, Joined, AskSafe, SafeEnds, StartFails, AskStatus
    <2> QED
      BY <2>1, BeatsKept DEF Connected
  <1>4. CASE Acquire(Operator) \/ Greet(Operator)
    <2>1. /\ UNCHANGED stop /\ \A b \in Beats : at'[b] = at[b]
          /\ at'[Operator] \in {"open", "first"}
      BY <1>4, OperatorMoves DEF Acquire, Greet, Acquired
    <2> QED
      BY <2>1, BeatsKept DEF Connected
  <1>5. CASE GreetingFails(Operator)
    <2>1. /\ UNCHANGED stop /\ \A b \in Beats : at'[b] = at[b]
          /\ ctl' = [ctl EXCEPT !.status = "DISCONNECTED"] /\ at[Operator] = "open"
      BY <1>5, OperatorMoves DEF GreetingFails
    <2>2. ~ctl'.acquired
      BY <2>1, CtlChanges, StatusFacts DEF BusInv
    <2> QED
      BY <2>1, <2>2, BeatsKept DEF Connected
  <1>6. CASE Start
    <2>1. NewThread \in Beats
      BY <1>6 DEF Start, NewThread
    <2>2. stop' = FALSE /\ at'[NewThread] = "waiting"
      BY <1>6, <2>1 DEF Start, AtType
    <2> QED
      BY <2>1, <2>2 DEF BeatInv
  <1>7. CASE Undo \/ Disconnected
    <2>1. ctl' = [ctl EXCEPT !.acquired = FALSE, !.status = "DISCONNECTED"]
      BY <1>7 DEF Undo, Disconnected, Leave
    <2>2. ctl'.acquired = FALSE
      BY <2>1, CtlChanges, StatusFacts
    <2> QED
      BY <2>2 DEF BeatInv, Connected
  <1>8. CASE Disconnect
    <2>1. CASE ctl.acquired
      BY <1>8, <2>1, OperatorMoves DEF Disconnect, BeatInv, Connected
    <2>2. CASE ~ctl.acquired
      BY <1>8, <2>2, CtlChanges, StatusFacts DEF Disconnect, BeatInv, Connected
    <2> QED
      BY <2>1, <2>2
  <1>9. CASE (\E name \in Orders : Order(name)) \/ Commanding
    <2>1. /\ UNCHANGED stop /\ \E l \in OperatorLabels : Goto(Operator, l)
          /\ at[Operator] \in {"idle", "rearm", "safe_state", "command", "afterwards", "checking"}
      BY <1>9, OrdersAssumption DEF Order, Commanding, AskOrder, Ordered, AskStatus, OrderEnds, CannotAsk
    <2>2. ctl' = ctl \/ (Answered /\ ctl' = [ctl EXCEPT !.tripped = Head(toHost).tripped])
      BY <1>9 DEF Order, Commanding, AskOrder, Ordered, AskStatus, OrderEnds, CannotAsk
    <2>3. Answered => Head(toHost).tripped \in BOOLEAN
      BY HeadAndTail, ReplyFields DEF Answered, Matches, LineType
    <2>4. ctl'.acquired = ctl.acquired
      BY <2>2, <2>3, CtlChanges, StatusFacts
    <2> QED
      BY <2>1, <2>4, OperatorMoves, BeatsKept DEF Connected
  <1>10. CASE SensorConnects \/ SensorDisconnects \/ Read \/ Polling
    <2>1. UNCHANGED <<ctl, stop>> /\ (UNCHANGED at \/ \E l \in PollerLabels : Goto(Poller, l))
      BY <1>10 DEF SensorConnects, SensorDisconnects, Read, Polling, Acquire, Acquired, Greet, GreetingFails,
         ReadEnds, ReadAgain
    <2> QED
      BY <2>1, PollerMoves, BeatsKept DEF Connected
  <1>11. ASSUME NEW b \in Beats, Beating(b)
         PROVE  BeatInv'
    <2>1. CASE BeatWakes(b)
      <3>1. CASE stop
        BY <2>1, <3>1, BeatMoves DEF BeatWakes, BeatInv, Connected
      <3>2. CASE ~stop
        BY <2>1, <3>2, BeatMoves, BeatsKept DEF BeatWakes, Connected
      <3> QED
        BY <3>1, <3>2
    <2>2. CASE ~BeatWakes(b)
      <3>1. /\ UNCHANGED stop
            /\ UNCHANGED at \/ \E l \in BeatLabels \ {"dead"} : Goto(b, l)
        BY <1>11, <2>2 DEF Beating, Locks, AskHeartbeat, Beat, BeatAndLook, CannotAsk, AskStatus, Look,
           BeatFailed
      <3>2. \/ ctl' = ctl \/ ctl' = [ctl EXCEPT !.status = "READY"] \/ ctl' = [ctl EXCEPT !.status = "DEGRADED"]
            \/ Answered /\ ctl' = [ctl EXCEPT !.tripped = Head(toHost).tripped]
        BY <1>11, <2>2 DEF Beating, Locks, AskHeartbeat, Beat, BeatAndLook, CannotAsk, AskStatus, Look,
           BeatFailed
      <3>3. Answered => Head(toHost).tripped \in BOOLEAN
        BY HeadAndTail, ReplyFields DEF Answered, Matches, LineType
      <3>4. ctl'.acquired = ctl.acquired
        BY <3>2, <3>3, CtlChanges, StatusFacts
      <3> QED
        BY <3>1, <3>4, BeatMoves, BeatsKept DEF Connected
    <2> QED
      BY <2>1, <2>2
  <1> QED
    BY <1>1, <1>2, <1>3, <1>4, <1>5, <1>6, <1>7, <1>8, <1>9, <1>10, <1>11
    DEF Next, Host, Connecting, Disconnecting

(* While the controller is connected a heartbeat thread runs that nobody has told
   to stop, whatever is left of those before it (Esp32Controller.connect and
   _heartbeat_loop). *)
THEOREM HeartbeatsGoOn == Spec => []BeatsWhileConnected
  <1>1. Init => BeatInv
    BY DEF Init, BeatInv, Connected
  <1>2. LinkInv /\ BeatInv /\ [Next]_vars => BeatInv'
    BY BeatStep
  <1>3. BeatInv => BeatsWhileConnected
    BY DEF BeatInv, Connected, BeatsWhileConnected
  <1> QED
    BY LinkAlways, <1>1, <1>2, <1>3, PTL DEF Spec

(***************************************************************************)
(* disconnect() and the outputs.                                           *)
(***************************************************************************)

(* While disconnect() waits, only its own request can be answered, and an answer
   on the line means that the board has done it. *)
Leaving == at[Operator] = "safe" /\ bus.user = Operator

OnlySafeAsked == \A i \in DOMAIN toBoard : toBoard[i].latest => toBoard[i].name = "safe_state"

AnswerMeansSafe == \A i \in DOMAIN toHost : toHost[i].latest => madeSafe

(* The operator has the bus only where it waits for an answer. *)
AskingLabels == {"open", "starting", "safe", "command", "checking"}

SafeInv ==
    /\ left = "clean" => madeSafe
    /\ Leaving => OnlySafeAsked /\ AnswerMeansSafe
    /\ bus.user = Operator => at[Operator] \in AskingLabels

(* The board answers the latest request only with the outputs made safe. *)
LEMMA BoardSafe ==
  ASSUME LineType, SafeInv, Board, UNCHANGED hostVars
  PROVE  SafeInv'
  <1>1. madeSafe => madeSafe'
    BY DEF Board, TimePasses, CheckWatchdog, handleCommand, LineFault
  <1>2. ASSUME Leaving
        PROVE  OnlySafeAsked' /\ AnswerMeansSafe'
    <2>0. OnlySafeAsked /\ AnswerMeansSafe
      BY <1>2 DEF SafeInv
    <2>1. CASE TimePasses \/ CheckWatchdog
      BY <1>1, <2>0, <2>1 DEF TimePasses, CheckWatchdog, OnlySafeAsked, AnswerMeansSafe
    <2>2. CASE handleCommand
      <3>1. PICK request \in Requests :
               /\ request = Head(toBoard) /\ request = toBoard[1] /\ 1 \in DOMAIN toBoard
               /\ \A i \in DOMAIN Tail(toBoard) : i + 1 \in DOMAIN toBoard /\ Tail(toBoard)[i] = toBoard[i + 1]
        BY <2>2, HeadAndTail DEF handleCommand, LineType
      <3>2. OnlySafeAsked'
        BY <2>0, <2>2, <3>1 DEF handleCommand, OnlySafeAsked
      <3>3. request.latest => madeSafe'
        BY <2>0, <2>2, <3>1 DEF handleCommand, OnlySafeAsked
      <3>9. Reply(request).latest = request.latest
        BY DEF Reply
      <3>4. PICK reply : reply = Reply(request) /\ reply.latest = request.latest
        BY <3>9
      <3>5. toHost' = Append(toHost, reply)
        BY <2>2, <3>1, <3>4 DEF handleCommand
      <3>6. \A i \in DOMAIN toHost' : (i \in DOMAIN toHost /\ toHost'[i] = toHost[i]) \/ toHost'[i] = reply
        BY <3>5, AppendProperties, LenProperties DEF LineType
      <3> QED
        BY <1>1, <2>0, <3>2, <3>3, <3>4, <3>6 DEF AnswerMeansSafe
    <2>3. CASE LineFault
      <3>1. CASE toBoard # <<>> /\ toBoard' = Tail(toBoard) /\ UNCHANGED <<board, madeSafe, toHost>>
        BY <2>0, <3>1, HeadAndTail DEF OnlySafeAsked, AnswerMeansSafe, LineType
      <3>2. CASE toHost # <<>> /\ toHost' = Tail(toHost) /\ UNCHANGED <<board, madeSafe, toBoard>>
        BY <2>0, <3>2, HeadAndTail DEF OnlySafeAsked, AnswerMeansSafe, LineType
      <3>3. CASE board' = PoweredUp /\ madeSafe' = TRUE /\ toBoard' = <<>> /\ UNCHANGED toHost
        BY <3>3, EmptySeq DEF OnlySafeAsked, AnswerMeansSafe
      <3> QED
        BY <2>3, <3>1, <3>2, <3>3 DEF LineFault
    <2> QED
      BY <2>1, <2>2, <2>3 DEF Board
  <1> QED
    BY <1>1, <1>2 DEF SafeInv, Leaving, hostVars

(* What a step of the operator does to the bus, and to what is remembered of disconnect(). *)
LEMMA OperatorSafe ==
  ASSUME LinkInv, SafeInv,
         Connect \/ Connecting \/ Disconnect \/ Disconnecting \/ (\E name \in Orders : Order(name)) \/ Commanding
  PROVE  /\ bus'.user = Operator => at'[Operator] \in AskingLabels
         /\ Leaving' => AskSafe \/ Leaving
         /\ SafeEnds \/ left' = "none" \/ UNCHANGED <<left, madeSafe>>
  <1> USE ThreadFacts, LabelFacts, FreeBusType, CommandFacts
      DEF LinkInv, HostType, outcomes, farSide, AskingLabels, Leaving
  <1>1. CASE Connect \/ Joined \/ \E name \in Orders : Order(name)
    <2>1. /\ UNCHANGED bus /\ at[Operator] \notin AskingLabels
          /\ left' = "none" \/ UNCHANGED <<left, madeSafe>>
      BY <1>1 DEF Connect, Joined, Order
    <2> QED
      BY <2>1 DEF SafeInv
  <1>2. CASE Disconnect
    <2>1. UNCHANGED bus /\ at[Operator] = "idle" /\ (left' = "none" \/ UNCHANGED <<left, madeSafe>>)
      BY <1>2 DEF Disconnect
    <2> QED
      BY <2>1 DEF SafeInv
  <1>3. CASE Undo \/ Disconnected \/ CannotAsk(Operator, {"rearm", "safe_state", "afterwards"}, "idle")
    BY <1>3 DEF Undo, Disconnected, Leave, Release, CannotAsk
  <1>4. CASE Start \/ StartFails \/ Ordered \/ OrderEnds \/ GreetingFails(Operator)
    BY <1>4 DEF Start, StartFails, Ordered, OrderEnds, GreetingFails
  <1>5. CASE SafeEnds
    BY <1>5 DEF SafeEnds
  <1>6. CASE AskSafe
    BY <1>6 DEF AskSafe
  <1>7. CASE AskOrder \/ AskStatus(Operator, "first", "starting") \/ AskStatus(Operator, "afterwards", "checking")
    <2>1. UNCHANGED <<left, madeSafe>> /\ at'[Operator] \in {"command", "starting", "checking"}
      BY <1>7, OperatorMoves DEF AskOrder, AskStatus
    <2> QED
      BY <2>1
  <1>8. CASE Acquire(Operator)
    <2>1. CASE clients = 0
      <3>1. Goto(Operator, "open") /\ UNCHANGED <<left, madeSafe>>
        BY <1>8, <2>1 DEF Acquire
      <3> QED
        BY <3>1, OperatorMoves
    <2>2. CASE clients # 0
      BY <1>8, <2>2 DEF Acquire
    <2> QED
      BY <2>1, <2>2
  <1>9. CASE Greet(Operator)
    <2>1. at[Operator] = "open" /\ UNCHANGED <<left, madeSafe>> /\ (bus' = FreeBus \/ UNCHANGED at)
      BY <1>9 DEF Greet
    <2> QED
      BY <2>1
  <1> QED
    BY <1>1, <1>2, <1>3, <1>4, <1>5, <1>6, <1>7, <1>8, <1>9 DEF Connecting, Disconnecting, Commanding

(* The other threads give the bus to the operator in none of their steps. *)
LEMMA OthersSafe ==
  ASSUME LinkInv, SensorConnects \/ SensorDisconnects \/ Read \/ Polling \/ \E b \in Beats : Beating(b)
  PROVE  UNCHANGED <<at[Operator], left, madeSafe>> /\ (bus'.user = Operator => bus.user = Operator)
  <1> USE ThreadFacts, LabelFacts, FreeBusType, CommandFacts
      DEF LinkInv, HostType, outcomes, farSide
  <1>1. CASE SensorConnects \/ SensorDisconnects \/ Read \/ Polling
    <2>1. UNCHANGED <<left, madeSafe>> /\ (UNCHANGED at \/ \E l \in PollerLabels : Goto(Poller, l))
      BY <1>1 DEF SensorConnects, SensorDisconnects, Read, Polling, Acquire, Acquired, Greet, GreetingFails,
         ReadEnds, ReadAgain
    <2>2. \/ UNCHANGED bus \/ bus' = FreeBus \/ \E name \in Commands : Asks(Poller, name)
          \/ bus.user = Poller /\ (ReadAgain \/ Greet(Poller))
      BY <1>1 DEF SensorConnects, SensorDisconnects, Read, Polling, Acquire, GreetingFails, ReadEnds,
         ReadAgain, Greet, Waits
    <2>3. bus.user = Poller /\ (ReadAgain \/ Greet(Poller)) => bus'.user # Operator
      BY DEF ReadAgain, Greet, BusType
    <2> QED
      BY <2>1, <2>2, <2>3, PollerMoves, AskedBus
  <1>2. ASSUME NEW b \in Beats, Beating(b)
        PROVE  UNCHANGED <<at[Operator], left, madeSafe>> /\ (bus'.user = Operator => bus.user = Operator)
    <2>1. UNCHANGED <<left, madeSafe>> /\ (UNCHANGED at \/ \E l \in BeatLabels : Goto(b, l))
      BY <1>2 DEF Beating, BeatWakes, Locks, AskHeartbeat, Beat, BeatAndLook, CannotAsk, AskStatus, Look,
         BeatFailed
    <2>2. UNCHANGED bus \/ bus' = FreeBus \/ \E name \in Commands : Asks(b, name)
      BY <1>2 DEF Beating, BeatWakes, Locks, AskHeartbeat, Beat, BeatAndLook, CannotAsk, AskStatus, Look,
         BeatFailed
    <2> QED
      BY <2>1, <2>2, BeatMoves, AskedBus
  <1> QED
    BY <1>1, <1>2

LEMMA SafeStep ==
  ASSUME LinkInv, SafeInv, [Next]_vars
  PROVE  SafeInv'
  <1>1. CASE UNCHANGED vars
    BY <1>1 DEF vars, SafeInv, Leaving, OnlySafeAsked, AnswerMeansSafe
  <1>2. CASE Board /\ UNCHANGED hostVars
    BY <1>2, BoardSafe DEF LinkInv
  <1>3. CASE HostEnds
    BY <1>3, FreeBusType, ThreadFacts DEF HostEnds, SafeInv, Leaving
  <1>4. CASE SafeEnds
    <2>1. Leaving /\ bus' = FreeBus /\ UNCHANGED madeSafe
      BY <1>4 DEF SafeEnds, Waits, Leaving, farSide
    <2>2. left' = "clean" => madeSafe
      <3>1. ASSUME left' = "clean" PROVE toHost # <<>> /\ Head(toHost).latest
        BY <1>4, <3>1 DEF SafeEnds, Answered, Matches
      <3> QED
        BY <2>1, <3>1, HeadAndTail DEF SafeInv, AnswerMeansSafe, LinkInv, LineType
    <2> QED
      BY <2>1, <2>2, FreeBusType, ThreadFacts DEF SafeInv, Leaving
  <1>5. CASE AskSafe
    <2>1. Sent("safe_state", toHost) /\ UNCHANGED <<madeSafe, left, at>> /\ at[Operator] = "safe"
      BY <1>5 DEF AskSafe, Asks, farSide, outcomes
    <2>2. OnlySafeAsked' /\ AnswerMeansSafe'
      BY <2>1, CommandFacts, SentLine DEF LinkInv, LineType, OnlySafeAsked, AnswerMeansSafe
    <2> QED
      BY <2>1, <2>2 DEF SafeInv, Leaving, AskingLabels
  <1>6. CASE Host /\ ~SafeEnds /\ ~AskSafe
    <2>1. /\ bus'.user = Operator => at'[Operator] \in AskingLabels
          /\ Leaving' => Leaving
          /\ left' = "none" \/ UNCHANGED <<left, madeSafe>>
      BY <1>6, OperatorSafe, OthersSafe DEF Host, SafeInv, Leaving
    <2>2. Leaving => OnlySafeAsked' /\ AnswerMeansSafe'
      BY <1>6, HostLine DEF LinkInv, SafeInv, Leaving, OnlySafeAsked, AnswerMeansSafe
    <2> QED
      BY <2>1, <2>2 DEF SafeInv
  <1> QED
    BY <1>1, <1>2, <1>3, <1>4, <1>5, <1>6 DEF Next

(* A disconnect() that does not raise has made the board safe, whatever late
   replies were on the line (Esp32Controller.disconnect, Esp32Client._request). *)
THEOREM CleanDisconnectsAreSafe == Spec => []CleanDisconnectIsSafe
  <1>1. Init => SafeInv
    BY FreeBusType, ThreadFacts DEF Init, SafeInv, Leaving
  <1>2. LinkInv /\ SafeInv /\ [Next]_vars => SafeInv'
    BY SafeStep
  <1>3. SafeInv => CleanDisconnectIsSafe
    BY DEF SafeInv, CleanDisconnectIsSafe
  <1> QED
    BY LinkAlways, <1>1, <1>2, <1>3, PTL DEF Spec

(***************************************************************************)
(* The types, and the bounds of the counters.                              *)
(***************************************************************************)

Flags ==
    /\ madeSafe \in BOOLEAN /\ portOpen \in BOOLEAN /\ stop \in BOOLEAN /\ sensorHas \in BOOLEAN
    /\ gone \in BOOLEAN

Counters ==
    /\ faults \in 0..MaxFaults /\ connects \in 0..MaxConnects
    /\ ctlUser \in {Operator, Nobody} \cup Beats
    /\ left \in {"none", "clean", "raised"}

(* A place is kept for the controller, and for a sensor that is about to acquire. *)
Room ==
    /\ clients <= MaxClients
    /\ at[Poller] \in {"acquire", "open"} \/ ~ctl.acquired => clients + 1 <= MaxClients
    /\ at[Poller] \in {"acquire", "open"} /\ ~ctl.acquired => clients + 2 <= MaxClients

LEMMA FlagStep ==
  ASSUME Flags, [Next]_vars
  PROVE  Flags'
  <1> USE DEF Flags
  <1>1. CASE UNCHANGED vars
    BY <1>1, Zenon DEF vars
  <1>2. CASE Board /\ UNCHANGED hostVars
    BY <1>2, Zenon DEF Board, hostVars, TimePasses, CheckWatchdog, handleCommand, LineFault
  <1>3. CASE HostEnds
    BY <1>3, Zenon DEF HostEnds, farSide
  <1>4. CASE Connect \/ Disconnect \/ Disconnecting \/ (\E name \in Orders : Order(name)) \/ Commanding
    BY <1>4, Zenon DEF Connect, Disconnect, Disconnecting, Joined, AskSafe, SafeEnds, Disconnected, Leave, Release,
       Order, Commanding, AskOrder, Ordered, AskStatus, CannotAsk, OrderEnds, farSide, connection, outcomes
  <1>5. CASE Connecting
    BY <1>5, Zenon DEF Connecting, Acquire, Acquired, Greet, GreetingFails, AskStatus, Start, StartFails, Undo,
       Leave, Release, farSide, connection, outcomes
  <1>6. CASE SensorConnects \/ SensorDisconnects \/ Read \/ Polling
    BY <1>6, Zenon DEF SensorConnects, SensorDisconnects, Release, Read, Polling, Acquire, Acquired, Greet,
       GreetingFails, ReadEnds, ReadAgain, farSide, connection, outcomes
  <1>7. ASSUME NEW b \in Beats, Beating(b)
        PROVE  Flags'
    BY <1>7, Zenon DEF Beating, BeatWakes, Locks, AskHeartbeat, Beat, BeatAndLook, CannotAsk, AskStatus, Look,
       BeatFailed, farSide, connection, outcomes
  <1> QED
    BY <1>1, <1>2, <1>3, <1>4, <1>5, <1>6, <1>7, Zenon DEF Next, Host

LEMMA CounterStep ==
  ASSUME Counters, [Next]_vars
  PROVE  Counters'
  <1> USE FaultsAssumption, BoundsAssumption DEF outcomes
  <1>f. faults' = faults \/ (faults < MaxFaults /\ faults' = faults + 1) \/ NoAnswer => faults' \in 0..MaxFaults
    BY DEF Counters, NoAnswer
  <1>c. connects' \in {0, connects} \/ (connects < MaxConnects /\ connects' = connects + 1)
        => connects' \in 0..MaxConnects
    BY DEF Counters
  <1>1. CASE UNCHANGED vars
    BY <1>1 DEF vars, Counters
  <1>2. CASE Board /\ UNCHANGED hostVars
    <2>1. faults' = faults \/ (faults < MaxFaults /\ faults' = faults + 1)
      BY <1>2 DEF Board, TimePasses, CheckWatchdog, handleCommand, LineFault
    <2> QED
      BY <1>2, <1>f, <2>1 DEF hostVars, Counters
  <1>3. CASE HostEnds
    <2>1. UNCHANGED faults /\ ctlUser' = Nobody /\ left' = "none" /\ connects' = 0
      BY <1>3 DEF HostEnds
    <2> QED
      BY <1>f, <1>c, <2>1 DEF Counters
  <1>4. CASE Host
    <2>1. faults' = faults \/ NoAnswer
      BY <1>4 DEF Host, Connect, Disconnect, Disconnecting, Joined, AskSafe, SafeEnds, Disconnected, Leave,
         Order, Commanding, AskOrder, Ordered, AskStatus, CannotAsk, OrderEnds, Connecting, Acquire, Greet,
         GreetingFails, Start, StartFails, Undo, SensorConnects, SensorDisconnects, Read, Polling, ReadEnds,
         ReadAgain, Beating, BeatWakes, Locks, AskHeartbeat, Beat, BeatAndLook, Look, BeatFailed, Answered, Raises
    <2>2. connects' = connects \/ (connects < MaxConnects /\ connects' = connects + 1)
      BY <1>4 DEF Host, Connect, Disconnect, Disconnecting, Joined, AskSafe, SafeEnds, Disconnected, Leave,
         Order, Commanding, AskOrder, Ordered, AskStatus, CannotAsk, OrderEnds, Connecting, Acquire, Greet,
         GreetingFails, Start, StartFails, Undo, SensorConnects, SensorDisconnects, Read, Polling, ReadEnds,
         ReadAgain, Beating, BeatWakes, Locks, AskHeartbeat, Beat, BeatAndLook, Look, BeatFailed
    <2>3. left' \in {left, "none", "clean", "raised"}
      BY <1>4 DEF Host, Connect, Disconnect, Disconnecting, Joined, AskSafe, SafeEnds, Disconnected, Leave,
         Order, Commanding, AskOrder, Ordered, AskStatus, CannotAsk, OrderEnds, Connecting, Acquire, Greet,
         GreetingFails, Start, StartFails, Undo, SensorConnects, SensorDisconnects, Read, Polling, ReadEnds,
         ReadAgain, Beating, BeatWakes, Locks, AskHeartbeat, Beat, BeatAndLook, Look, BeatFailed
    <2>4. ctlUser' \in {ctlUser, Operator, Nobody} \cup Beats
      BY <1>4 DEF Host, Connect, Disconnect, Disconnecting, Joined, AskSafe, SafeEnds, Disconnected, Leave,
         Order, Commanding, AskOrder, Ordered, AskStatus, CannotAsk, OrderEnds, Connecting, Acquire, Greet,
         GreetingFails, Start, StartFails, Undo, SensorConnects, SensorDisconnects, Read, Polling, ReadEnds,
         ReadAgain, Beating, BeatWakes, Locks, AskHeartbeat, Beat, BeatAndLook, Look, BeatFailed
    <2> QED
      BY <1>f, <1>c, <2>1, <2>2, <2>3, <2>4 DEF Counters
  <1> QED
    BY <1>1, <1>2, <1>3, <1>4 DEF Next

(* Who acquires takes the place kept for it. *)
LEMMA PlaceTaken ==
  ASSUME MaxClients \in Nat, clients \in Nat, clients' \in Nat, Room, clients' <= clients + 1,
         \/ at[Poller] \in {"acquire", "open"} /\ at'[Poller] = "idle" /\ UNCHANGED ctl
         \/ UNCHANGED at[Poller] /\ ~ctl.acquired /\ ctl'.acquired
  PROVE  Room'
  <1>1. PICK most \in Nat, now \in Nat, next \in Nat :
           most = MaxClients /\ now = clients /\ next = clients'
    OBVIOUS
  <1>0. next <= now + 1
    BY <1>1
  <1>2. /\ now <= most
        /\ at[Poller] \in {"acquire", "open"} \/ ~ctl.acquired => now + 1 <= most
        /\ at[Poller] \in {"acquire", "open"} /\ ~ctl.acquired => now + 2 <= most
    BY <1>1 DEF Room
  <1>3. now + 1 <= most => next <= most
    BY <1>0
  <1>4. now + 2 <= most => next + 1 <= most
    BY <1>0
  <1>5. /\ next <= most
        /\ at'[Poller] \in {"acquire", "open"} \/ ~ctl'.acquired => next + 1 <= most
        /\ ~(at'[Poller] \in {"acquire", "open"} /\ ~ctl'.acquired)
    BY <1>2, <1>3, <1>4
  <1> QED
    BY <1>1, <1>5 DEF Room

LEMMA RoomStep ==
  ASSUME LinkInv, Room, [Next]_vars
  PROVE  Room'
  <1> USE ThreadFacts, LabelFacts, BoundsAssumption, FreeBusType
      DEF LinkInv, HostType, farSide, connection, outcomes
  <1>0. MaxClients \in Nat /\ clients \in Nat /\ clients' \in Nat
    BY LinkStep
  <1>1. CASE UNCHANGED vars \/ (Board /\ UNCHANGED hostVars)
    BY <1>1 DEF vars, hostVars, Room
  <1>2. CASE HostEnds
    BY <1>2 DEF HostEnds, Room
  <1>3. CASE SensorConnects
    BY <1>3, PollerMoves DEF SensorConnects, Room
  <1>4. CASE SensorDisconnects
    BY <1>4 DEF SensorDisconnects, Release, Room
  <1>5. CASE Acquire(Poller) \/ Greet(Poller)
    <2>1. CASE clients' = clients
      <3>1. UNCHANGED ctl /\ at[Poller] \in {"acquire", "open"}
        BY <1>5, <2>1 DEF Acquire, Acquired, Greet
      <3> QED
        BY <2>1, <3>1 DEF Room
    <2>2. CASE clients' # clients
      <3>1. UNCHANGED ctl /\ at[Poller] \in {"acquire", "open"} /\ Goto(Poller, "idle")
            /\ clients' \in {1, clients + 1}
        BY <1>5, <2>2 DEF Acquire, Acquired, Greet
      <3>2. clients' <= clients + 1
        BY <3>1
      <3>3. at'[Poller] = "idle"
        BY <3>1, PollerMoves
      <3> QED
        BY <1>0, <3>1, <3>2, <3>3, PlaceTaken
    <2> QED
      BY <2>1, <2>2
  <1>6. CASE GreetingFails(Poller) \/ Read \/ ReadEnds \/ ReadAgain
    <2>1. UNCHANGED <<ctl, clients>> /\ (UNCHANGED at \/ Goto(Poller, "idle") \/ Goto(Poller, "read"))
      BY <1>6 DEF GreetingFails, Read, ReadEnds, ReadAgain
    <2> QED
      BY <2>1, PollerMoves DEF Room
  <1>7. CASE Acquire(Operator) \/ Greet(Operator)
    <2>1. UNCHANGED at[Poller] /\ ~ctl.acquired
      BY <1>7, OperatorMoves DEF Acquire, Greet, Acquired, BusInv
    <2>2. CASE UNCHANGED clients
      BY <2>1, <2>2 DEF Room
    <2>3. CASE ~UNCHANGED clients
      <3>1. ctl' = [ctl EXCEPT !.acquired = TRUE] /\ clients' \in {1, clients + 1}
        BY <1>7, <2>3 DEF Acquire, Acquired, Greet
      <3>2. ctl'.acquired = TRUE
        BY <3>1, CtlChanges, StatusFacts
      <3>3. clients' <= clients + 1
        BY <3>1
      <3> QED
        BY <1>0, <2>1, <3>2, <3>3, PlaceTaken
    <2> QED
      BY <2>2, <2>3
  <1>8. CASE Undo \/ Disconnected
    <2>1. /\ at[Operator] \in {"undo", "release"} /\ clients' = clients - 1 /\ Goto(Operator, "idle")
          /\ ctl' = [ctl EXCEPT !.acquired = FALSE, !.status = "DISCONNECTED"]
      BY <1>8 DEF Undo, Disconnected, Leave, Release
    <2>2. ctl.acquired /\ ctl'.acquired = FALSE /\ UNCHANGED at[Poller]
      BY <2>1, OperatorMoves, CtlChanges, StatusFacts DEF BusInv
    <2> QED
      BY <2>1, <2>2 DEF Room
  <1>9. CASE Start
    <2>1. NewThread \in Beats
      BY <1>9 DEF Start, NewThread
    <2>2. UNCHANGED <<at[Poller], clients>>
      BY <1>9, <2>1 DEF Start, AtType
    <2>3. Head(toHost).tripped \in BOOLEAN
      BY <1>9, HeadAndTail, ReplyFields DEF Start, Answered, Matches, LineType
    <2>4. ctl'.acquired = ctl.acquired
      BY <1>9, <2>3, CtlChanges, StatusFacts DEF Start
    <2> QED
      BY <2>2, <2>4 DEF Room
  <1>10. CASE \/ Connect \/ GreetingFails(Operator) \/ AskStatus(Operator, "first", "starting") \/ StartFails
              \/ Disconnect \/ Joined \/ AskSafe \/ SafeEnds \/ (\E name \in Orders : Order(name)) \/ Commanding
    <2>1. UNCHANGED clients /\ (UNCHANGED at \/ \E l \in OperatorLabels : Goto(Operator, l))
      BY <1>10, OrdersAssumption DEF Connect, GreetingFails, AskStatus, StartFails, Disconnect, Joined, AskSafe,
         SafeEnds, Order, Commanding, AskOrder, Ordered, OrderEnds, CannotAsk
    <2>2. \/ ctl' = ctl \/ \E s \in Statuses : ctl' = [ctl EXCEPT !.status = s]
          \/ Answered /\ ctl' = [ctl EXCEPT !.tripped = Head(toHost).tripped]
      BY <1>10, StatusFacts DEF Connect, GreetingFails, AskStatus, StartFails, Disconnect, Joined, AskSafe,
         SafeEnds, Order, Commanding, AskOrder, Ordered, OrderEnds, CannotAsk
    <2>3. Answered => Head(toHost).tripped \in BOOLEAN
      BY HeadAndTail, ReplyFields DEF Answered, Matches, LineType
    <2>4. ctl'.acquired = ctl.acquired
      BY <2>2, <2>3, CtlChanges, StatusFacts
    <2> QED
      BY <2>1, <2>4, OperatorMoves DEF Room
  <1>11. ASSUME NEW b \in Beats, Beating(b)
         PROVE  Room'
    <2>1. UNCHANGED clients /\ (UNCHANGED at \/ \E l \in BeatLabels : Goto(b, l))
      BY <1>11 DEF Beating, BeatWakes, Locks, AskHeartbeat, Beat, BeatAndLook, CannotAsk, AskStatus, Look,
         BeatFailed
    <2>2. \/ ctl' = ctl \/ \E s \in Statuses : ctl' = [ctl EXCEPT !.status = s]
          \/ Answered /\ ctl' = [ctl EXCEPT !.tripped = Head(toHost).tripped]
      BY <1>11, StatusFacts DEF Beating, BeatWakes, Locks, AskHeartbeat, Beat, BeatAndLook, CannotAsk,
         AskStatus, Look, BeatFailed
    <2>3. Answered => Head(toHost).tripped \in BOOLEAN
      BY HeadAndTail, ReplyFields DEF Answered, Matches, LineType
    <2>4. ctl'.acquired = ctl.acquired
      BY <2>2, <2>3, CtlChanges, StatusFacts
    <2> QED
      BY <2>1, <2>4, BeatMoves DEF Room
  <1> QED
    BY <1>1, <1>2, <1>3, <1>4, <1>5, <1>6, <1>7, <1>8, <1>9, <1>10, <1>11
    DEF Next, Host, Connecting, Disconnecting, Polling

(* Every variable keeps its type, and no counter exceeds its bound. *)
THEOREM TypeCorrect == Spec => []TypeOK
  <1>1. Init => Flags /\ Counters /\ Room
    <2> SUFFICES ASSUME Init PROVE Flags /\ Counters /\ Room
      OBVIOUS
    <2>1. Flags
      BY Zenon DEF Init, BoardInit, Flags
    <2>2. Counters
      BY FaultsAssumption, BoundsAssumption DEF Init, BoardInit, Counters
    <2>3. at[Poller] = "idle" /\ clients = 0 /\ ~ctl.acquired
      BY ThreadFacts DEF Init
    <2> QED
      BY <2>1, <2>2, <2>3, BoundsAssumption DEF Room
  <1>2. Flags /\ [Next]_vars => Flags'
    BY FlagStep
  <1>3. Counters /\ [Next]_vars => Counters'
    BY CounterStep
  <1>4. LinkInv /\ Room /\ [Next]_vars => Room'
    BY RoomStep
  <1>5. LinkInv /\ Flags /\ Counters /\ Room => TypeOK
    <2> SUFFICES ASSUME LinkInv, Flags, Counters, Room PROVE TypeOK
      OBVIOUS
    <2>1. clients \in 0..MaxClients
      BY BoundsAssumption DEF LinkInv, HostType, Room
    <2>2. bus.user \in Threads \cup {Nobody} /\ bus.name \in Commands
      BY DEF LinkInv, HostType, BusType
    <2>3. {portOpen, stop, sensorHas, gone} \subseteq BOOLEAN /\ madeSafe \in BOOLEAN
      BY Zenon DEF Flags
    <2>4. BoardTypeOK
      BY <2>3 DEF LinkInv, LineType, BoardType, Counters, BoardTypeOK
    <2> QED
      BY <2>1, <2>2, <2>3, <2>4 DEF LinkInv, HostType, CtlType, AtType, Counters, TypeOK
  <1> QED
    BY LinkAlways, <1>1, <1>2, <1>3, <1>4, <1>5, PTL DEF Spec

=============================================================================
