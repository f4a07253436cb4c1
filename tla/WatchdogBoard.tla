---------------------------- MODULE WatchdogBoard ----------------------------
(***************************************************************************)
(* The controller at the far end of the serial line: the sketch            *)
(* nano_esp32_controller.ino, its heartbeat watchdog, and the line itself. *)
(*                                                                         *)
(* Time is what a comparison with WATCHDOG_TIMEOUT_MS tells apart: whether *)
(* the last heartbeat is too long ago.  It may be at any moment.  A        *)
(* message is what is asked or answered, and whether it is (the answer to) *)
(* the request the host sent last: the host compares the identifier of a   *)
(* reply with that one only, and never reads or empties its input          *)
(* otherwise.                                                              *)
(***************************************************************************)
EXTENDS Naturals, Sequences

CONSTANT MaxFaults      \* bound: messages lost, replies that come too late, restarts of the board

ASSUME FaultsAssumption == MaxFaults \in Nat

VARIABLES board,        \* the sketch's variables
          madeSafe,     \* history: outputs were made safe since the host last began to leave
          toBoard,      \* requests on the line, or in the board's input
          toHost,       \* replies not yet read
          faults        \* counted for its bound

boardVars == <<board, madeSafe, toBoard, toHost, faults>>

Commands == {"identify", "heartbeat", "status", "safe_state", "rearm", "read_sensors"}

Requests == [name : Commands, latest : BOOLEAN]

Replies == [ok : BOOLEAN, tripped : BOOLEAN, latest : BOOLEAN]

(* setup(): supervision starts with the first heartbeat. *)
PoweredUp == [heartbeatReceived |-> FALSE, tooLongAgo |-> FALSE, watchdogTripped |-> FALSE]

BoardTypeOK ==
    /\ board \in [heartbeatReceived : BOOLEAN, tooLongAgo : BOOLEAN, watchdogTripped : BOOLEAN]
    /\ madeSafe \in BOOLEAN
    /\ toBoard \in Seq(Requests)
    /\ toHost \in Seq(Replies)
    /\ faults \in 0..MaxFaults

BoardInit ==
    /\ board = PoweredUp
    /\ madeSafe = TRUE
    /\ toBoard = <<>>
    /\ toHost = <<>>
    /\ faults = 0

watchdogCurrentlyExpired == board.heartbeatReceived /\ board.tooLongAgo

(* No heartbeat for longer than the timeout. *)
TimePasses ==
    /\ ~board.tooLongAgo
    /\ board' = [board EXCEPT !.tooLongAgo = TRUE]
    /\ UNCHANGED <<madeSafe, toBoard, toHost, faults>>

(* Mutation: the watchdog is looked at when something was said. *)
CheckAfterSerial ==
    /\ ~board.watchdogTripped
    /\ watchdogCurrentlyExpired
    /\ toBoard # <<>>
    /\ board' = [board EXCEPT !.watchdogTripped = TRUE]
    /\ madeSafe' = TRUE
    /\ UNCHANGED <<toBoard, toHost, faults>>

(* The watchdog is looked at whether or not anything is said on the line. *)
CheckWatchdog ==
    /\ ~board.watchdogTripped
    /\ watchdogCurrentlyExpired
    /\ board' = [board EXCEPT !.watchdogTripped = TRUE]
    /\ madeSafe' = TRUE
    /\ UNCHANGED <<toBoard, toHost, faults>>

(* What a command does to the board. *)
Done(name) ==
    CASE name = "heartbeat" -> [board EXCEPT !.heartbeatReceived = TRUE, !.tooLongAgo = FALSE]
      [] name = "rearm" /\ board.heartbeatReceived /\ ~watchdogCurrentlyExpired ->
            [board EXCEPT !.watchdogTripped = FALSE]
      [] OTHER -> board

Refused(name) == name = "rearm" /\ (~board.heartbeatReceived \/ watchdogCurrentlyExpired)

(* Only the answer to the latest status request says anything of the latch. *)
Reply(request) ==
    [ok |-> ~Refused(request.name), latest |-> request.latest,
     tripped |-> request.name = "status" /\ request.latest /\ board.watchdogTripped]

handleCommand ==
    /\ toBoard # <<>>
    /\ LET request == Head(toBoard)
       IN /\ board' = Done(request.name)
          /\ madeSafe' = (madeSafe \/ request.name = "safe_state")
          /\ toHost' = Append(toHost, Reply(request))
    /\ toBoard' = Tail(toBoard)
    /\ UNCHANGED faults

(* A request or a reply is spoilt on the line, or the board starts again. *)
LineFault ==
    /\ faults < MaxFaults
    /\ faults' = faults + 1
    /\ \/ /\ toBoard # <<>> /\ toBoard' = Tail(toBoard)
          /\ UNCHANGED <<board, madeSafe, toHost>>
       \/ /\ toHost # <<>> /\ toHost' = Tail(toHost)
          /\ UNCHANGED <<board, madeSafe, toBoard>>
       \/ board' = PoweredUp /\ madeSafe' = TRUE /\ toBoard' = <<>> /\ UNCHANGED toHost

-----------------------------------------------------------------------------
(* The host's end of the line. *)

StaleRequests == [i \in DOMAIN toBoard |-> [toBoard[i] EXCEPT !.latest = FALSE]]

StaleReplies(replies) ==
    [i \in DOMAIN replies |-> [ok |-> TRUE, latest |-> FALSE, tripped |-> FALSE]]

(* A request is sent, with an identifier of its own; these replies are unread. *)
Sent(name, unread) ==
    /\ toBoard' = Append(StaleRequests, [name |-> name, latest |-> TRUE])
    /\ toHost' = StaleReplies(unread)

(* Closing the port forgets what was received; the board still works on what
   it was sent. *)
PortClosed == toHost' = <<>> /\ toBoard' = StaleRequests

(* A reply to the request sent last is still to come. *)
AnswerComing == \E i \in DOMAIN toBoard : toBoard[i].latest

=============================================================================
