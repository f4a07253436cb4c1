----------------------------- MODULE AlicatBus -----------------------------
(***************************************************************************)
(* Alicats that share a serial port (devices/alicat/bus.py, over           *)
(* transports/pyserial_text.py), from their connecting to their            *)
(* disconnecting (devices/alicat/meter.py, driver.py).                     *)
(*                                                                         *)
(* An exchange is one step: it is made under the lock of the bus.  Its     *)
(* reply may come after the time for it, to be read as the reply to        *)
(* another request, or be garbled (Nothing).  Left out: the contents of    *)
(* replies but for the address, and all other exchanges of a controller.   *)
(***************************************************************************)
EXTENDS Naturals, Sequences, FiniteSets, Functions

CONSTANTS Sharing,       \* the devices on the port
          Describing,    \* those that are asked for a table when they connect
          Attempts,      \* at a reading
          MaxLate,       \* bound: replies in the port and still to come
          Nothing

VARIABLES port,          \* "open" or "closed"
          clients,       \* _client_count
          opened,        \* _opened_by_clients
          unread,        \* whose replies wait in the port
          coming,        \* how many replies of a device are late
          alicat,        \* of each device: status, holds (_connected), doing, left (attempts)
          answered,      \* whose reply its last reading was (history)
          cut            \* a table without an end closed the port (history)

busVars == <<port, clients, opened, unread, coming, alicat, answered, cut>>

BusInit ==
    /\ port = "closed" /\ clients = 0 /\ opened = FALSE /\ cut = FALSE
    /\ unread = <<>> /\ coming = [d \in Sharing |-> 0]
    /\ alicat = [d \in Sharing |->
                    [status |-> "DISCONNECTED", holds |-> FALSE, doing |-> "nothing", left |-> 0]]
    /\ answered = [d \in Sharing |-> Nothing]

Idle(d) == alicat[d].doing = "nothing"

Turn(d, status, holds, doing, left) ==
    alicat' = [alicat EXCEPT ![d] = [status |-> status, holds |-> holds, doing |-> doing, left |-> left]]

-----------------------------------------------------------------------------
(* References to the connection. *)

(* A port that is opened is purged (pyserial). *)
Opens == port' = "open" /\ opened' = TRUE /\ unread' = <<>> /\ cut' = FALSE

Acquire(d) ==
    /\ Idle(d) /\ alicat[d].status = "DISCONNECTED"
    /\ IF clients = 0 /\ port = "closed" THEN Opens ELSE UNCHANGED <<port, opened, unread, cut>>
    /\ clients' = clients + 1
    /\ Turn(d, "CONNECTING", TRUE, "connect", 1)
    /\ UNCHANGED <<coming, answered>>

(* The port is not there.  No reference was taken, and none is given back. *)
OpenFails(d) ==
    /\ Idle(d) /\ alicat[d].status = "DISCONNECTED" /\ clients = 0 /\ port = "closed"
    /\ Turn(d, "FAULTED", FALSE, "nothing", 0)
    /\ UNCHANGED <<port, clients, opened, unread, coming, answered, cut>>

(* release(), of a device that holds: of the port and what waits in it. *)
Release(waiting) ==
    /\ clients' = clients - 1
    /\ IF clients = 1 /\ opened
       THEN port' = "closed" /\ opened' = FALSE /\ unread' = <<>>
       ELSE UNCHANGED <<port, opened>> /\ unread' = waiting

Disconnect(d) ==
    /\ Idle(d) /\ alicat[d].status # "DISCONNECTED"
    /\ IF alicat[d].holds THEN Release(unread) ELSE UNCHANGED <<port, clients, opened, unread>>
    /\ Turn(d, "DISCONNECTED", FALSE, "nothing", 0)
    /\ UNCHANGED <<coming, answered, cut>>

-----------------------------------------------------------------------------
(* Exchanges. *)

(* An attempt fails.  A device that connects gives its reference back, once; one that
   reads is faulty after its last attempt, and keeps it. *)
Fails(d, waiting) ==
    IF alicat[d].doing = "connect"
    THEN Release(waiting) /\ Turn(d, "FAULTED", FALSE, "nothing", 0)
    ELSE /\ IF alicat[d].left = 1 THEN Turn(d, "FAULTED", TRUE, "nothing", 0)
            ELSE Turn(d, "READY", TRUE, "read", alicat[d].left - 1)
         /\ unread' = waiting /\ UNCHANGED <<port, clients, opened>>

(* request(): the reply is the oldest line in the port.  That of another is refused
   (_parse_state()). *)
Takes(d, waiting) ==
    IF waiting = <<>> \/ Head(waiting) # d
    THEN Fails(d, IF waiting = <<>> THEN <<>> ELSE Tail(waiting)) /\ UNCHANGED answered
    ELSE /\ Turn(d, IF alicat[d].doing = "connect" /\ d \in Describing THEN "CONNECTING" ELSE "READY",
                 TRUE, IF alicat[d].doing = "connect" /\ d \in Describing THEN "describe" ELSE "nothing", 0)
         /\ answered' = [answered EXCEPT ![d] = Head(waiting)]
         /\ unread' = Tail(waiting) /\ UNCHANGED <<port, clients, opened>>

Asks(d) == alicat[d].doing \in {"connect", "read"}

Unserved == Len(unread) + FoldFunction(LAMBDA m, n : m + n, 0, coming)

Exchange(d) ==
    /\ Asks(d) /\ port = "open"
    /\ \E reply \in {<<d>>, <<Nothing>>, <<>>} : Takes(d, unread \o reply)
    /\ UNCHANGED <<coming, cut>>

AnsweredLate(d) ==
    /\ Asks(d) /\ port = "open" /\ Unserved < MaxLate
    /\ coming' = [coming EXCEPT ![d] = @ + 1]
    /\ Takes(d, unread)
    /\ UNCHANGED cut

NotConnected(d) ==
    /\ Asks(d) /\ port = "closed"
    /\ Fails(d, unread)
    /\ UNCHANGED <<coming, answered, cut>>

Arrive(d) ==
    /\ coming[d] > 0
    /\ coming' = [coming EXCEPT ![d] = @ - 1]
    /\ unread' = IF port = "open" THEN Append(unread, d) ELSE unread
    /\ UNCHANGED <<port, clients, opened, alicat, answered, cut>>

BeginReading(d) ==
    /\ Idle(d) /\ alicat[d].status = "READY"
    /\ Turn(d, "READY", TRUE, "read", Attempts)
    /\ UNCHANGED <<port, clients, opened, unread, coming, answered, cut>>

(* A table is all that comes until the line is idle, answered now, later or not.  One
   that has no end closes the port.  A controller that does not describe itself can be read. *)
Describe(d) ==
    /\ alicat[d].doing = "describe"
    /\ unread' = <<>>
    /\ \/ UNCHANGED <<port, cut>>
       \/ port = "open" /\ port' = "closed" /\ cut' = TRUE
    /\ \/ UNCHANGED coming
       \/ Unserved < MaxLate /\ coming' = [coming EXCEPT ![d] = @ + 1]
    /\ Turn(d, "READY", TRUE, "nothing", 0)
    /\ UNCHANGED <<clients, opened, answered>>

BusNext ==
    \E d \in Sharing :
        \/ Acquire(d) \/ OpenFails(d) \/ Disconnect(d)
        \/ Exchange(d) \/ AnsweredLate(d) \/ NotConnected(d) \/ Arrive(d)
        \/ BeginReading(d) \/ Describe(d)

-----------------------------------------------------------------------------

Holders == {d \in Sharing : alicat[d].holds}

(* In whatever order devices connect, fail and disconnect, the port is open as long as
   one uses it, closed by none before, and not left open when all are disconnected.
   (The exception: a table without an end.)  However late replies are, no device takes
   that of another for its reading. *)
BusServesItsClients ==
    /\ port = "open" => Holders # {}
    /\ Holders # {} /\ ~cut => port = "open"
    /\ \A d \in Sharing : /\ alicat[d].status = "READY" => alicat[d].holds
                          /\ alicat[d].status = "DISCONNECTED" => ~alicat[d].holds
                          /\ answered[d] \in {d, Nothing}

=============================================================================
