------------------------------- MODULE WsAlerts -------------------------------
(***************************************************************************)
(* The live alert channel: ConnectionManager (api/ws_alerts.py), the       *)
(* WebSocket endpoint and the internal pushes that broadcast               *)
(* (api/routes_alerts.py, api/routes_detections.py).                       *)
(*                                                                         *)
(* The coroutines share one event loop, so what runs between two awaits is *)
(* one action, and at each await the others may run: endpoints come and go *)
(* and other broadcasts start while one broadcast is under way.            *)
(***************************************************************************)
EXTENDS Integers, Sequences, SequencesExt

CONSTANTS
    Sockets,        \* the WebSocket connections clients make, each used once
    Messages,       \* the alerts and detections pushed
    MaxConnections  \* MAX_WS_CONNECTIONS

ASSUME WsAssumption == MaxConnections \in Nat \ {0}

VARIABLES
    phase,       \* where the endpoint coroutine of each socket is
    broken,      \* the sockets whose client has gone
    active,      \* ConnectionManager.active_connections
    cast,        \* the broadcast of each message: its copy of the list, the loop's position
    received,    \* how often each client received each message
    overlapped   \* ghost: has one connect passed the cap's check during another's accept?

vars == <<phase, broken, active, cast, received, overlapped>>

Casts == [at : {"unsent", "send", "close", "done"}, copy : Seq(Sockets), pos : Nat \ {0}]
Unsent == [at |-> "unsent", copy |-> <<>>, pos |-> 1]

Init ==
    /\ phase = [s \in Sockets |-> "new"]
    /\ broken = {}
    /\ active = <<>>
    /\ cast = [m \in Messages |-> Unsent]
    /\ received = [s \in Sockets |-> [m \in Messages |-> 0]]
    /\ overlapped = FALSE

Active == {active[k] : k \in 1..Len(active)}
In(p) == {s \in Sockets : phase[s] = p}

-------------------------------------------------------------------------------
(* connect, disconnect and the endpoint *)

\* Mutant: the check uses >.
RoomForOneMore == Len(active) <= MaxConnections

Room == Len(active) < MaxConnections

\* connect up to its await: accept() if there is room.
ConnectAccept(s) ==
    /\ phase[s] = "new"
    /\ Room
    /\ phase' = [phase EXCEPT ![s] = "accepting"]
    /\ overlapped' = (overlapped \/ In("accepting") # {})
    /\ UNCHANGED <<broken, active, cast, received>>

\* "Server busy": closed without having been accepted, and never registered.
ConnectRefuse(s) ==
    /\ phase[s] = "new"
    /\ ~Room
    /\ phase' = [phase EXCEPT ![s] = "ended"]
    /\ UNCHANGED <<broken, active, cast, received, overlapped>>

\* accept() returns: the socket is registered and the endpoint waits for its client.
Register(s) ==
    /\ phase[s] = "accepting"
    /\ phase' = [phase EXCEPT ![s] = "open"]
    /\ active' = Append(active, s)
    /\ UNCHANGED <<broken, cast, received, overlapped>>

\* accept() raises: the exception leaves the endpoint before its try block.
AcceptFails(s) ==
    /\ phase[s] = "accepting"
    /\ s \in broken
    /\ phase' = [phase EXCEPT ![s] = "ended"]
    /\ UNCHANGED <<broken, active, cast, received, overlapped>>

ClientLeaves(s) ==
    /\ phase[s] \in {"accepting", "open"}
    /\ s \notin broken
    /\ broken' = broken \cup {s}
    /\ UNCHANGED <<phase, active, cast, received, overlapped>>

\* disconnect: list.remove, if the socket is still there.
Without(list, s) == RemoveFirst(list, s)

\* Mutant: the endpoint returns without its finally block.
EndpointEndsOnly(s) ==
    /\ phase[s] = "open"
    /\ s \in broken
    /\ phase' = [phase EXCEPT ![s] = "ended"]
    /\ UNCHANGED <<broken, active, cast, received, overlapped>>

\* receive_text raises, because the client left or a broadcast closed the socket: the
\* finally block disconnects.
EndpointEnds(s) ==
    /\ phase[s] = "open"
    /\ s \in broken
    /\ phase' = [phase EXCEPT ![s] = "ended"]
    /\ active' = Without(active, s)
    /\ UNCHANGED <<broken, cast, received, overlapped>>

-------------------------------------------------------------------------------
(* broadcast_message *)

\* internal_push_alert or internal_push_detection: the list is copied.
Push(m) ==
    /\ cast[m] = Unsent
    /\ cast' = [cast EXCEPT ![m] = [at |-> "send", copy |-> active, pos |-> 1]]
    /\ UNCHANGED <<phase, broken, active, received, overlapped>>

\* Mutant: the loop iterates over the list itself.
TargetsLive(m) == active

\* What the for loop iterates over.
Targets(m) == cast[m].copy

Sending(m) == cast[m].at = "send" /\ cast[m].pos <= Len(Targets(m))
Target(m) == Targets(m)[cast[m].pos]

\* The send reaches a client that is still there.
Send(m) ==
    /\ Sending(m)
    /\ Target(m) \notin broken
    /\ received' = [received EXCEPT ![Target(m)][m] = @ + 1]
    /\ cast' = [cast EXCEPT ![m].pos = @ + 1]
    /\ UNCHANGED <<phase, broken, active, overlapped>>

\* The send to a client that has left goes nowhere: the server may not know it yet.
SendLost(m) ==
    /\ Sending(m)
    /\ Target(m) \in broken
    /\ cast' = [cast EXCEPT ![m].pos = @ + 1]
    /\ UNCHANGED <<phase, broken, active, received, overlapped>>

\* Or it raises, and the loop awaits close().
SendRaises(m) ==
    /\ Sending(m)
    /\ Target(m) \in broken
    /\ cast' = [cast EXCEPT ![m].at = "close"]
    /\ UNCHANGED <<phase, broken, active, received, overlapped>>

\* Mutant: the exception ends the whole broadcast.
DisconnectStops(m) ==
    /\ cast[m].at = "close"
    /\ active' = Without(active, Target(m))
    /\ cast' = [cast EXCEPT ![m].at = "done"]
    /\ UNCHANGED <<phase, broken, received, overlapped>>

\* close() returns or raises, which is the same to the loop, and the socket goes.
Disconnect(m) ==
    /\ cast[m].at = "close"
    /\ active' = Without(active, Target(m))
    /\ cast' = [cast EXCEPT ![m] = [at |-> "send", copy |-> @.copy, pos |-> @.pos + 1]]
    /\ UNCHANGED <<phase, broken, received, overlapped>>

\* The loop ends, and the push is answered.
Broadcasted(m) ==
    /\ cast[m].at = "send"
    /\ ~Sending(m)
    /\ cast' = [cast EXCEPT ![m].at = "done"]
    /\ UNCHANGED <<phase, broken, active, received, overlapped>>

Broadcast(m) ==
    Send(m) \/ SendLost(m) \/ SendRaises(m) \/ Disconnect(m) \/ Broadcasted(m)

Endpoint(s) ==
    ConnectAccept(s) \/ ConnectRefuse(s) \/ Register(s) \/ AcceptFails(s) \/ EndpointEnds(s)

Next ==
    \/ \E s \in Sockets : Endpoint(s) \/ ClientLeaves(s)
    \/ \E m \in Messages : Push(m) \/ Broadcast(m)

\* The event loop runs what is ready. That a send ends, sooner or later, is up to the
\* client's TCP window and to the server's ping timeout: the code sets no bound.
Spec ==
    /\ Init /\ [][Next]_vars
    /\ \A m \in Messages : WF_vars(Broadcast(m))
    /\ \A s \in Sockets : WF_vars(EndpointEnds(s))

-------------------------------------------------------------------------------
(* Properties *)

\* No socket is in the list twice.
RegisteredOnce(list) == \A j, k \in 1..Len(list) : list[j] = list[k] => j = k

\* The type of every variable, and no socket registered twice.
TypeOK ==
    /\ phase \in [Sockets -> {"new", "accepting", "open", "ended"}]
    /\ broken \subseteq Sockets
    /\ active \in Seq(Sockets)
    /\ RegisteredOnce(active)
    /\ cast \in [Messages -> Casts]
    /\ received \in [Sockets -> [Messages -> Nat]]
    /\ overlapped \in BOOLEAN

Copies(m) == {cast[m].copy[k] : k \in 1..Len(cast[m].copy)}

\* A broadcast that is over has reached every client that was connected when it started
\* and still is, exactly once, and nobody else: sockets removed while the loop waited,
\* by their endpoint or by another broadcast, make it skip or repeat no one.
BroadcastReachesAll ==
    \A m \in Messages, s \in Sockets :
        /\ received[s][m] <= 1
        /\ received[s][m] = 1 => s \in Copies(m)
        /\ cast[m].at = "done" /\ s \in Copies(m) \ broken => received[s][m] = 1

\* What is registered has an endpoint that will disconnect it: an ended endpoint leaves
\* nothing in the list, and no broadcast puts a socket back.
NoGhostConnection == Active \subseteq In("open")

\* The cap of MAX_WS_CONNECTIONS holds unless two connects overlap in their accepts: the
\* check and the append are an await apart.
CapUnlessOverlap == ~overlapped => Len(active) <= MaxConnections

\* What each broadcast has still to do: the rest of its copy of the list, for who is there.
Due(m) == IF cast[m].at \in {"send", "close"}
          THEN {cast[m].copy[k] : k \in cast[m].pos..Len(cast[m].copy)} \ broken
          ELSE {}

\* A socket as its client sees it.
Conn(s) == IF s \in broken \/ phase[s] = "ended" THEN "off"
           ELSE IF phase[s] = "open" THEN "on" ELSE "new"

Stage(m) == IF cast[m].at = "close" THEN "send" ELSE cast[m].at

\* The channel as its clients see it.
Channel == INSTANCE AlertDelivery WITH
    conn <- [s \in Sockets |-> Conn(s)],
    push <- [m \in Messages |-> Stage(m)],
    due <- [m \in Messages |-> Due(m)],
    got <- [s \in Sockets |-> {m \in Messages : received[s][m] > 0}]

\* The coroutines, their copies of the list and their awaits are invisible: every behaviour
\* of the channel is one of AlertDelivery. That every push is answered, however many clients
\* leave during its broadcast, is part of it (WF_vars(Progress(m))).
Delivers == Channel!Spec

===============================================================================
