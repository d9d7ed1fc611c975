---------------------------- MODULE AlertDelivery ----------------------------
(***************************************************************************)
(* What the live channel promises its clients, whatever the coroutines do: *)
(* a message that is pushed goes to the clients connected at that moment,  *)
(* to each of them once unless it leaves first, and to nobody else, in no  *)
(* particular order; and the push ends.  WsAlerts implements this;         *)
(* AlertPanel stands on it.                                                *)
(***************************************************************************)
CONSTANTS
    Sockets,   \* the connections of the clients, each used once
    Messages   \* what is pushed

VARIABLES
    conn,   \* each socket: "new", "on" once the server has registered it, "off" for good
    push,   \* how far the push of each message is
    due,    \* the sockets each message must still be handed to
    got     \* what each client was handed

vars == <<conn, push, due, got>>

Init ==
    /\ conn = [s \in Sockets |-> "new"]
    /\ push = [m \in Messages |-> "unsent"]
    /\ due = [m \in Messages |-> {}]
    /\ got = [s \in Sockets |-> {}]

On == {s \in Sockets : conn[s] = "on"}

Join(s) ==
    /\ conn[s] = "new"
    /\ conn' = [conn EXCEPT ![s] = "on"]
    /\ UNCHANGED <<push, due, got>>

\* The client leaves, or the server is full and never has it.
Leave(s) ==
    /\ conn[s] # "off"
    /\ conn' = [conn EXCEPT ![s] = "off"]
    /\ due' = [m \in Messages |-> due[m] \ {s}]
    /\ UNCHANGED <<push, got>>

Push(m) ==
    /\ push[m] = "unsent"
    /\ push' = [push EXCEPT ![m] = "send"]
    /\ due' = [due EXCEPT ![m] = On]
    /\ UNCHANGED <<conn, got>>

Hand(m, s) ==
    /\ s \in due[m]
    /\ due' = [due EXCEPT ![m] = @ \ {s}]
    /\ got' = [got EXCEPT ![s] = @ \cup {m}]
    /\ UNCHANGED <<conn, push>>

Done(m) ==
    /\ push[m] = "send"
    /\ due[m] = {}
    /\ push' = [push EXCEPT ![m] = "done"]
    /\ UNCHANGED <<conn, due, got>>

Progress(m) == Done(m) \/ \E s \in Sockets : Hand(m, s)

Next ==
    \/ \E s \in Sockets : Join(s) \/ Leave(s)
    \/ \E m \in Messages : Push(m) \/ Progress(m)

\* Every push ends.
Spec == Init /\ [][Next]_vars /\ \A m \in Messages : WF_vars(Progress(m))

==============================================================================
