------------------------------ MODULE AlertPanel ------------------------------
(***************************************************************************)
(* The panel of live alerts (components/AlertPanel.jsx) against the alerts *)
(* table (db/dao_alerts.py, api/routes_alerts.py): a view fetches the open *)
(* alerts once, shows what the channel hands it, and acknowledges.  The    *)
(* row of an alert is inserted first and its push follows from another     *)
(* thread (alerting/alert_dispatcher.py), so the answer to the fetch, the  *)
(* push, an acknowledgement and a clearing of the logs come in any order.  *)
(*                                                                         *)
(* A view is one mounting of the panel, with the one connection it opens;  *)
(* the channel is AlertDelivery, which WsAlerts implements; that a push    *)
(* ends, no panel sees.                                                    *)
(***************************************************************************)
EXTENDS Integers, Sequences, FiniteSets, SequencesExt

CONSTANTS
    Views,        \* the mountings of the panel
    LogViews,     \* those in the window whose log page clears the logs
    Alerts,       \* the alerts, by alert_id
    CreatedAt,    \* the second in which each row is created: it orders what a fetch returns
    FetchLimit,   \* fetchAlerts(20)
    ShowLimit,    \* slice(0, 50)
    MaxAsked      \* bound: the acknowledgements a view has under way

ASSUME PanelAssumption ==
    /\ LogViews \subseteq Views
    /\ IsFiniteSet(Alerts)
    /\ CreatedAt \in [Alerts -> Nat]
    /\ FetchLimit \in Nat \ {0} /\ ShowLimit \in Nat \ {0} /\ MaxAsked \in Nat \ {0}

VARIABLES
    conn, push, due, got,   \* the channel
    row,      \* each alert's row: "none", "open", "acked" or "deleted"
    page,     \* each view: "new", "open" or "closed"
    fetch,    \* its fetch: how far it is, and the rows of the answer
    list,     \* the alerts it shows
    ack,      \* its click on each alert: "no", "asked" or "changed", the row updated
    clear,    \* the log page: "idle", or "deleted" once its request has deleted the rows
    early,    \* ghost: the alerts a view was handed before its fetch was answered
    wiped     \* ghost: the open alerts each view showed when the logs were cleared

channel == <<conn, push, due, got>>
ghosts == <<early, wiped>>
vars == <<channel, row, page, fetch, list, ack, clear, ghosts>>

Channel == INSTANCE AlertDelivery WITH Sockets <- Views, Messages <- Alerts

\* A view whose fetch has not been made.
NoFetch == [at |-> "none", rows |-> <<>>]

Init ==
    /\ Channel!Init
    /\ row = [a \in Alerts |-> "none"]
    /\ page = [v \in Views |-> "new"]
    /\ fetch = [v \in Views |-> NoFetch]
    /\ list = [v \in Views |-> <<>>]
    /\ ack = [v \in Views |-> [a \in Alerts |-> "no"]]
    /\ clear = "idle"
    /\ early = [v \in Views |-> {}]
    /\ wiped = [v \in Views |-> {}]

Elems(s) == {s[k] : k \in 1..Len(s)}
Distinct(s) == \A j, k \in 1..Len(s) : s[j] = s[k] => j = k
In(status) == {a \in Alerts : row[a] = status}

-------------------------------------------------------------------------------
(* The table, the dispatcher and the log page *)

\* insert_alert commits; those of two workers in any order.
Insert(a) ==
    /\ row[a] = "none"
    /\ row' = [row EXCEPT ![a] = "open"]
    /\ UNCHANGED <<channel, page, fetch, list, ack, clear, ghosts>>

\* _send_broadcast, from the executor or another process: any time after the insert,
\* whatever has become of the row; or never, if the request fails.
Broadcast(a) ==
    /\ row[a] # "none"
    /\ Channel!Push(a)
    /\ UNCHANGED <<row, page, fetch, list, ack, clear, ghosts>>

\* delete_all_logs commits.
ClearLogs ==
    /\ clear = "idle"
    /\ row' = [a \in Alerts |-> IF row[a] = "none" THEN "none" ELSE "deleted"]
    /\ clear' = "deleted"
    /\ UNCHANGED <<channel, page, fetch, list, ack, ghosts>>

\* Its answer arrives: the event logsCleared empties the panel of the same window.
LogsCleared ==
    /\ clear = "deleted"
    /\ clear' = "idle"
    /\ LET shown == {v \in LogViews : page[v] = "open"} IN
        /\ wiped' = [v \in Views |-> IF v \in shown THEN wiped[v] \cup (Elems(list[v]) \cap In("open"))
                                                    ELSE wiped[v]]
        /\ list' = [v \in Views |-> IF v \in shown THEN <<>> ELSE list[v]]
    /\ UNCHANGED <<channel, row, page, fetch, ack, early>>

\* Or it is lost, or the log page has been left.
ClearFails ==
    /\ clear = "deleted"
    /\ clear' = "idle"
    /\ UNCHANGED <<channel, row, page, fetch, list, ack, ghosts>>

-------------------------------------------------------------------------------
(* The panel's fetch *)

Mount(v) ==
    /\ page[v] = "new"
    /\ page' = [page EXCEPT ![v] = "open"]
    /\ fetch' = [fetch EXCEPT ![v].at = "asked"]
    /\ UNCHANGED <<channel, row, list, ack, clear, ghosts>>

\* The cleanup closes the socket and the view's state is gone; the acknowledgements that
\* are under way still reach the table.
Unmount(v) ==
    /\ page[v] = "open"
    /\ page' = [page EXCEPT ![v] = "closed"]
    /\ fetch' = [fetch EXCEPT ![v] = NoFetch]
    /\ list' = [list EXCEPT ![v] = <<>>]
    /\ early' = [early EXCEPT ![v] = {}]
    /\ wiped' = [wiped EXCEPT ![v] = {}]
    /\ \/ Channel!Leave(v)
       \/ conn[v] = "off" /\ UNCHANGED channel
    /\ UNCHANGED <<row, ack, clear>>

\* get_unacknowledged_alerts: open alerts by created_at, newest first, those of one second
\* in any order, and no more than the limit.
Answers ==
    {q \in UNION {[1..n -> In("open")] : n \in 0..FetchLimit} :
        /\ Distinct(q)
        /\ \A j, k \in 1..Len(q) : j < k => CreatedAt[q[j]] >= CreatedAt[q[k]]
        /\ Len(q) = FetchLimit \/ Elems(q) = In("open")
        /\ \A a \in In("open") \ Elems(q), b \in Elems(q) : CreatedAt[a] <= CreatedAt[b]}

\* The query runs.
FetchRead(v) ==
    /\ page[v] = "open"
    /\ fetch[v].at = "asked"
    /\ \E q \in Answers : fetch' = [fetch EXCEPT ![v] = [at |-> "read", rows |-> q]]
    /\ UNCHANGED <<channel, row, page, list, ack, clear, ghosts>>

\* The answer replaces the list, whatever the channel has put there.
FetchAnswered(v) ==
    /\ page[v] = "open"
    /\ fetch[v].at = "read"
    /\ fetch' = [fetch EXCEPT ![v].at = "done"]
    /\ list' = [list EXCEPT ![v] = fetch[v].rows]
    /\ UNCHANGED <<channel, row, page, ack, clear, ghosts>>

\* The error is shown and the list stays.
FetchFails(v) ==
    /\ page[v] = "open"
    /\ fetch[v].at \in {"asked", "read"}
    /\ fetch' = [fetch EXCEPT ![v].at = "failed"]
    /\ UNCHANGED <<channel, row, page, list, ack, clear, ghosts>>

-------------------------------------------------------------------------------
(* The panel's connection *)

\* Once waitForApi resolves.
Connect(v) ==
    /\ page[v] = "open"
    /\ Channel!Join(v)
    /\ UNCHANGED <<row, page, fetch, list, ack, clear, ghosts>>

\* The server refuses the connection, or it ends: the panel shows Offline, and nothing
\* connects it again.
Disconnect(v) ==
    /\ page[v] = "open"
    /\ Channel!Leave(v)
    /\ UNCHANGED <<row, page, fetch, list, ack, clear, ghosts>>

\* Mutant: the alert is prepended without looking for it.
PrependedAlways(a, shown) ==
    LET longer == <<a>> \o shown
    IN  IF Len(longer) <= ShowLimit THEN longer ELSE SubSeq(longer, 1, ShowLimit)

\* Unless it is listed already, the alert comes first and the oldest beyond the limit goes.
Prepended(a, shown) ==
    LET longer == <<a>> \o shown
    IN  IF a \in Elems(shown) THEN shown
        ELSE IF Len(longer) <= ShowLimit THEN longer ELSE SubSeq(longer, 1, ShowLimit)

\* onmessage, and its update of the list.
OnMessage(v, a) ==
    /\ page[v] = "open"
    /\ Channel!Hand(a, v)
    /\ list' = [list EXCEPT ![v] = Prepended(a, @)]
    /\ early' = IF fetch[v].at \in {"asked", "read"}
                THEN [early EXCEPT ![v] = @ \cup {a}] ELSE early
    /\ UNCHANGED <<row, page, fetch, ack, clear, wiped>>

-------------------------------------------------------------------------------
(* Acknowledgements: one at a time of an alert by a view, a second changes nothing *)

Click(v, a) ==
    /\ page[v] = "open"
    /\ a \in Elems(list[v])
    /\ ack[v][a] = "no"
    /\ Cardinality({b \in Alerts : ack[v][b] # "no"}) < MaxAsked
    /\ ack' = [ack EXCEPT ![v][a] = "asked"]
    /\ UNCHANGED <<channel, row, page, fetch, list, clear, ghosts>>

\* acknowledge_alert changes the row, and cursor.rowcount is 1.
Acknowledge(v, a) ==
    /\ ack[v][a] = "asked"
    /\ row[a] = "open"
    /\ row' = [row EXCEPT ![a] = "acked"]
    /\ ack' = [ack EXCEPT ![v][a] = "changed"]
    /\ UNCHANGED <<channel, page, fetch, list, clear, ghosts>>

\* Another client of the API acknowledges; nobody tells the panels.
AckElsewhere(a) ==
    /\ row[a] = "open"
    /\ row' = [row EXCEPT ![a] = "acked"]
    /\ UNCHANGED <<channel, page, fetch, list, ack, clear, ghosts>>

\* The row is gone, or another has acknowledged it and the update changes nothing:
\* 404, or the request or its answer is lost. The panel keeps the alert.
AckFails(v, a) ==
    /\ \/ ack[v][a] = "asked" /\ row[a] \in {"acked", "deleted"}
       \/ ack[v][a] \in {"asked", "changed"}
    /\ ack' = [ack EXCEPT ![v][a] = "no"]
    /\ UNCHANGED <<channel, row, page, fetch, list, clear, ghosts>>

\* The filter: an id is listed once (ShownOnce), so the first is all.
Without(shown, a) == RemoveFirst(shown, a)

\* Mutant: the alert goes when it is clicked, before the answer.
AckAtOnce(v, a) ==
    /\ page[v] = "open"
    /\ ack[v][a] = "asked"
    /\ list' = [list EXCEPT ![v] = Without(@, a)]
    /\ UNCHANGED <<channel, row, page, fetch, ack, clear, ghosts>>

\* handleAcknowledge after its await.
AckAnswered(v, a) ==
    /\ page[v] = "open"
    /\ ack[v][a] = "changed"
    /\ ack' = [ack EXCEPT ![v][a] = "no"]
    /\ list' = [list EXCEPT ![v] = Without(@, a)]
    /\ UNCHANGED <<channel, row, page, fetch, clear, ghosts>>

-------------------------------------------------------------------------------

Panel(v) ==
    \/ Mount(v) \/ Unmount(v) \/ FetchRead(v) \/ FetchAnswered(v) \/ FetchFails(v)
    \/ Connect(v) \/ Disconnect(v)
    \/ \E a \in Alerts :
        OnMessage(v, a) \/ Click(v, a) \/ Acknowledge(v, a) \/ AckFails(v, a) \/ AckAnswered(v, a)

Next ==
    \/ \E v \in Views : Panel(v)
    \/ \E a \in Alerts : Insert(a) \/ Broadcast(a) \/ AckElsewhere(a)
    \/ ClearLogs \/ LogsCleared \/ ClearFails

Spec == Init /\ [][Next]_vars

-------------------------------------------------------------------------------
(* Properties *)

\* Where the list comes from: the answer of the fetch, and the channel.
Fetched(v) == IF fetch[v].at = "done" THEN Elems(fetch[v].rows) ELSE {}
Known(v) == Fetched(v) \cup got[v]

\* No alert is listed twice, though the fetch and the channel may both bring it, in either
\* order and more than a moment apart (the list's keys are the ids).
ShownOnce == \A v \in Views : Distinct(list[v])

\* An open alert that a view has fetched or was handed is on its list: no acknowledgement,
\* the view's own or another's, takes an open alert away. What may hide one is a message
\* that came before the answer of the fetch, which replaces the list; the event logsCleared,
\* if the alert was inserted after the rows were deleted; and the limit.
Replaced(v) == IF fetch[v].at = "done" THEN early[v] \ Fetched(v) ELSE {}
NothingMissed ==
    \A v \in Views : page[v] = "open" /\ fetch[v].at \in {"done", "failed"} =>
        \/ Cardinality(Known(v)) > ShowLimit
        \/ In("open") \cap Known(v) \subseteq Elems(list[v]) \cup wiped[v] \cup Replaced(v)

===============================================================================
