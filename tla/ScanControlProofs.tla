-------------------------- MODULE ScanControlProofs ---------------------------
(***************************************************************************)
(* What the scan endpoints and the feeders promise for any cameras, videos *)
(* and number of starts, proved from one inductive invariant.              *)
(***************************************************************************)
EXTENDS ScanControl, TLAPS

-------------------------------------------------------------------------------
(* The inductive invariant *)

Listed(t) == \E i \in DOMAIN workers : workers[i] = t

\* The managers are those in the list, and stops are asked of managers only.
ListInv ==
    /\ \A t \in Targets : HasManager(t) <=> Listed(t)
    /\ \A i \in DOMAIN stopping.feeders : HasManager(stopping.feeders[i])

\* A manager's process was started, and for this manager.
PidInv ==
    /\ \A p \in Pids : p > started => procs[p] = NoProc
    /\ \A t \in Targets : /\ managers[t].pid <= started
                          /\ Alive(t) => procs[managers[t].pid].target = t

\* A URL is known for whatever runs or may run.
UrlInv ==
    /\ \A t \in Targets : HasManager(t) => managers[t].url \in Urls
    /\ \A p \in Pids : Live(p) => procs[p].url \in Urls

\* What is alive during "stop all" has its stop still before it.
StopInv ==
    stopping.ocr => \A p \in Pids : Live(p) =>
        \E i \in DOMAIN stopping.feeders : stopping.feeders[i] = procs[p].target

\* Who writes a status writes that of its target, and fails only after an exception.
WriterInv ==
    /\ \A c \in CameraIds : rows[c].by # 0 =>
          /\ procs[rows[c].by].at # "unborn"
          /\ procs[rows[c].by].at # "killed" => procs[rows[c].by].target = c
    /\ \A p \in Pids : procs[p].at = "failing" => procs[p].raised
    /\ \A p \in Pids : Live(p) => procs[p].target \in Targets

\* A feeder that reads, or is about to after a change of its row, has its row unless it was
\* touched; ids that were not given out have no row.
RowInv ==
    /\ \A c \in CameraIds : c >= nextId => rows[c] = NoRow
    /\ \A p \in Pids :
          /\ procs[p].at \in {"lookup", "update", "insert"} => procs[p].self = procs[p].target
          /\ procs[p].at = "update" => procs[p].target \in CameraIds
          /\ procs[p].at \in {"update", "run"} /\ ~procs[p].touched =>
                procs[p].self \in CameraIds /\ rows[procs[p].self] # NoRow

IInv == /\ TypeOK /\ ListInv /\ PidInv /\ UrlInv /\ EveryFeederIsManaged /\ StopInv
        /\ WriterInv /\ StatusTellsExit /\ RowInv /\ OwnRow

-------------------------------------------------------------------------------
(* Types *)

Row == [url : Urls, status : {"active", "inactive", "error"}, by : Pids \cup {0}]
Manager == [url : Urls \cup {"none"}, pid : Pids \cup {0}, stop : BOOLEAN]
Proc == [at : Places, target : Targets \cup {0}, url : Urls \cup {"none"},
         self : Targets \cup {0}, raised : BOOLEAN, lost : BOOLEAN, touched : BOOLEAN]

\* Facts of the type invariant, without its records spelled out.
LEMMA Types ==
    ASSUME TypeOK
    PROVE  /\ DOMAIN rows = CameraIds
           /\ \A c \in CameraIds : rows[c] = NoRow \/ rows[c] \in Row
           /\ DOMAIN managers = Targets
           /\ \A t \in Targets : managers[t] \in Manager
           /\ procs \in [Pids -> Proc]
  BY DEF TypeOK, Row, Manager, Proc

\* A row that is there is not the missing one, and no process wrote the missing one.
LEMMA RowIsThere ==
    /\ \A row \in Row : row # NoRow /\ row.status # "none" /\ row.url \in Urls
    /\ NoRow.by = 0
  BY DEF Row, NoRow

LEMMA ManagerIsThere ==
    /\ \A m : m.pid # 0 => m # NoManager
    /\ \A m : m.stop => m # NoManager
    /\ NoManager \in Manager
  BY DEF NoManager, Manager

LEMMA NoProcIsGone ==
    /\ NoProc \in Proc
    /\ NoProc.at \in Gone
    /\ NoProc.touched = FALSE
  BY DEF NoProc, Proc, Places, Gone

LEMMA Untouched ==
    ASSUME NEW r \in Proc
    PROVE  [r EXCEPT !.touched = r.touched \/ FALSE] = r
  BY DEF Proc

LEMMA IdTypes ==
    /\ 1 \in CameraIds
    /\ CameraIds \subseteq Targets
    /\ \A v \in Videos : -v \in Targets /\ Path[v] \in Urls
    /\ Streams \subseteq Urls
    /\ 0 \notin Pids
    /\ Pids \subseteq Nat /\ CameraIds \subseteq Nat \ {0}
    /\ MaxStarts \in Nat /\ MaxId \in Nat
  BY ScanAssumption DEF CameraIds, Targets, Pids, Urls

-------------------------------------------------------------------------------
(* Initial states *)

LEMMA InitIInv == Init => IInv
  <1> SUFFICES ASSUME Init
               PROVE  IInv
    OBVIOUS
  <1>1. PICK url \in Streams :
           rows = [c \in CameraIds |-> IF c = 1 THEN [url |-> url, status |-> "active", by |-> 0]
                                                ELSE NoRow]
    BY DEF Init
  <1>2. \A c \in CameraIds : /\ rows[c] = NoRow \/ rows[c] \in Row
                             /\ rows[c].by = 0
                             /\ c >= 2 => rows[c] = NoRow
    BY <1>1, IdTypes DEF Row, NoRow
  <1>3. \A p \in Pids : procs[p] = NoProc /\ ~Live(p)
    BY NoProcIsGone DEF Init, Live
  <1>4. \A t \in Targets : managers[t] = NoManager /\ managers[t].pid = 0
    BY DEF Init, NoManager
  <1>5. TypeOK
    <2>1. DOMAIN rows = CameraIds /\ DOMAIN managers = Targets
      BY <1>1 DEF Init
    <2>2. nextId \in 1..(MaxId + 1) /\ started \in 0..MaxStarts /\ admin \in 0..MaxAdmin
      BY ScanAssumption DEF Init
    <2>3. procs \in [Pids -> Proc]
      BY NoProcIsGone DEF Init
    <2>4. workers \in Seq(Targets) /\ DOMAIN workers = {}
          /\ stopping \in [feeders : Seq(Targets), ocr : BOOLEAN]
      BY DEF Init
    <2>5. deleting \subseteq videos /\ videos \subseteq Videos /\ ocr \in BOOLEAN
      BY DEF Init
    <2>6. \A t \in Targets : managers[t] \in Manager
      BY <1>4, ManagerIsThere
    <2> QED
      BY <1>2, <2>1, <2>2, <2>3, <2>4, <2>5, <2>6 DEF TypeOK, Row, Manager, Proc
  <1>6. ListInv
    BY <1>4 DEF Init, ListInv, HasManager, Listed
  <1>7. PidInv
    BY <1>3, <1>4 DEF Init, PidInv, Alive
  <1>8. UrlInv /\ EveryFeederIsManaged /\ StopInv
    BY <1>3, <1>4 DEF UrlInv, HasManager, EveryFeederIsManaged, StopInv
  <1>9. WriterInv /\ StatusTellsExit
    BY <1>2, <1>3 DEF WriterInv, StatusTellsExit, NoProc
  <1>10. RowInv /\ OwnRow
    BY <1>2, <1>3 DEF Init, RowInv, OwnRow, NoProc
  <1> QED
    BY <1>5, <1>6, <1>7, <1>8, <1>9, <1>10 DEF IInv

-------------------------------------------------------------------------------
(* What leaves the managers alone *)

\* The API is not involved, and no process is born or has its target or URL changed.
ManagersKept ==
    /\ UNCHANGED <<workers, managers, stopping, started>>
    /\ \A q \in Pids : /\ procs'[q].target = procs[q].target
                       /\ procs'[q].url = procs[q].url
                       /\ Live(q)' => Live(q)
                       /\ q > started => procs'[q] = procs[q]

LEMMA ManagersKeptStep ==
    ASSUME IInv, ManagersKept
    PROVE  ListInv' /\ PidInv' /\ UrlInv' /\ EveryFeederIsManaged' /\ StopInv'
  <1>1. ListInv'
    BY DEF IInv, ManagersKept, ListInv, HasManager, Listed
  <1>2. \A t \in Targets : managers[t].pid \in Pids \cup {0}
    BY Types DEF IInv, Manager
  <1>3. PidInv'
    <2>1. \A t \in Targets : Alive(t)' => Alive(t) /\ managers[t].pid \in Pids
      BY <1>2 DEF ManagersKept, Alive
    <2>2. \A t \in Targets : Alive(t)' => procs'[managers'[t].pid].target = t
      BY <2>1 DEF IInv, ManagersKept, PidInv
    <2> QED
      BY <2>2 DEF IInv, ManagersKept, PidInv
  <1>4. EveryFeederIsManaged'
    BY DEF IInv, ManagersKept, EveryFeederIsManaged
  <1>5. StopInv'
    BY DEF IInv, ManagersKept, StopInv
  <1>6. UrlInv'
    BY DEF IInv, ManagersKept, UrlInv, HasManager
  <1> QED
    BY <1>1, <1>3, <1>4, <1>5, <1>6

\* What leaves the rows and the processes alone, and starts nothing.
LEMMA RowsKeptStep ==
    ASSUME IInv, UNCHANGED <<table, procs>>
    PROVE  WriterInv' /\ StatusTellsExit' /\ RowInv' /\ OwnRow'
  BY DEF IInv, table, WriterInv, StatusTellsExit, RowInv, OwnRow, Live


-------------------------------------------------------------------------------
(* The scan endpoints *)

\* Starting a feeder: the manager was not alive, so its target has no live process.
LEMMA ToggleOnStep ==
    ASSUME IInv, NEW t \in Targets, NEW url \in Urls, ToggleOn(t, url)
    PROVE  IInv'
  <1> USE Types DEF IInv
  <1>1. CASE Alive(t)
    <2>1. HasManager(t)
      BY <1>1, ManagerIsThere DEF Alive, HasManager
    <2>2. UNCHANGED <<table, procs, managers, started, workers, stopping, videos, deleting, admin>>
          /\ ocr' = TRUE
      BY <1>1, <2>1 DEF ToggleOn, Enlisted
    <2>3. TypeOK'
      BY <2>2 DEF TypeOK, table
    <2>4. ManagersKept
      BY <2>2 DEF ManagersKept, Live
    <2> QED
      BY <2>2, <2>3, <2>4, ManagersKeptStep, RowsKeptStep
  <1>2. CASE ~Alive(t)
    <2> DEFINE n == started + 1
               new == [NoProc EXCEPT !.at = "lookup", !.target = t, !.url = url, !.self = t]
    <2>1. /\ started < MaxStarts /\ started' = n
          /\ managers' = [managers EXCEPT ![t] = [url |-> url, pid |-> n, stop |-> FALSE]]
          /\ procs' = [procs EXCEPT ![n] = new]
          /\ workers' = Enlisted(t)
          /\ ocr' = TRUE
          /\ UNCHANGED <<table, videos, deleting, stopping, admin>>
          /\ stopping.feeders = <<>> /\ ~stopping.ocr
      BY <1>2 DEF ToggleOn, LoopFree
    <2>2. started \in Nat /\ n \in Pids /\ n \in 1..MaxStarts
      BY <2>1, IdTypes DEF TypeOK, Pids
    <2>3. /\ new \in Proc /\ new.at = "lookup" /\ new.target = t /\ new.self = t /\ new.url = url
          /\ new.touched = FALSE /\ new.raised = FALSE
      BY DEF Proc, NoProc, Places
    <2>4. procs[n] = NoProc /\ ~Live(n)
      BY <2>2, NoProcIsGone DEF PidInv, Live
    <2> HIDE DEF new
    <2>5. /\ procs'[n] = new
          /\ \A p \in Pids \ {n} : procs'[p] = procs[p]
          /\ procs' \in [Pids -> Proc]
      BY <2>1, <2>2, <2>3
    <2>6. /\ managers'[t] = [url |-> url, pid |-> n, stop |-> FALSE]
          /\ managers'[t] \in Manager /\ managers'[t].pid = n /\ DOMAIN managers' = Targets
          /\ \A u \in Targets \ {t} : managers'[u] = managers[u]
      BY <2>1, <2>2 DEF Manager
    <2> HIDE DEF n
    <2>7. HasManager(t)' /\ \A u \in Targets \ {t} : HasManager(u)' <=> HasManager(u)
      BY <2>2, <2>6, ManagerIsThere, IdTypes DEF HasManager
    <2>8. /\ workers' \in Seq(Targets)
          /\ \A i, j \in DOMAIN workers' : workers'[i] = workers'[j] => i = j
          /\ Listed(t)' /\ \A u \in Targets \ {t} : Listed(u)' <=> Listed(u)
      <3>1. CASE HasManager(t)
        BY <2>1, <3>1 DEF Enlisted, ListInv, Listed, TypeOK
      <3>2. CASE ~HasManager(t)
        <4>1. workers' = Append(workers, t) /\ ~Listed(t) /\ workers \in Seq(Targets)
          BY <2>1, <3>2 DEF Enlisted, ListInv, TypeOK
        <4>2. /\ Len(workers) \in Nat
              /\ Len(workers') = Len(workers) + 1 /\ workers' \in Seq(Targets)
              /\ DOMAIN workers = 1..Len(workers) /\ DOMAIN workers' = 1..(Len(workers) + 1)
              /\ \A i \in 1..Len(workers) : workers'[i] = workers[i]
              /\ workers'[Len(workers) + 1] = t
          BY <4>1
        <4>3. \A i \in 1..Len(workers) : workers[i] # t
          BY <4>1, <4>2 DEF Listed
        <4>4. \A i, j \in 1..Len(workers) : workers[i] = workers[j] => i = j
          BY <4>2 DEF TypeOK
        <4>5. \A i, j \in 1..(Len(workers) + 1) : workers'[i] = workers'[j] => i = j
          <5> TAKE i, j \in 1..(Len(workers) + 1)
          <5>1. (i \in 1..Len(workers) \/ i = Len(workers) + 1)
                /\ (j \in 1..Len(workers) \/ j = Len(workers) + 1)
            BY <4>2
          <5> QED
            BY <5>1, <4>2, <4>3, <4>4
        <4>6. Listed(t)'
          BY <4>2 DEF Listed
        <4>7. ASSUME NEW u \in Targets \ {t}
              PROVE  Listed(u)' <=> Listed(u)
          <5>1. Listed(u) => Listed(u)'
            BY <4>2 DEF Listed
          <5>2. ASSUME NEW i \in DOMAIN workers', workers'[i] = u
                PROVE  Listed(u)
            <6>1. i \in 1..Len(workers)
              BY <4>2, <5>2
            <6> QED
              BY <4>2, <5>2, <6>1 DEF Listed
          <5> QED
            BY <5>1, <5>2 DEF Listed
        <4> QED
          BY <4>2, <4>5, <4>6, <4>7
      <3> QED
        BY <3>1, <3>2
    <2>9. TypeOK'
      <3>1. \A u \in Targets : managers'[u] \in Manager
        BY <2>6
      <3>2. started' \in 0..MaxStarts
        BY <2>1, <2>2
      <3> QED
        BY <2>1, <2>5, <2>6, <2>8, <3>1, <3>2 DEF TypeOK, table, Manager, Proc
    <2>10. ListInv'
      BY <2>1, <2>7, <2>8 DEF ListInv
    <2>11. PidInv'
      <3>1. \A p \in Pids : p > started' => procs'[p] = NoProc
        BY <2>1, <2>2, <2>5, IdTypes DEF PidInv, n
      <3>2. ASSUME NEW u \in Targets
            PROVE  managers'[u].pid <= started' /\ (Alive(u)' => procs'[managers'[u].pid].target = u)
        <4>1. CASE u = t
          BY <4>1, <2>1, <2>2, <2>3, <2>5, <2>6 DEF n
        <4>2. CASE u # t
          <5>1. managers'[u] = managers[u] /\ managers[u] \in Manager
            BY <4>2, <2>6
          <5>2. managers[u].pid <= started /\ managers[u].pid \in Pids \cup {0}
            BY <5>1 DEF PidInv, Manager
          <5>3. managers[u].pid # n /\ managers[u].pid <= started'
            <6>1. started' = started + 1 /\ n = started + 1 /\ started \in Nat
              BY <2>1, <2>2 DEF n
            <6>2. managers[u].pid \in Nat
              BY <5>2, ScanAssumption DEF Pids
            <6> QED
              BY <5>2, <6>1, <6>2
          <5>4. Alive(u)' => /\ Alive(u)
                             /\ procs'[managers[u].pid] = procs[managers[u].pid]
            BY <5>1, <5>2, <5>3, <2>5 DEF Alive, Live
          <5> QED
            BY <5>1, <5>3, <5>4 DEF PidInv
        <4> QED
          BY <4>1, <4>2
      <3> QED
        BY <3>1, <3>2 DEF PidInv
    <2>12. EveryFeederIsManaged'
      <3> SUFFICES ASSUME NEW p \in Pids, procs'[p].at \notin Gone
                   PROVE  /\ managers'[procs'[p].target].pid = p
                          /\ \E i \in DOMAIN workers' : workers'[i] = procs'[p].target
        BY DEF EveryFeederIsManaged, Live
      <3>1. CASE p = n
        BY <3>1, <2>3, <2>5, <2>6, <2>8 DEF Listed
      <3>2. CASE p # n
        <4>1. procs'[p] = procs[p] /\ Live(p)
          BY <3>2, <2>5 DEF Live
        <4>2. PICK u \in Targets : u = procs[p].target
          BY <4>1 DEF WriterInv
        <4>3. managers[u].pid = p /\ Listed(u)
          BY <4>1, <4>2 DEF EveryFeederIsManaged, Listed
        <4>4. u # t
          BY <4>1, <4>3, <1>2, IdTypes DEF Alive
        <4>5. Listed(u)' /\ managers'[u].pid = p
          BY <4>3, <4>4, <2>6, <2>8
        <4> QED
          BY <4>1, <4>2, <4>5 DEF Listed
      <3> QED
        BY <3>1, <3>2
    <2>13. StopInv' /\ UrlInv'
      <3>1. \A u \in Targets : HasManager(u)' => managers'[u].url \in Urls
        BY <2>6, <2>7 DEF UrlInv
      <3>2. \A p \in Pids : Live(p)' => procs'[p].url \in Urls
        BY <2>3, <2>5 DEF UrlInv, Live
      <3> QED
        BY <2>1, <3>1, <3>2 DEF StopInv, UrlInv
    <2>14. rows' = rows /\ nextId' = nextId
      BY <2>1 DEF table
    <2>15. \A c \in CameraIds : rows[c].by # n
      BY <2>2, <2>4, IdTypes DEF WriterInv, NoProc
    <2>16. \A c \in CameraIds : rows[c].by # 0 => rows[c].by \in Pids \ {n}
      <3>1. \A c \in CameraIds : rows[c].by \in Pids \cup {0}
        BY RowIsThere DEF Row
      <3> QED
        BY <3>1, <2>15
    <2>17. WriterInv'
      BY <2>3, <2>5, <2>14, <2>16 DEF WriterInv, Live
    <2>18. StatusTellsExit'
      BY <2>5, <2>14, <2>16 DEF StatusTellsExit
    <2>19. RowInv'
      BY <2>3, <2>5, <2>14 DEF RowInv
    <2>20. OwnRow'
      BY <2>3, <2>5, <2>14 DEF OwnRow
    <2> QED
      BY <2>9, <2>10, <2>11, <2>12, <2>13, <2>17, <2>18, <2>19, <2>20
  <1> QED
    BY <1>1, <1>2

\* The other endpoints change what is being stopped, and the videos. "Stop all" asks it of
\* every manager, and every live feeder has one.
LEMMA ScanOffStep ==
    ASSUME IInv, ScanOff
    PROVE  IInv'
  <1>1. /\ stopping' = [feeders |-> workers, ocr |-> TRUE]
        /\ UNCHANGED <<table, videos, deleting, workers, ocr, managers, procs, started, admin>>
    BY DEF ScanOff
  <1>2. TypeOK'
    BY <1>1 DEF IInv, TypeOK, table
  <1>3. \A i \in DOMAIN workers : workers[i] \in Targets /\ Listed(workers[i])
    BY DEF IInv, TypeOK, Listed
  <1>4. ListInv'
    BY <1>1, <1>3 DEF IInv, ListInv, HasManager, Listed
  <1>5. PidInv' /\ UrlInv' /\ EveryFeederIsManaged'
    BY <1>1 DEF IInv, PidInv, UrlInv, HasManager, EveryFeederIsManaged, Alive, Live
  <1>6. StopInv'
    BY <1>1 DEF IInv, StopInv, EveryFeederIsManaged, Live
  <1> QED
    BY <1>1, <1>2, <1>4, <1>5, <1>6, RowsKeptStep DEF IInv

LEMMA OneStopStep ==
    ASSUME IInv, NEW t \in Targets, HasManager(t), ~stopping.ocr,
           stopping' = [feeders |-> <<t>>, ocr |-> FALSE],
           UNCHANGED <<table, videos, workers, ocr, managers, procs, started, admin>>,
           deleting' \subseteq videos
    PROVE  IInv'
  <1>1. TypeOK'
    BY DEF IInv, TypeOK, table
  <1>2. ListInv'
    BY DEF IInv, ListInv, HasManager, Listed
  <1>3. PidInv' /\ UrlInv' /\ EveryFeederIsManaged' /\ StopInv'
    BY DEF IInv, PidInv, UrlInv, HasManager, EveryFeederIsManaged, StopInv, Alive, Live
  <1> QED
    BY <1>1, <1>2, <1>3, RowsKeptStep DEF IInv

LEMMA OtherApiStep ==
    ASSUME IInv,
           \/ ScanOn
           \/ \E v \in Videos : DeleteVideo(v) \/ VideoDeleted(v)
           \/ \E t \in Targets : ToggleOff(t)
    PROVE  IInv'
  <1>1. ASSUME UNCHANGED <<table, workers, managers, procs, started, admin, stopping>>,
               ocr' \in BOOLEAN, deleting' \subseteq videos', videos' \subseteq videos
        PROVE  IInv'
    <2>1. TypeOK'
      BY <1>1 DEF IInv, TypeOK, table
    <2>2. ManagersKept
      BY <1>1 DEF ManagersKept, Live
    <2> QED
      BY <1>1, <2>1, <2>2, ManagersKeptStep, RowsKeptStep DEF IInv
  <1>2. \A t \in Targets : Alive(t) => HasManager(t)
    BY ManagerIsThere DEF Alive, HasManager
  <1>3. CASE ScanOn
    BY <1>1, <1>3 DEF ScanOn, IInv, TypeOK
  <1>4. ASSUME NEW v \in Videos, DeleteVideo(v)
        PROVE  IInv'
    <2>1. /\ deleting' = deleting \cup {v} /\ v \in videos /\ ~stopping.ocr
          /\ stopping.feeders = <<>> /\ deleting' \subseteq videos
          /\ UNCHANGED <<table, videos, workers, ocr, managers, procs, started, admin>>
      BY <1>4 DEF DeleteVideo, LoopFree, IInv, TypeOK
    <2>2. CASE Alive(-v)
      <3>1. stopping' = [feeders |-> <<-v>>, ocr |-> FALSE]
        BY <1>4, <2>1, <2>2 DEF DeleteVideo, IInv, TypeOK
      <3> QED
        BY <1>2, <2>1, <2>2, <3>1, IdTypes, OneStopStep
    <2>3. CASE ~Alive(-v)
      BY <1>1, <1>4, <2>1, <2>3 DEF DeleteVideo, IInv, TypeOK
    <2> QED
      BY <2>2, <2>3
  <1>5. ASSUME NEW v \in Videos, VideoDeleted(v)
        PROVE  IInv'
    BY <1>1, <1>5 DEF VideoDeleted, IInv, TypeOK
  <1>6. ASSUME NEW t \in Targets, ToggleOff(t)
        PROVE  IInv'
    <2>1. deleting' \subseteq videos
      BY <1>6 DEF ToggleOff, IInv, TypeOK
    <2> QED
      BY <1>2, <1>6, <2>1, OneStopStep DEF ToggleOff, LoopFree
  <1> QED
    BY <1>3, <1>4, <1>5, <1>6

LEMMA ApiStep ==
    ASSUME IInv, Api
    PROVE  IInv'
  <1>1. ASSUME NEW c \in CameraIds, ToggleCamera(c)
        PROVE  IInv'
    <2>1. rows[c] \in Row
      BY <1>1, Types DEF IInv, ToggleCamera
    <2> QED
      BY <1>1, <2>1, RowIsThere, IdTypes, ToggleOnStep DEF ToggleCamera
  <1>2. ASSUME NEW v \in Videos, ToggleVideo(v)
        PROVE  IInv'
    BY <1>2, IdTypes, ToggleOnStep DEF ToggleVideo
  <1>3. ASSUME NEW t \in Targets, ToggleKnown(t)
        PROVE  IInv'
    <2>1. managers[t].url \in Urls
      BY <1>3 DEF IInv, UrlInv, ToggleKnown
    <2> QED
      BY <1>3, <2>1, ToggleOnStep DEF ToggleKnown
  <1> QED
    BY <1>1, <1>2, <1>3, ScanOffStep, OtherApiStep DEF Api

-------------------------------------------------------------------------------
(* A manager's stop *)

\* What the first stop asked for is, and how the list without it reads.
LEMMA FirstStop ==
    ASSUME IInv, stopping.feeders # <<>>
    PROVE  /\ Stopping \in Targets /\ Stopping = stopping.feeders[1]
           /\ HasManager(Stopping)
           /\ Tail(stopping.feeders) \in Seq(Targets)
           /\ \A i \in DOMAIN Tail(stopping.feeders) :
                 i + 1 \in DOMAIN stopping.feeders
                 /\ Tail(stopping.feeders)[i] = stopping.feeders[i + 1]
           /\ \A i \in DOMAIN stopping.feeders : i # 1 =>
                 i - 1 \in DOMAIN Tail(stopping.feeders)
                 /\ Tail(stopping.feeders)[i - 1] = stopping.feeders[i]
  <1> DEFINE s == stopping.feeders
  <1>1. s \in Seq(Targets) /\ s # <<>>
    BY DEF IInv, TypeOK
  <1> HIDE DEF s
  <1>2. /\ Len(s) \in Nat \ {0} /\ DOMAIN s = 1..Len(s) /\ Head(s) = s[1] /\ s[1] \in Targets
        /\ Tail(s) \in Seq(Targets) /\ Len(Tail(s)) = Len(s) - 1
        /\ DOMAIN Tail(s) = 1..(Len(s) - 1)
        /\ \A i \in 1..(Len(s) - 1) : Tail(s)[i] = s[i + 1]
    BY <1>1
  <1>3. \A i \in DOMAIN s : HasManager(s[i])
    BY DEF IInv, ListInv, s
  <1>4. Stopping = Head(s)
    BY DEF Stopping, s
  <1>5. \A i \in DOMAIN Tail(s) : i + 1 \in DOMAIN s /\ Tail(s)[i] = s[i + 1]
    BY <1>2
  <1>6. ASSUME NEW i \in DOMAIN s, i # 1
        PROVE  i - 1 \in DOMAIN Tail(s) /\ Tail(s)[i - 1] = s[i]
    BY <1>2, <1>6
  <1> QED
    BY <1>2, <1>3, <1>4, <1>5, <1>6 DEF s

LEMMA SignalStopStep ==
    ASSUME IInv, SignalStop
    PROVE  IInv'
  <1> DEFINE s == Stopping
  <1>1. s \in Targets /\ HasManager(s)
    BY FirstStop DEF SignalStop
  <1>2. /\ managers' = [managers EXCEPT ![s].stop = TRUE]
        /\ UNCHANGED <<table, api, procs, started, admin>>
    BY DEF SignalStop
  <1> HIDE DEF s
  <1>3. /\ DOMAIN managers' = Targets
        /\ managers'[s] \in Manager /\ managers'[s].stop /\ managers'[s].pid = managers[s].pid
        /\ \A t \in Targets \ {s} : managers'[t] = managers[t]
    BY <1>1, <1>2, Types DEF IInv, Manager
  <1>4. \A t \in Targets : managers'[t] \in Manager /\ managers'[t].pid = managers[t].pid
    BY <1>3, Types DEF IInv
  <1>5. \A t \in Targets : HasManager(t)' <=> HasManager(t)
    BY <1>1, <1>3, ManagerIsThere DEF HasManager
  <1>6. TypeOK'
    BY <1>2, <1>3, <1>4 DEF IInv, TypeOK, table, api, Manager
  <1>7. ListInv'
    <2>1. \A i \in DOMAIN stopping.feeders : stopping.feeders[i] \in Targets
      BY DEF IInv, TypeOK
    <2> QED
      BY <1>2, <1>5, <2>1 DEF IInv, ListInv, Listed, api
  <1>8. \A t \in Targets : Alive(t)' <=> Alive(t)
    BY <1>2, <1>4 DEF Alive, Live
  <1>9. PidInv'
    BY <1>2, <1>4, <1>8 DEF IInv, PidInv
  <1>10. EveryFeederIsManaged'
    BY <1>2, <1>4 DEF IInv, EveryFeederIsManaged, WriterInv, Live, api
  <1>11. \A t \in Targets : managers'[t].url = managers[t].url
    BY <1>1, <1>2, Types DEF IInv, Manager
  <1>12. StopInv' /\ UrlInv'
    BY <1>2, <1>5, <1>11 DEF IInv, StopInv, UrlInv, Live, api
  <1> QED
    BY <1>2, <1>6, <1>7, <1>9, <1>10, <1>12, RowsKeptStep DEF IInv

\* What both ends of a stop leave behind, when the processes alive afterwards are those that
\* were and are not the stopped manager's.
LEMMA DroppedStep ==
    ASSUME IInv, stopping.feeders # <<>>, managers[Stopping].stop, Dropped,
           UNCHANGED <<videos, deleting, workers, ocr, table, started, admin>>,
           procs' \in [Pids -> Proc],
           \A p \in Pids : p > started => procs'[p] = procs[p],
           \A p \in Pids : Live(p)' => procs'[p] = procs[p] /\ procs[p].target # Stopping
    PROVE  TypeOK' /\ ListInv' /\ PidInv' /\ UrlInv' /\ EveryFeederIsManaged' /\ StopInv'
  <1> DEFINE s == Stopping
  <1>1. s \in Targets /\ HasManager(s)
    BY FirstStop
  <1>2. /\ managers' = [managers EXCEPT ![s].pid = 0]
        /\ stopping' = [stopping EXCEPT !.feeders = Tail(@)]
    BY DEF Dropped
  <1>3. /\ stopping'.feeders = Tail(stopping.feeders) /\ stopping'.ocr = stopping.ocr
        /\ stopping' \in [feeders : Seq(Targets), ocr : BOOLEAN]
    BY <1>2, FirstStop DEF IInv, TypeOK
  <1>4. managers[s].stop
    OBVIOUS
  <1> HIDE DEF s
  <1>5. /\ DOMAIN managers' = Targets
        /\ managers'[s] \in Manager /\ managers'[s].stop /\ managers'[s].pid = 0
        /\ \A t \in Targets \ {s} : managers'[t] = managers[t]
    BY <1>1, <1>2, <1>4, Types DEF IInv, Manager
  <1>6. \A t \in Targets : managers'[t] \in Manager
    BY <1>5, Types DEF IInv
  <1>7. \A t \in Targets : HasManager(t)' <=> HasManager(t)
    BY <1>1, <1>5, ManagerIsThere DEF HasManager
  <1>8. TypeOK'
    BY <1>3, <1>5, <1>6 DEF IInv, TypeOK, table, Manager, Proc
  <1>9. ListInv'
    <2>1. \A i \in DOMAIN stopping'.feeders : HasManager(stopping'.feeders[i])
      BY <1>3, FirstStop DEF IInv, ListInv
    <2>2. \A i \in DOMAIN stopping'.feeders : stopping'.feeders[i] \in Targets
      BY <1>3
    <2>3. \A i \in DOMAIN stopping'.feeders : managers'[stopping'.feeders[i]] # NoManager
      BY <1>7, <2>1, <2>2 DEF HasManager
    <2> QED
      BY <1>7, <2>3 DEF IInv, ListInv, Listed, HasManager
  <1>10. \A t \in Targets : Alive(t)' => /\ t # s /\ Alive(t)
                                         /\ managers'[t] = managers[t]
                                         /\ procs'[managers[t].pid] = procs[managers[t].pid]
    <2>1. \A t \in Targets : managers[t].pid \in Pids \cup {0}
      BY Types DEF IInv, Manager
    <2> QED
      BY <1>5, <2>1 DEF Alive, Live
  <1>11. PidInv'
    <2>1. \A t \in Targets : Alive(t)' => procs'[managers'[t].pid].target = t
      BY <1>10 DEF IInv, PidInv
    <2>2. \A t \in Targets : managers'[t].pid <= started'
      <3>1. started \in Nat
        BY ScanAssumption DEF IInv, TypeOK
      <3> QED
        BY <1>5, <3>1 DEF IInv, PidInv
    <2> QED
      BY <2>1, <2>2 DEF IInv, PidInv
  <1>12. \A p \in Pids : Live(p)' => procs'[p] = procs[p] /\ Live(p)
                                     /\ procs[p].target \in Targets \ {s}
    BY DEF IInv, WriterInv, Live, s
  <1>13. EveryFeederIsManaged'
    BY <1>5, <1>12 DEF IInv, EveryFeederIsManaged
  <1>14. StopInv'
    <2> SUFFICES ASSUME stopping.ocr, NEW p \in Pids, Live(p)'
                 PROVE  \E i \in DOMAIN stopping'.feeders :
                           stopping'.feeders[i] = procs'[p].target
      BY <1>3 DEF StopInv
    <2>1. PICK i \in DOMAIN stopping.feeders : stopping.feeders[i] = procs[p].target
      BY <1>12 DEF IInv, StopInv
    <2>2. i # 1
      BY <1>12, <2>1, FirstStop DEF s
    <2>3. i - 1 \in DOMAIN stopping'.feeders /\ stopping'.feeders[i - 1] = stopping.feeders[i]
      BY <1>3, <2>2, FirstStop
    <2>4. procs'[p].target = procs[p].target
      BY <1>12
    <2>5. stopping'.feeders[i - 1] = procs'[p].target
      BY <2>1, <2>3, <2>4
    <2> QED
      BY <2>3, <2>5
  <1>15. UrlInv'
    <2>1. \A t \in Targets : managers'[t].url = managers[t].url
      BY <1>1, <1>2, Types DEF IInv, Manager
    <2> QED
      BY <1>7, <1>12, <2>1 DEF IInv, UrlInv
  <1> QED
    BY <1>8, <1>9, <1>11, <1>13, <1>14, <1>15

LEMMA StopJoinsStep ==
    ASSUME IInv, StopJoins
    PROVE  IInv'
  <1>1. /\ stopping.feeders # <<>> /\ managers[Stopping].stop /\ ~Alive(Stopping) /\ Dropped
        /\ UNCHANGED <<table, videos, deleting, workers, ocr, procs, started, admin>>
    BY DEF StopJoins
  <1>2. ASSUME NEW p \in Pids, Live(p)'
        PROVE  procs'[p] = procs[p] /\ procs[p].target # Stopping
    <2>1. Live(p) /\ procs'[p] = procs[p]
      BY <1>1, <1>2 DEF Live
    <2>2. managers[procs[p].target].pid = p /\ p # 0
      BY <2>1, IdTypes DEF IInv, EveryFeederIsManaged
    <2> QED
      BY <1>1, <2>1, <2>2 DEF Alive
  <1> QED
    BY <1>1, <1>2, Types, DroppedStep, RowsKeptStep DEF IInv

LEMMA StopTerminatesStep ==
    ASSUME IInv, StopTerminates
    PROVE  IInv'
  <1> DEFINE k == managers[Stopping].pid
             dead == [NoProc EXCEPT !.at = "killed"]
  <1>1. /\ stopping.feeders # <<>> /\ managers[Stopping].stop /\ Alive(Stopping) /\ Dropped
        /\ procs' = [procs EXCEPT ![k] = dead]
        /\ UNCHANGED <<table, videos, deleting, workers, ocr, started, admin>>
    BY DEF StopTerminates
  <1>2. dead \in Proc /\ dead.at = "killed" /\ dead.at \in Gone
    BY DEF Proc, NoProc, Places, Gone
  <1>3. Stopping \in Targets
    BY <1>1, FirstStop
  <1>4. k \in Pids /\ k <= started /\ Live(k) /\ procs[k].at # "exited"
    BY <1>1, <1>3, Types DEF IInv, Manager, Alive, Live, Gone, PidInv
  <1> HIDE DEF dead
  <1>5. /\ procs' \in [Pids -> Proc] /\ procs'[k] = dead
        /\ \A p \in Pids \ {k} : procs'[p] = procs[p]
    BY <1>1, <1>2, <1>4, Types DEF IInv
  <1>6. \A p \in Pids : Live(p)' => procs'[p] = procs[p] /\ procs[p].target # Stopping
    BY <1>2, <1>3, <1>5 DEF IInv, EveryFeederIsManaged, Live
  <1>7. \A p \in Pids : p > started => procs'[p] = procs[p]
    <2>1. started \in Nat /\ Pids \subseteq Nat
      BY ScanAssumption DEF IInv, TypeOK, Pids
    <2>2. k <= started
      BY <1>4
    <2> HIDE DEF k
    <2>3. \A p \in Pids : p > started => p # k
      BY <1>4, <2>1, <2>2
    <2> QED
      BY <1>5, <2>3
  <1>8. TypeOK' /\ ListInv' /\ PidInv' /\ UrlInv' /\ EveryFeederIsManaged' /\ StopInv'
    BY <1>1, <1>5, <1>6, <1>7, DroppedStep
  <1>9. rows' = rows /\ nextId' = nextId
    BY <1>1 DEF table
  <1>10. \A c \in CameraIds : rows[c].by # 0 => rows[c].by \in Pids
    BY Types, RowIsThere DEF IInv, Row
  <1>11. WriterInv'
    BY <1>2, <1>5, <1>9, <1>10 DEF IInv, WriterInv, Live
  <1>12. StatusTellsExit'
    BY <1>2, <1>5, <1>9, <1>10 DEF IInv, StatusTellsExit
  <1>13. RowInv' /\ OwnRow'
    BY <1>2, <1>5, <1>9 DEF IInv, RowInv, OwnRow
  <1> QED
    BY <1>8, <1>11, <1>12, <1>13 DEF IInv

LEMMA StopOcrStep ==
    ASSUME IInv, StopOcr
    PROVE  IInv'
  <1>1. /\ stopping.feeders = <<>> /\ stopping' = [feeders |-> <<>>, ocr |-> FALSE]
        /\ ocr' = FALSE
        /\ UNCHANGED <<table, videos, deleting, workers, managers, procs, started, admin>>
    BY DEF StopOcr
  <1>2. TypeOK'
    BY <1>1 DEF IInv, TypeOK, table
  <1>3. ListInv' /\ PidInv' /\ UrlInv' /\ EveryFeederIsManaged' /\ StopInv'
    BY <1>1 DEF IInv, ListInv, PidInv, UrlInv, EveryFeederIsManaged, StopInv,
                HasManager, Listed, Alive, Live
  <1> QED
    BY <1>1, <1>2, <1>3, RowsKeptStep DEF IInv

-------------------------------------------------------------------------------
(* The feeders *)

\* Only the touched mark of other processes changes.
LEMMA TouchedKeeps ==
    ASSUME IInv, NEW ids
    PROVE  /\ Touched(ids) \in [Pids -> Proc]
           /\ \A q \in Pids :
                 /\ Touched(ids)[q].at = procs[q].at
                 /\ Touched(ids)[q].target = procs[q].target
                 /\ Touched(ids)[q].url = procs[q].url
                 /\ Touched(ids)[q].self = procs[q].self
                 /\ Touched(ids)[q].raised = procs[q].raised
                 /\ Touched(ids)[q].lost = procs[q].lost
                 /\ Touched(ids)[q].touched =
                       (procs[q].touched \/ (Live(q) /\ procs[q].self \in ids))
                 /\ ~Live(q) => Touched(ids)[q] = procs[q]
  <1>1. procs \in [Pids -> Proc]
    BY Types DEF IInv
  <1>2. ASSUME NEW q \in Pids
        PROVE  /\ Touched(ids)[q] \in Proc
               /\ Touched(ids)[q].at = procs[q].at
               /\ Touched(ids)[q].target = procs[q].target
               /\ Touched(ids)[q].url = procs[q].url
               /\ Touched(ids)[q].self = procs[q].self
               /\ Touched(ids)[q].raised = procs[q].raised
               /\ Touched(ids)[q].lost = procs[q].lost
               /\ Touched(ids)[q].touched =
                     (procs[q].touched \/ (Live(q) /\ procs[q].self \in ids))
    <2> DEFINE mark == procs[q].touched \/ (Live(q) /\ procs[q].self \in ids)
    <2>1. procs[q] \in Proc /\ mark \in BOOLEAN
      BY <1>1 DEF Proc
    <2>2. Touched(ids)[q] = [procs[q] EXCEPT !.touched = mark]
      BY DEF Touched
    <2> HIDE DEF mark
    <2>3. /\ Touched(ids)[q] \in Proc
          /\ Touched(ids)[q].at = procs[q].at
          /\ Touched(ids)[q].target = procs[q].target
          /\ Touched(ids)[q].url = procs[q].url
          /\ Touched(ids)[q].self = procs[q].self
          /\ Touched(ids)[q].raised = procs[q].raised
          /\ Touched(ids)[q].lost = procs[q].lost
          /\ Touched(ids)[q].touched = mark
      BY <2>1, <2>2 DEF Proc
    <2> QED
      BY <2>3 DEF mark
  <1>3. ASSUME NEW q \in Pids, ~Live(q)
        PROVE  Touched(ids)[q] = procs[q]
    <2>1. procs[q] \in Proc /\ procs[q].touched \in BOOLEAN
      BY <1>1 DEF Proc
    <2>2. Touched(ids)[q] =
             [procs[q] EXCEPT !.touched = procs[q].touched \/ (Live(q) /\ procs[q].self \in ids)]
      BY DEF Touched
    <2>3. (procs[q].touched \/ (Live(q) /\ procs[q].self \in ids)) = (procs[q].touched \/ FALSE)
      BY <1>3
    <2>4. Touched(ids)[q] = [procs[q] EXCEPT !.touched = procs[q].touched \/ FALSE]
      BY <2>2, <2>3, Zenon
    <2> QED
      BY <2>1, <2>4, Untouched
  <1>4. Touched(ids) \in [Pids -> Proc]
    BY <1>2 DEF Touched
  <1> QED
    BY <1>2, <1>3, <1>4

\* A process that takes a step is alive, so it was started, and it has a target.
LEMMA Stepping ==
    ASSUME IInv, NEW p \in Pids, Live(p)
    PROVE  p <= started /\ procs[p].target \in Targets /\ procs[p] \in Proc
  <1>1. started \in Nat
    BY ScanAssumption DEF IInv, TypeOK
  <1> QED
    BY <1>1, Types, NoProcIsGone, IdTypes DEF IInv, PidInv, WriterInv, Live

\* A process that changes by itself, with the table.
LEMMA OwnStep ==
    ASSUME IInv, NEW p \in Pids, Live(p), NEW new \in Proc,
           procs' = [procs EXCEPT ![p] = new],
           new.target = procs[p].target, new.url = procs[p].url,
           UNCHANGED <<api, managers, started, admin>>,
           DOMAIN rows' = CameraIds,
           \A c \in CameraIds : rows'[c] = NoRow \/ rows'[c] \in Row,
           nextId' \in 1..(MaxId + 1)
    PROVE  /\ TypeOK' /\ ListInv' /\ PidInv' /\ UrlInv' /\ EveryFeederIsManaged' /\ StopInv'
           /\ procs'[p] = new /\ \A q \in Pids \ {p} : procs'[q] = procs[q]
  <1>1. procs'[p] = new /\ \A q \in Pids \ {p} : procs'[q] = procs[q]
    BY Types DEF IInv
  <1>2. procs' \in [Pids -> Proc]
    BY Types DEF IInv
  <1>3. TypeOK'
    BY <1>2 DEF IInv, TypeOK, api, Row, Proc
  <1>4. started \in Nat
    BY ScanAssumption DEF IInv, TypeOK
  <1>5. ManagersKept
    BY <1>1, <1>4, Stepping, IdTypes DEF ManagersKept, api, Live
  <1> QED
    BY <1>1, <1>3, <1>5, ManagersKeptStep

\* Such a step without a change of the table, to a place that is not the end.
LEMMA QuietStep ==
    ASSUME IInv, NEW p \in Pids, Live(p), NEW new \in Proc,
           procs' = [procs EXCEPT ![p] = new],
           new.target = procs[p].target, new.url = procs[p].url, new.at \notin Gone,
           new.at = "failing" => new.raised,
           new.at \in {"lookup", "update", "insert"} => new.self = new.target,
           new.at = "update" => new.target \in CameraIds,
           new.at \in {"update", "run"} /\ ~new.touched =>
              new.self \in CameraIds /\ rows[new.self] # NoRow,
           new.at = "run" /\ ~new.touched => rows[new.self].url = new.url,
           UNCHANGED <<table, api, managers, started, admin>>
    PROVE  IInv'
  <1>1. rows' = rows /\ nextId' = nextId
    BY DEF table
  <1>2. /\ TypeOK' /\ ListInv' /\ PidInv' /\ UrlInv' /\ EveryFeederIsManaged' /\ StopInv'
        /\ procs'[p] = new /\ \A q \in Pids \ {p} : procs'[q] = procs[q]
    <2>1. nextId' \in 1..(MaxId + 1)
      BY <1>1 DEF IInv, TypeOK
    <2> QED
      BY <1>1, <2>1, Types, OwnStep DEF IInv
  <1>3. \A c \in CameraIds : rows[c].by # 0 => rows[c].by \in Pids
    BY Types, RowIsThere DEF IInv, Row
  <1>4. new.at # "unborn" /\ new.at # "killed" /\ new.at # "exited" /\ procs[p].at # "killed"
    BY DEF Gone, Live
  <1>5. WriterInv'
    BY <1>1, <1>2, <1>3, <1>4, Stepping DEF IInv, WriterInv, Live
  <1>6. StatusTellsExit'
    BY <1>1, <1>2, <1>3, <1>4 DEF IInv, StatusTellsExit
  <1>7. RowInv'
    BY <1>1, <1>2 DEF IInv, RowInv
  <1>8. OwnRow'
    BY <1>1, <1>2 DEF IInv, OwnRow, RowInv
  <1> QED
    BY <1>2, <1>5, <1>6, <1>7, <1>8 DEF IInv

LEMMA LookupStep ==
    ASSUME IInv, NEW p \in Pids, Lookup(p)
    PROVE  IInv'
  <1> DEFINE row == IF procs[p].target \in CameraIds THEN rows[procs[p].target] ELSE NoRow
             next == IF row = NoRow THEN "insert"
                     ELSE IF row.url = procs[p].url THEN "run" ELSE "update"
             new == [procs[p] EXCEPT !.at = next, !.touched = FALSE]
  <1>1. /\ procs[p].at = "lookup"
        /\ procs' = [procs EXCEPT ![p].at = next, ![p].touched = FALSE]
        /\ UNCHANGED <<table, api, managers, started, admin>>
    BY DEF Lookup
  <1>2. Live(p) /\ procs[p].self = procs[p].target
    BY <1>1 DEF Live, Gone, IInv, RowInv
  <1>3. next \in {"insert", "run", "update"}
        /\ (next \in {"run", "update"} => row # NoRow)
        /\ (next = "run" => row.url = procs[p].url)
    <2> HIDE DEF row
    <2>1. CASE row = NoRow
      <3>1. next = "insert"
        BY <2>1
      <3> QED
        BY <3>1
    <2>2. CASE row # NoRow /\ row.url = procs[p].url
      <3>1. next = "run"
        BY <2>2
      <3> QED
        BY <2>2, <3>1
    <2>3. CASE row # NoRow /\ row.url # procs[p].url
      <3>1. next = "update"
        BY <2>3
      <3> QED
        BY <2>3, <3>1
    <2> QED
      BY <2>1, <2>2, <2>3
  <1>4. row # NoRow => procs[p].target \in CameraIds /\ row = rows[procs[p].target]
    OBVIOUS
  <1> HIDE DEF next, row
  <1>5. /\ next \in {"run", "update"} => /\ procs[p].target \in CameraIds
                                         /\ rows[procs[p].target] # NoRow
        /\ next = "run" => rows[procs[p].target].url = procs[p].url
    BY <1>3, <1>4
  <1>6. procs' = [procs EXCEPT ![p] = new]
    BY <1>1, Types DEF IInv
  <1>7. /\ new \in Proc /\ new.at = next /\ new.touched = FALSE /\ new.self = procs[p].self
        /\ new.target = procs[p].target /\ new.url = procs[p].url
    BY <1>2, <1>3, Stepping DEF Proc, Places
  <1> HIDE DEF new
  <1>8. /\ new.at \notin Gone /\ new.at # "failing"
        /\ new.self = new.target
        /\ new.at = "update" => new.target \in CameraIds
        /\ new.at \in {"update", "run"} => new.self \in CameraIds /\ rows[new.self] # NoRow
        /\ new.at = "run" => rows[new.self].url = new.url
    BY <1>2, <1>3, <1>5, <1>7 DEF Gone
  <1> QED
    BY <1>1, <1>2, <1>6, <1>7, <1>8, QuietStep

\* The steps that look at nothing in the table and leave the frame loop behind.
LEMMA LeavingStep ==
    ASSUME IInv, NEW p \in Pids,
           StartRaises(p) \/ NoticesStop(p) \/ RunRaises(p) \/ CloseRaises(p)
    PROVE  IInv'
  <1>1. Live(p) /\ procs \in [Pids -> Proc]
    BY Types DEF StartRaises, NoticesStop, RunRaises, CloseRaises, Live, Gone, IInv
  <1>2. CASE NoticesStop(p)
    <2> DEFINE new == [procs[p] EXCEPT !.at = "closing"]
    <2>1. /\ procs' = [procs EXCEPT ![p] = new]
          /\ UNCHANGED <<table, api, managers, started, admin>>
      BY <1>1, <1>2 DEF NoticesStop, Move
    <2>2. new \in Proc /\ new.at = "closing" /\ new.target = procs[p].target
          /\ new.url = procs[p].url
      BY <1>1 DEF Proc, Places
    <2> HIDE DEF new
    <2> QED
      BY <1>1, <2>1, <2>2, QuietStep DEF Gone
  <1>3. ASSUME NEW at \in {"failing", "closing"},
               procs' = [procs EXCEPT ![p].at = at, ![p].raised = TRUE],
               UNCHANGED <<table, api, managers, started, admin>>
        PROVE  IInv'
    <2> DEFINE new == [procs[p] EXCEPT !.at = at, !.raised = TRUE]
    <2>1. procs' = [procs EXCEPT ![p] = new]
      BY <1>1, <1>3
    <2>2. new \in Proc /\ new.at = at /\ new.target = procs[p].target /\ new.raised
          /\ new.url = procs[p].url
      BY <1>1 DEF Proc, Places
    <2> HIDE DEF new
    <2> QED
      BY <1>1, <1>3, <2>1, <2>2, QuietStep DEF Gone
  <1> QED
    BY <1>2, <1>3 DEF StartRaises, RunRaises, CloseRaises

\* Writing a status, which may be lost: only the row of the target changes, and its URL stays.
LEMMA WriteStep ==
    ASSUME IInv, NEW p \in Pids, Live(p),
           NEW status \in {"inactive", "error"}, NEW at \in {"closing", "failing", "exited"},
           WriteAndMove(p, status, at),
           at = "failing" => procs[p].raised,
           at = "exited" => status = IF procs[p].raised THEN "error" ELSE "inactive",
           UNCHANGED <<nextId, api, managers, started, admin>>
    PROVE  IInv'
  <1> DEFINE c == procs[p].target
             written == c \in CameraIds /\ rows[c] # NoRow
  <1>1. PICK lost \in {FALSE, written} :
           /\ rows' = IF written /\ ~lost
                      THEN [rows EXCEPT ![c].status = status, ![c].by = p] ELSE rows
           /\ procs' = [procs EXCEPT ![p].at = at, ![p].lost = lost]
    BY Zenon DEF WriteAndMove
  <1> DEFINE new == [procs[p] EXCEPT !.at = at, !.lost = lost]
  <1>2. lost \in BOOLEAN /\ c \in Targets /\ procs \in [Pids -> Proc] /\ written \in BOOLEAN
    BY Stepping, Types DEF IInv
  <1>3. procs' = [procs EXCEPT ![p] = new]
    BY <1>1, <1>2
  <1>4. /\ new \in Proc /\ new.at = at /\ new.lost = lost /\ new.target = c
        /\ new.raised = procs[p].raised /\ new.url = procs[p].url
    BY <1>2 DEF Proc, Places, Gone
  <1> HIDE DEF new
  <1>5. DOMAIN rows' = CameraIds /\ \A d \in CameraIds \ {c} : rows'[d] = rows[d]
    BY <1>1, Types DEF IInv
  <1>6. c \in CameraIds =>
           IF written /\ ~lost
           THEN /\ rows[c] \in Row /\ rows'[c] \in Row
                /\ rows'[c].status = status /\ rows'[c].by = p /\ rows'[c].url = rows[c].url
           ELSE rows'[c] = rows[c]
    <2>1. CASE written /\ ~lost
      <3>1. rows[c] \in Row /\ rows' = [rows EXCEPT ![c] = [rows[c] EXCEPT !.status = status, !.by = p]]
        BY <1>1, <2>1, Types DEF IInv
      <3> QED
        BY <2>1, <3>1, Types DEF IInv, Row
    <2>2. CASE ~(written /\ ~lost)
      BY <1>1, <2>2
    <2> QED
      BY <2>1, <2>2
  <1>7. /\ \A d \in CameraIds : rows'[d] = NoRow \/ rows'[d] \in Row
        /\ \A d \in CameraIds : (rows'[d] = NoRow <=> rows[d] = NoRow) /\ rows'[d].url = rows[d].url
    BY <1>5, <1>6, Types, RowIsThere DEF IInv
  <1>8. /\ TypeOK' /\ ListInv' /\ PidInv' /\ UrlInv' /\ EveryFeederIsManaged' /\ StopInv'
        /\ procs'[p] = new /\ \A q \in Pids \ {p} : procs'[q] = procs[q]
    <2>1. nextId' \in 1..(MaxId + 1)
      BY DEF IInv, TypeOK
    <2> QED
      BY <1>3, <1>4, <1>5, <1>7, <2>1, OwnStep
  <1>9. \A d \in CameraIds : rows[d].by # 0 => rows[d].by \in Pids
    BY Types, RowIsThere DEF IInv, Row
  <1>10. procs[p].at # "killed" /\ procs[p].at # "exited"
    BY DEF Live, Gone
  <1>11. WriterInv'
    <2>1. ASSUME NEW d \in CameraIds, rows'[d].by # 0
          PROVE  /\ procs'[rows'[d].by].at # "unborn"
                 /\ procs'[rows'[d].by].at # "killed" => procs'[rows'[d].by].target = d
      <3>1. CASE rows'[d] = rows[d]
        BY <1>4, <1>8, <1>9, <1>10, <2>1, <3>1 DEF IInv, WriterInv
      <3>2. CASE rows'[d] # rows[d]
        BY <1>4, <1>5, <1>6, <1>8, <3>2
      <3> QED
        BY <3>1, <3>2
    <2>2. \A q \in Pids : procs'[q].at = "failing" => procs'[q].raised
      BY <1>4, <1>8 DEF IInv, WriterInv
    <2>3. \A q \in Pids : Live(q)' => procs'[q].target \in Targets
      BY <1>2, <1>4, <1>8 DEF IInv, WriterInv, Live
    <2> QED
      BY <2>1, <2>2, <2>3 DEF WriterInv
  <1>12. StatusTellsExit'
    <2> SUFFICES ASSUME NEW d \in CameraIds, rows'[d].by # 0,
                        procs'[rows'[d].by].at = "exited", ~procs'[rows'[d].by].lost
                 PROVE  rows'[d].status = IF procs'[rows'[d].by].raised THEN "error" ELSE "inactive"
      BY DEF StatusTellsExit
    <2>1. CASE rows'[d].by = p
      <3>1. at = "exited" /\ ~lost
        BY <1>4, <1>8, <2>1
      <3>2. d = c
        BY <1>4, <1>8, <1>11, <2>1 DEF WriterInv
      <3>3. rows'[c].by # 0 /\ c \in CameraIds
        BY <2>1, <3>2
      <3>4. rows[c] # NoRow
        BY <1>7, <3>3, RowIsThere
      <3>5. rows'[c].status = status
        BY <1>6, <3>1, <3>3, <3>4
      <3> QED
        BY <1>4, <1>8, <2>1, <3>1, <3>2, <3>5
    <2>2. CASE rows'[d].by # p
      <3>1. rows'[d] = rows[d]
        BY <1>5, <1>6, <2>2
      <3> QED
        BY <1>8, <1>9, <2>2, <3>1 DEF IInv, StatusTellsExit
    <2> QED
      BY <2>1, <2>2
  <1>13. RowInv'
    BY <1>4, <1>7, <1>8 DEF IInv, RowInv
  <1>14. OwnRow'
    BY <1>4, <1>7, <1>8 DEF IInv, OwnRow
  <1> QED
    BY <1>8, <1>11, <1>12, <1>13, <1>14 DEF IInv

LEMMA ReportStep ==
    ASSUME IInv, NEW p \in Pids, SourceEnds(p) \/ Close(p) \/ Fail(p)
    PROVE  IInv'
  <1>1. Live(p) /\ procs[p].raised \in BOOLEAN
    BY Types DEF SourceEnds, Close, Fail, Live, Gone, IInv, Proc
  <1>2. CASE SourceEnds(p)
    BY <1>1, <1>2, WriteStep DEF SourceEnds
  <1>3. CASE Close(p)
    <2>1. CASE procs[p].raised
      BY <1>1, <1>3, <2>1, WriteStep DEF Close
    <2>2. CASE ~procs[p].raised
      BY <1>1, <1>3, <2>2, WriteStep DEF Close
    <2> QED
      BY <2>1, <2>2
  <1>4. CASE Fail(p)
    <2>1. procs[p].raised
      BY <1>4 DEF Fail, IInv, WriterInv
    <2> QED
      BY <1>1, <1>4, <2>1, WriteStep DEF Fail
  <1> QED
    BY <1>2, <1>3, <1>4

\* The rows change so that nothing but URLs, and rows that go, is new to a process that is
\* not touched by it.
LEMMA RowsStep ==
    ASSUME IInv, NEW ids \in SUBSET CameraIds,
           DOMAIN rows' = CameraIds,
           \A c \in CameraIds : /\ rows'[c] = NoRow \/ rows'[c] \in Row
                                /\ rows'[c].by # 0 => rows'[c].by = rows[c].by
                                                      /\ rows'[c].status = rows[c].status
                                /\ c \notin ids /\ rows[c] # NoRow =>
                                      rows'[c] # NoRow /\ rows'[c].url = rows[c].url
                                /\ c >= nextId' => rows'[c] = NoRow,
           nextId' \in 1..(MaxId + 1), admin' \in 0..MaxAdmin,
           procs' = Touched(ids),
           UNCHANGED <<api, managers, started>>
    PROVE  IInv'
  <1>1. /\ procs' \in [Pids -> Proc]
        /\ \A q \in Pids :
              /\ procs'[q].at = procs[q].at /\ procs'[q].target = procs[q].target
              /\ procs'[q].url = procs[q].url /\ procs'[q].self = procs[q].self
              /\ procs'[q].raised = procs[q].raised /\ procs'[q].lost = procs[q].lost
              /\ procs'[q].touched = (procs[q].touched \/ (Live(q) /\ procs[q].self \in ids))
              /\ ~Live(q) => procs'[q] = procs[q]
    BY TouchedKeeps
  <1>2. TypeOK'
    BY <1>1 DEF IInv, TypeOK, api, Row, Proc
  <1>3. ManagersKept
    <2>1. \A q \in Pids : q > started => ~Live(q)
      BY NoProcIsGone DEF IInv, PidInv, Live
    <2> QED
      BY <1>1, <2>1 DEF ManagersKept, api, Live
  <1>4. \A c \in CameraIds : rows'[c].by # 0 => rows'[c].by \in Pids
    BY RowIsThere DEF Row
  <1>5. WriterInv'
    BY <1>1, <1>4 DEF IInv, WriterInv, Live
  <1>6. StatusTellsExit'
    BY <1>1, <1>4 DEF IInv, StatusTellsExit
  <1>7. \A q \in Pids : procs[q].at \in {"update", "run"} => Live(q)
    BY DEF Live, Gone
  <1>8. RowInv'
    <2>1. ASSUME NEW q \in Pids, procs'[q].at \in {"update", "run"}, ~procs'[q].touched
          PROVE  procs'[q].self \in CameraIds /\ rows'[procs'[q].self] # NoRow
      <3>1. procs[q].at \in {"update", "run"} /\ ~procs[q].touched /\ procs[q].self \notin ids
        BY <1>1, <1>7, <2>1
      <3>2. procs[q].self \in CameraIds /\ rows[procs[q].self] # NoRow
        BY <3>1 DEF IInv, RowInv
      <3> QED
        BY <1>1, <3>1, <3>2
    <2>2. \A q \in Pids :
             /\ procs'[q].at \in {"lookup", "update", "insert"} =>
                   procs'[q].self = procs'[q].target
             /\ procs'[q].at = "update" => procs'[q].target \in CameraIds
      BY <1>1 DEF IInv, RowInv
    <2> QED
      BY <2>1, <2>2 DEF RowInv
  <1>9. OwnRow'
    <2> SUFFICES ASSUME NEW q \in Pids, procs'[q].at = "run", ~procs'[q].touched
                 PROVE  procs'[q].self \in CameraIds /\ rows'[procs'[q].self].url = procs'[q].url
      BY DEF OwnRow
    <2>1. procs[q].at = "run" /\ ~procs[q].touched /\ procs[q].self \notin ids
      BY <1>1, <1>7
    <2>2. procs[q].self \in CameraIds /\ rows[procs[q].self] # NoRow
          /\ rows[procs[q].self].url = procs[q].url
      BY <2>1 DEF IInv, RowInv, OwnRow
    <2> QED
      BY <1>1, <2>1, <2>2
  <1> QED
    BY <1>2, <1>3, <1>5, <1>6, <1>8, <1>9, ManagersKeptStep DEF IInv

\* A row added by an administrator: its id has none, so no untouched process reports under it.
LEMMA NobodyTouched ==
    ASSUME IInv
    PROVE  Touched({}) = procs
  <1>1. procs \in [Pids -> Proc]
    BY Types DEF IInv
  <1>2. ASSUME NEW q \in Pids
        PROVE  Touched({})[q] = procs[q]
    <2>1. Touched({})[q] =
             [procs[q] EXCEPT !.touched = procs[q].touched \/ (Live(q) /\ procs[q].self \in {})]
      BY DEF Touched
    <2>2. (procs[q].touched \/ (Live(q) /\ procs[q].self \in {})) = (procs[q].touched \/ FALSE)
      OBVIOUS
    <2>3. Touched({})[q] = [procs[q] EXCEPT !.touched = procs[q].touched \/ FALSE]
      BY <2>1, <2>2, Zenon
    <2> QED
      BY <1>1, <2>3, Untouched
  <1> QED
    BY <1>1, <1>2, TouchedKeeps

LEMMA AdminStep ==
    ASSUME IInv, Admin
    PROVE  IInv'
  <1> USE Types, RowIsThere, IdTypes DEF IInv
  <1>1. admin < MaxAdmin => admin + 1 \in 0..MaxAdmin
    BY ScanAssumption DEF TypeOK
  <1>2. ASSUME NEW url \in Streams, AddCamera(url)
        PROVE  IInv'
    <2> DEFINE row == [url |-> url, status |-> "active", by |-> 0]
    <2>1. /\ nextId \in CameraIds /\ nextId' = nextId + 1 /\ nextId \in Nat
          /\ nextId' \in 1..(MaxId + 1)
      BY <1>2, ScanAssumption DEF AddCamera, TypeOK, CameraIds
    <2>2. row \in Row /\ row.by = 0
      BY DEF Row
    <2>3. rows' = [rows EXCEPT ![nextId] = row]
      BY <1>2 DEF AddCamera
    <2> HIDE DEF row
    <2>4. /\ DOMAIN rows' = CameraIds /\ rows'[nextId] = row
          /\ \A c \in CameraIds \ {nextId} : rows'[c] = rows[c]
      BY <2>1, <2>3
    <2>5. rows[nextId] = NoRow
      BY <2>1 DEF RowInv
    <2>6. \A c \in CameraIds : c >= nextId' => rows'[c] = NoRow
      BY <2>1, <2>4 DEF RowInv
    <2>7. admin' \in 0..MaxAdmin /\ procs' = Touched({})
          /\ UNCHANGED <<api, managers, started>>
      BY <1>1, <1>2, NobodyTouched DEF AddCamera
    <2> QED
      BY <2>1, <2>2, <2>4, <2>5, <2>6, <2>7, RowsStep
  <1>3. ASSUME NEW c \in CameraIds, NEW url \in Streams, EditUrl(c, url)
        PROVE  IInv'
    <2>1. rows[c] \in Row /\ rows' = [rows EXCEPT ![c].url = url] /\ nextId' = nextId
      BY <1>3 DEF EditUrl
    <2>2. /\ DOMAIN rows' = CameraIds
          /\ rows'[c] \in Row /\ rows'[c].by = rows[c].by /\ rows'[c].status = rows[c].status
          /\ \A d \in CameraIds \ {c} : rows'[d] = rows[d]
      BY <2>1 DEF Row
    <2>3. \A d \in CameraIds : /\ rows'[d] = NoRow \/ rows'[d] \in Row
                               /\ rows'[d].by = rows[d].by /\ rows'[d].status = rows[d].status
                               /\ d \notin {c} => rows'[d] = rows[d]
                               /\ d >= nextId' => rows'[d] = NoRow
      BY <2>1, <2>2, <1>3 DEF RowInv, EditUrl
    <2>4. admin' \in 0..MaxAdmin /\ procs' = Touched({c})
          /\ UNCHANGED <<api, managers, started>> /\ nextId' \in 1..(MaxId + 1)
          /\ {c} \in SUBSET CameraIds /\ DOMAIN rows' = CameraIds
      BY <1>1, <1>3, <2>2 DEF EditUrl, TypeOK
    <2>5. \A d \in CameraIds : d \notin {c} /\ rows[d] # NoRow =>
                                  rows'[d] # NoRow /\ rows'[d].url = rows[d].url
      BY <2>3
    <2>6. \A d \in CameraIds : rows'[d].by # 0 => rows'[d].by = rows[d].by
                                                  /\ rows'[d].status = rows[d].status
      BY <2>3
    <2> HIDE DEF IInv
    <2> QED
      BY <2>3, <2>4, <2>5, <2>6, RowsStep
  <1>4. ASSUME NEW c \in CameraIds, EditStatus(c)
        PROVE  IInv'
    <2>1. rows[c] \in Row /\ rows' = [rows EXCEPT ![c].status = "active", ![c].by = 0]
          /\ nextId' = nextId
      BY <1>4 DEF EditStatus
    <2>2. /\ DOMAIN rows' = CameraIds
          /\ rows'[c] \in Row /\ rows'[c].by = 0 /\ rows'[c].url = rows[c].url
          /\ \A d \in CameraIds \ {c} : rows'[d] = rows[d]
      BY <2>1 DEF Row
    <2>3. \A d \in CameraIds : d >= nextId' => rows'[d] = NoRow
      BY <2>1, <2>2, <1>4 DEF RowInv, EditStatus
    <2>4. admin' \in 0..MaxAdmin /\ procs' = Touched({})
          /\ UNCHANGED <<api, managers, started>> /\ nextId' \in 1..(MaxId + 1)
      BY <1>1, <1>4, NobodyTouched DEF EditStatus, TypeOK
    <2> QED
      BY <2>2, <2>3, <2>4, RowsStep
  <1>5. ASSUME NEW c \in CameraIds, DeleteCamera(c)
        PROVE  IInv'
    <2>1. rows' = [rows EXCEPT ![c] = NoRow] /\ nextId' = nextId
      BY <1>5 DEF DeleteCamera
    <2>2. /\ DOMAIN rows' = CameraIds /\ rows'[c] = NoRow
          /\ \A d \in CameraIds \ {c} : rows'[d] = rows[d]
      BY <2>1
    <2>3. \A d \in CameraIds : d >= nextId' => rows'[d] = NoRow
      BY <2>1, <2>2 DEF RowInv
    <2>4. admin' \in 0..MaxAdmin /\ procs' = Touched({c})
          /\ UNCHANGED <<api, managers, started>> /\ nextId' \in 1..(MaxId + 1)
      BY <1>1, <1>5 DEF DeleteCamera, TypeOK
    <2> QED
      BY <2>2, <2>3, <2>4, RowsStep
  <1>6. CASE DeleteAll
    <2>1. DOMAIN rows' = CameraIds /\ (\A d \in CameraIds : rows'[d] = NoRow)
      BY <1>6 DEF DeleteAll
    <2>2. nextId' \in 1..(MaxId + 1)
      BY <1>6, ScanAssumption DEF DeleteAll
    <2>3. admin' \in 0..MaxAdmin /\ procs' = Touched(CameraIds)
          /\ UNCHANGED <<api, managers, started>>
      BY <1>1, <1>6 DEF DeleteAll
    <2> QED
      BY <2>1, <2>2, <2>3, RowsStep
  <1> QED
    BY <1>2, <1>3, <1>4, <1>5, <1>6 DEF Admin

LEMMA OverwriteStep ==
    ASSUME IInv, NEW p \in Pids, Overwrite(p)
    PROVE  IInv'
  <1> DEFINE c == procs[p].target
             new == [procs[p] EXCEPT !.at = "run"]
             kept == Touched({c})
  <1>1. /\ procs[p].at = "update" /\ c \in CameraIds /\ procs[p].self = c
        /\ procs[p].url \in Urls /\ Live(p)
    BY DEF Overwrite, IInv, RowInv, UrlInv, Live, Gone
  <1>2. /\ rows' = IF rows[c] = NoRow THEN rows ELSE [rows EXCEPT ![c].url = procs[p].url]
        /\ procs' = [kept EXCEPT ![p] = new]
        /\ UNCHANGED <<nextId, api, managers, started, admin>>
    BY DEF Overwrite
  <1>3. /\ new \in Proc /\ new.at = "run" /\ new.target = c /\ new.url = procs[p].url
        /\ new.self = c /\ new.touched = procs[p].touched
    BY <1>1, Types DEF IInv, Proc, Places
  <1>4. /\ kept \in [Pids -> Proc]
        /\ \A q \in Pids :
              /\ kept[q].at = procs[q].at /\ kept[q].target = procs[q].target
              /\ kept[q].url = procs[q].url /\ kept[q].self = procs[q].self
              /\ kept[q].raised = procs[q].raised /\ kept[q].lost = procs[q].lost
              /\ kept[q].touched = (procs[q].touched \/ (Live(q) /\ procs[q].self \in {c}))
              /\ ~Live(q) => kept[q] = procs[q]
    BY TouchedKeeps
  <1> HIDE DEF kept, new
  <1>5. /\ procs' \in [Pids -> Proc] /\ procs'[p] = new
        /\ \A q \in Pids \ {p} : procs'[q] = kept[q]
    BY <1>2, <1>3, <1>4
  <1>6. /\ DOMAIN rows' = CameraIds
        /\ \A d \in CameraIds \ {c} : rows'[d] = rows[d]
        /\ rows[c] = NoRow => rows'[c] = NoRow
        /\ rows[c] # NoRow => /\ rows'[c] \in Row /\ rows'[c] # NoRow
                              /\ rows'[c].url = procs[p].url
                              /\ rows'[c].by = rows[c].by /\ rows'[c].status = rows[c].status
    <2>1. CASE rows[c] = NoRow
      BY <1>1, <1>2, <2>1, Types DEF IInv
    <2>2. CASE rows[c] # NoRow
      <3>1. rows[c] \in Row /\ rows' = [rows EXCEPT ![c].url = procs[p].url]
        BY <1>1, <1>2, <2>2, Types DEF IInv
      <3>2. /\ DOMAIN rows' = CameraIds
            /\ \A d \in CameraIds \ {c} : rows'[d] = rows[d]
            /\ rows'[c] = [rows[c] EXCEPT !.url = procs[p].url]
        BY <1>1, <3>1, Types DEF IInv
      <3>3. /\ rows'[c] \in Row /\ rows'[c].url = procs[p].url
            /\ rows'[c].by = rows[c].by /\ rows'[c].status = rows[c].status
        BY <1>1, <3>1, <3>2 DEF Row
      <3> QED
        BY <2>2, <3>2, <3>3, RowIsThere
    <2> QED
      BY <2>1, <2>2
  <1>7. \A d \in CameraIds : /\ rows'[d] = NoRow \/ rows'[d] \in Row
                             /\ rows'[d].by = rows[d].by /\ rows'[d].status = rows[d].status
                             /\ rows'[d] = NoRow <=> rows[d] = NoRow
                             /\ d # c => rows'[d] = rows[d]
    BY <1>6, Types DEF IInv
  <1> HIDE DEF c
  <1>8. TypeOK'
    BY <1>2, <1>5, <1>6, <1>7 DEF IInv, TypeOK, api, Row, Proc
  <1>9. ManagersKept
    <2>1. \A q \in Pids : q > started => ~Live(q)
      BY NoProcIsGone DEF IInv, PidInv, Live
    <2> QED
      BY <1>1, <1>2, <1>3, <1>4, <1>5, <2>1 DEF ManagersKept, api, Live, c
  <1>10. \A d \in CameraIds : rows[d].by # 0 => rows[d].by \in Pids
    BY Types, RowIsThere DEF IInv, Row
  <1>11. WriterInv'
    <2>1. \A q \in Pids : /\ procs'[q].target = procs[q].target
                          /\ procs'[q].at = procs[q].at \/ (q = p /\ procs'[q].at = "run")
                          /\ procs'[q].raised = procs[q].raised \/ q = p
      BY <1>3, <1>4, <1>5 DEF c
    <2>2. procs[p].at # "killed" /\ procs[p].at # "unborn"
      BY <1>1
    <2> QED
      BY <1>1, <1>7, <1>10, <2>1, <2>2 DEF IInv, WriterInv, Live
  <1>12. StatusTellsExit'
    BY <1>3, <1>4, <1>5, <1>7, <1>10 DEF IInv, StatusTellsExit
  <1>13. \A q \in Pids : procs[q].at \in {"update", "run"} => Live(q)
    BY DEF Live, Gone
  <1>14. ASSUME NEW q \in Pids, procs'[q].at \in {"update", "run"}, ~procs'[q].touched
         PROVE  /\ procs'[q].self \in CameraIds /\ rows'[procs'[q].self] # NoRow
                /\ procs'[q].at = "run" => rows'[procs'[q].self].url = procs'[q].url
    <2>1. CASE q = p
      <3>1. ~procs[p].touched
        BY <1>3, <1>5, <1>14, <2>1
      <3>2. rows[c] # NoRow
        BY <1>1, <3>1 DEF IInv, RowInv
      <3> QED
        BY <1>1, <1>3, <1>5, <1>6, <2>1, <3>2
    <2>2. CASE q # p
      <3>1. procs[q].at = procs'[q].at /\ ~procs[q].touched /\ procs[q].self # c
        BY <1>4, <1>5, <1>13, <1>14, <2>2
      <3>2. procs[q].self \in CameraIds /\ rows[procs[q].self] # NoRow
            /\ (procs[q].at = "run" => rows[procs[q].self].url = procs[q].url)
        BY <1>14, <3>1 DEF IInv, RowInv, OwnRow
      <3> QED
        BY <1>4, <1>5, <1>7, <2>2, <3>1, <3>2
    <2> QED
      BY <2>1, <2>2
  <1>15. RowInv'
    <2>1. \A d \in CameraIds : d >= nextId' => rows'[d] = NoRow
      BY <1>2, <1>7 DEF IInv, RowInv
    <2>2. \A q \in Pids :
             /\ procs'[q].at \in {"lookup", "update", "insert"} =>
                   procs'[q].self = procs'[q].target
             /\ procs'[q].at = "update" => procs'[q].target \in CameraIds
      BY <1>3, <1>4, <1>5 DEF IInv, RowInv
    <2> QED
      BY <1>14, <2>1, <2>2 DEF RowInv
  <1>16. OwnRow'
    BY <1>14 DEF OwnRow
  <1> QED
    BY <1>8, <1>9, <1>11, <1>12, <1>15, <1>16, ManagersKeptStep DEF IInv

LEMMA InsertStep ==
    ASSUME IInv, NEW p \in Pids, Insert(p)
    PROVE  IInv'
  <1> DEFINE row == [url |-> procs[p].url, status |-> "active", by |-> 0]
             new == [procs[p] EXCEPT !.at = "run", !.self = nextId, !.touched = FALSE]
  <1>1. /\ procs[p].at = "insert" /\ Live(p) /\ procs[p].url \in Urls
    BY DEF Insert, IInv, UrlInv, Live, Gone
  <1>2. /\ nextId \in CameraIds /\ nextId' = nextId + 1 /\ nextId \in Nat
        /\ nextId' \in 1..(MaxId + 1)
    BY ScanAssumption DEF Insert, IInv, TypeOK, CameraIds
  <1>3. /\ rows' = [rows EXCEPT ![nextId] = row]
        /\ procs' = [procs EXCEPT ![p].at = "run", ![p].self = nextId, ![p].touched = FALSE]
        /\ UNCHANGED <<api, managers, started, admin>>
    BY DEF Insert
  <1>4. row \in Row /\ row # NoRow /\ row.by = 0 /\ row.url = procs[p].url
    BY <1>1 DEF Row, NoRow
  <1>5. procs' = [procs EXCEPT ![p] = new]
    BY <1>3, Types DEF IInv
  <1>6. /\ new \in Proc /\ new.at = "run" /\ new.self = nextId /\ new.touched = FALSE
        /\ new.target = procs[p].target /\ new.url = procs[p].url
    <2>1. procs[p] \in Proc /\ nextId \in Targets
      BY <1>2, IdTypes, Types DEF IInv
    <2> QED
      BY <2>1 DEF Proc, Places
  <1> HIDE DEF row, new
  <1>7. /\ DOMAIN rows' = CameraIds /\ rows'[nextId] = row
        /\ \A d \in CameraIds \ {nextId} : rows'[d] = rows[d]
        /\ rows[nextId] = NoRow
    BY <1>2, <1>3, Types DEF IInv, RowInv
  <1>8. \A d \in CameraIds : rows'[d] = NoRow \/ rows'[d] \in Row
    BY <1>4, <1>7, Types DEF IInv
  <1>9. /\ TypeOK' /\ ListInv' /\ PidInv' /\ UrlInv' /\ EveryFeederIsManaged' /\ StopInv'
        /\ procs'[p] = new /\ \A q \in Pids \ {p} : procs'[q] = procs[q]
    BY <1>1, <1>2, <1>3, <1>5, <1>6, <1>7, <1>8, OwnStep
  <1>10. \A d \in CameraIds : rows'[d].by # 0 => /\ d # nextId /\ rows'[d] = rows[d]
                                                 /\ rows'[d].by \in Pids
    BY <1>4, <1>7, <1>8, RowIsThere DEF Row
  <1>11. WriterInv'
    BY <1>1, <1>6, <1>9, <1>10, Stepping DEF IInv, WriterInv, Live
  <1>12. StatusTellsExit'
    BY <1>6, <1>9, <1>10 DEF IInv, StatusTellsExit
  <1>13. ASSUME NEW q \in Pids, procs'[q].at \in {"update", "run"}, ~procs'[q].touched
         PROVE  /\ procs'[q].self \in CameraIds /\ rows'[procs'[q].self] # NoRow
                /\ procs'[q].at = "run" => rows'[procs'[q].self].url = procs'[q].url
    <2>1. CASE q = p
      BY <1>2, <1>4, <1>6, <1>7, <1>9, <2>1
    <2>2. CASE q # p
      <3>1. procs'[q] = procs[q]
        BY <1>9, <2>2
      <3>2. procs[q].self \in CameraIds /\ rows[procs[q].self] # NoRow
            /\ (procs[q].at = "run" => rows[procs[q].self].url = procs[q].url)
        BY <1>13, <3>1 DEF IInv, RowInv, OwnRow
      <3>3. procs[q].self # nextId
        BY <1>7, <3>2
      <3> QED
        BY <1>7, <3>1, <3>2, <3>3
    <2> QED
      BY <2>1, <2>2
  <1>14. RowInv'
    <2>1. \A d \in CameraIds : d >= nextId' => rows'[d] = NoRow
      <3>1. \A d \in CameraIds : d >= nextId + 1 => d # nextId /\ d >= nextId
        BY <1>2, IdTypes
      <3> QED
        BY <1>2, <1>7, <3>1 DEF IInv, RowInv
    <2>2. \A q \in Pids :
             /\ procs'[q].at \in {"lookup", "update", "insert"} =>
                   procs'[q].self = procs'[q].target
             /\ procs'[q].at = "update" => procs'[q].target \in CameraIds
      BY <1>6, <1>9 DEF IInv, RowInv
    <2> QED
      BY <1>13, <2>1, <2>2 DEF RowInv
  <1>15. OwnRow'
    BY <1>13 DEF OwnRow
  <1> QED
    BY <1>9, <1>11, <1>12, <1>14, <1>15 DEF IInv

-------------------------------------------------------------------------------
(* Theorems *)

LEMMA NextStep ==
    ASSUME IInv, [Next]_vars
    PROVE  IInv'
  <1>1. CASE UNCHANGED vars
    <2>1. UNCHANGED <<rows, nextId, videos, deleting, workers, ocr, stopping, managers, procs,
                      started, admin>>
      BY <1>1 DEF vars, table, api
    <2>2. TypeOK'
      BY <2>1 DEF IInv, TypeOK
    <2>3. ManagersKept
      BY <2>1 DEF ManagersKept, Live
    <2> QED
      BY <2>1, <2>2, <2>3, ManagersKeptStep, RowsKeptStep DEF IInv, table
  <1>2. CASE StopSteps
    BY <1>2, SignalStopStep, StopJoinsStep, StopTerminatesStep, StopOcrStep DEF StopSteps
  <1>3. ASSUME NEW p \in Pids, Feeder(p)
        PROVE  IInv'
    BY <1>3, LookupStep, OverwriteStep, InsertStep, LeavingStep, ReportStep DEF Feeder
  <1> QED
    BY <1>1, <1>2, <1>3, ApiStep, AdminStep DEF Next

\* The inductive invariant holds in every reachable state.
THEOREM Invariance == Spec => []IInv
  <1>1. Init => IInv
    BY InitIInv
  <1>2. IInv /\ [Next]_vars => IInv'
    BY NextStep
  <1> QED
    BY <1>1, <1>2, PTL DEF Spec

\* The table, the managers and the processes keep their types, and app.state.workers lists a
\* manager once, for any cameras, videos and starts.
THEOREM TypeCorrect == Spec => []TypeOK
  <1>1. IInv => TypeOK
    BY DEF IInv
  <1> QED
    BY <1>1, Invariance, PTL

\* No feeder runs out of the API's sight, whatever is switched on and off and however the
\* processes end.
THEOREM FeedersManaged == Spec => []EveryFeederIsManaged
  <1>1. IInv => EveryFeederIsManaged
    BY DEF IInv
  <1> QED
    BY <1>1, Invariance, PTL

\* A status tells how the feeder that wrote it last has ended.
THEOREM StatusTells == Spec => []StatusTellsExit
  <1>1. IInv => StatusTellsExit
    BY DEF IInv
  <1> QED
    BY <1>1, Invariance, PTL

\* Feeders read their source under a row of their own, unless others changed it.
THEOREM OwnRows == Spec => []OwnRow
  <1>1. IInv => OwnRow
    BY DEF IInv
  <1> QED
    BY <1>1, Invariance, PTL

\* "Stop all" ends when nothing is alive: its last step comes after every listed manager's
\* stop, and by StopInv what is alive still has its stop before it.
LEMMA StopAllStep ==
    ASSUME IInv, [Next]_vars, stopping.ocr, ~stopping.ocr'
    PROVE  ~ocr' /\ \A p \in Pids : procs'[p].at \in Gone
  <1>1. StopOcr
    <2>1. CASE UNCHANGED vars
      BY <2>1 DEF vars, api
    <2>2. CASE SignalStop \/ StopJoins \/ StopTerminates
      <3>1. stopping' = stopping \/ stopping' = [stopping EXCEPT !.feeders = Tail(@)]
        BY <2>2 DEF SignalStop, StopJoins, StopTerminates, Dropped, api
      <3>2. stopping \in [feeders : Seq(Targets), ocr : BOOLEAN]
        BY DEF IInv, TypeOK
      <3>3. stopping'.ocr = stopping.ocr
        BY <3>1, <3>2
      <3> QED
        BY <3>3
    <2>3. CASE Api
      <3>1. ~LoopFree
        BY DEF LoopFree
      <3> QED
        BY <2>3, <3>1 DEF Api, ScanOn, ScanOff, ToggleCamera, ToggleVideo, ToggleKnown, ToggleOn,
                          ToggleOff, DeleteVideo, VideoDeleted
    <2>4. ASSUME NEW p \in Pids, Feeder(p)
          PROVE  stopping' = stopping
      BY <2>4 DEF Feeder, Lookup, Overwrite, Insert, StartRaises, SourceEnds, NoticesStop,
                  RunRaises, Close, CloseRaises, Fail, api
    <2>5. CASE Admin
      BY <2>5 DEF Admin, AddCamera, EditUrl, EditStatus, DeleteCamera, DeleteAll, api
    <2> QED
      BY <2>1, <2>2, <2>3, <2>4, <2>5 DEF Next, StopSteps
  <1>2. ocr' = FALSE /\ procs' = procs /\ stopping.feeders = <<>>
    BY <1>1 DEF StopOcr
  <1> QED
    BY <1>2 DEF IInv, StopInv, Live

\* When "stop all" is answered no feeder and no OCR worker runs, whatever else was asked for.
THEOREM StopAll == Spec => StopAllStopsAll
  <1>1. IInv /\ [Next]_vars =>
           [stopping.ocr /\ ~stopping.ocr' => ~ocr' /\ \A p \in Pids : procs'[p].at \in Gone]_vars
    BY StopAllStep
  <1> QED
    BY <1>1, Invariance, PTL DEF Spec, StopAllStopsAll

-------------------------------------------------------------------------------
(* The switches: each step is one of FeederControl's, or none *)

\* No stop is asked for twice.
OnceInv ==
    \A i, j \in DOMAIN stopping.feeders : stopping.feeders[i] = stopping.feeders[j] => i = j

\* The processes that scan are the same as before.
SameFeeders ==
    \A p \in Pids : /\ Live(p)' <=> Live(p)
                    /\ Live(p) => procs'[p].target = procs[p].target

LEMMA FeedingKept ==
    ASSUME SameFeeders
    PROVE  Feeding' = Feeding
  BY DEF SameFeeders, Feeding, FeedersOf

LEMMA QuietSwitches ==
    ASSUME SameFeeders, UNCHANGED <<stopping, ocr>>
    PROVE  UNCHANGED Control!vars
  BY FeedingKept DEF Control!vars, Due

\* What is alive is its manager's process, so a target has one feeder at most.
LEMMA OneFeeder ==
    ASSUME IInv, NEW t \in Targets
    PROVE  /\ \A p \in FeedersOf(t) : managers[t].pid = p /\ FeedersOf(t) = {p} /\ Alive(t)
           /\ Feeding[t] = FeedersOf(t)
           /\ Alive(t) <=> FeedersOf(t) # {}
  <1>1. \A p \in FeedersOf(t) : p \in Pids /\ Live(p) /\ managers[t].pid = p
    BY DEF FeedersOf, IInv, EveryFeederIsManaged
  <1>2. \A p \in FeedersOf(t) : FeedersOf(t) = {p} /\ Alive(t)
    BY <1>1, IdTypes DEF Alive
  <1>3. Feeding[t] = FeedersOf(t)
    BY DEF Feeding
  <1>4. ASSUME Alive(t)
        PROVE  managers[t].pid \in FeedersOf(t)
    BY <1>4, Types DEF IInv, PidInv, Manager, Alive, FeedersOf
  <1> QED
    BY <1>1, <1>2, <1>3, <1>4

LEMMA OnIsAlive ==
    ASSUME IInv
    PROVE  Control!On = {t \in Targets : Alive(t)}
  BY OneFeeder DEF Control!On

\* The event loop is free when nothing is being stopped.
LEMMA FreeIsNotBusy ==
    ASSUME IInv
    PROVE  LoopFree <=> ~Control!Busy
  <1>1. stopping.feeders \in Seq(Targets) /\ stopping.ocr \in BOOLEAN
    BY DEF IInv, TypeOK
  <1> DEFINE s == stopping.feeders
  <1>2. s = <<>> <=> Due = {}
    <2>1. Due = {s[i] : i \in 1..Len(s)}
      BY <1>1 DEF Due
    <2>2. CASE s = <<>>
      BY <2>1, <2>2
    <2>3. CASE s # <<>>
      <3>1. s[1] \in Due
        BY <1>1, <2>1, <2>3
      <3> QED
        BY <2>3, <3>1
    <2> QED
      BY <2>2, <2>3
  <1> QED
    BY <1>2 DEF LoopFree, Control!Busy

\* A target that ceases to be scanned.
LEMMA FeederGone ==
    ASSUME IInv, NEW t \in Targets,
           \A p \in Pids : p \notin FeedersOf(t) =>
               /\ Live(p)' <=> Live(p)
               /\ Live(p) => procs'[p].target = procs[p].target,
           \A p \in FeedersOf(t) : ~Live(p)'
    PROVE  Feeding' = [Feeding EXCEPT ![t] = {}]
  <1>1. ASSUME NEW u \in Targets
        PROVE  FeedersOf(u)' = IF u = t THEN {} ELSE FeedersOf(u)
    BY DEF FeedersOf
  <1> QED
    BY <1>1 DEF Feeding

LEMMA SwitchOnMaps ==
    ASSUME IInv, NEW t \in Targets, NEW url \in Urls, ToggleOn(t, url)
    PROVE  Control!SwitchOn(t)
  <1>1. ~Control!Busy /\ ocr' = TRUE /\ stopping' = stopping
    BY FreeIsNotBusy DEF ToggleOn
  <1>2. Due' = Due /\ stopping'.ocr = stopping.ocr
    BY <1>1 DEF Due
  <1>3. CASE Alive(t)
    <2>1. procs' = procs
      BY <1>3 DEF ToggleOn
    <2>2. Feeding' = Feeding
      BY <2>1, FeedingKept DEF SameFeeders, Live
    <2> QED
      BY <1>1, <1>2, <1>3, <2>2, OnIsAlive DEF Control!SwitchOn
  <1>4. CASE ~Alive(t)
    <2> DEFINE n == started + 1
               new == [NoProc EXCEPT !.at = "lookup", !.target = t, !.url = url, !.self = t]
    <2>1. started < MaxStarts /\ procs' = [procs EXCEPT ![n] = new]
      BY <1>4 DEF ToggleOn
    <2>2. n \in Pids /\ n > started
      BY <2>1, IdTypes DEF IInv, TypeOK, Pids
    <2>3. new.at = "lookup" /\ new.target = t
      BY DEF NoProc
    <2>4. ~Live(n)
      BY <2>2, NoProcIsGone DEF IInv, PidInv, Live
    <2> HIDE DEF n, new
    <2>5. /\ procs'[n] = new
          /\ \A p \in Pids \ {n} : procs'[p] = procs[p]
      BY <2>1, <2>2, Types DEF IInv
    <2>6. FeedersOf(t) = {}
      BY <1>4, OneFeeder
    <2>7. ASSUME NEW u \in Targets
          PROVE  /\ FeedersOf(u)' = IF u = t THEN {n} ELSE FeedersOf(u)
                 /\ n \notin Feeding[u]
      <3>1. ASSUME NEW p \in Pids
            PROVE  (Live(p) /\ procs[p].target = u)'
                      <=> IF p = n THEN u = t ELSE Live(p) /\ procs[p].target = u
        BY <2>3, <2>5 DEF Live, Gone
      <3>2. n \notin FeedersOf(u)
        BY <2>4 DEF FeedersOf
      <3> QED
        BY <2>2, <2>6, <3>1, <3>2, OneFeeder DEF FeedersOf
    <2>8. Feeding' = [Feeding EXCEPT ![t] = {n}]
      BY <2>7 DEF Feeding
    <2> QED
      BY <1>1, <1>2, <1>4, <2>2, <2>7, <2>8, OnIsAlive DEF Control!SwitchOn
  <1> QED
    BY <1>3, <1>4

\* One target is to be stopped.
LEMMA SwitchOffMaps ==
    ASSUME IInv, NEW t \in Targets, LoopFree, Alive(t),
           stopping' = [feeders |-> <<t>>, ocr |-> FALSE], UNCHANGED <<ocr, procs>>
    PROVE  Control!SwitchOff(t)
  <1>1. Due' = {t} /\ stopping'.ocr = stopping.ocr
    <2>1. stopping'.feeders = <<t>> /\ stopping'.ocr = FALSE
      OBVIOUS
    <2>2. stopping.ocr = FALSE
      BY DEF LoopFree, IInv, TypeOK
    <2>3. Due' = {(<<t>>)[i] : i \in 1..1}
      BY <2>1 DEF Due
    <2>4. Due' = {t}
      BY <2>3
    <2> QED
      BY <2>1, <2>2, <2>4
  <1>2. Feeding' = Feeding
    BY FeedingKept DEF SameFeeders, Live
  <1> QED
    BY <1>1, <1>2, OnIsAlive, FreeIsNotBusy DEF Control!SwitchOff

LEMMA SwitchAllOffMaps ==
    ASSUME IInv, ScanOff
    PROVE  Control!SwitchAllOff
  <1>1. /\ LoopFree /\ stopping' = [feeders |-> workers, ocr |-> TRUE]
        /\ UNCHANGED <<ocr, procs>>
    BY DEF ScanOff
  <1>2. Due' = {workers[i] : i \in DOMAIN workers}
    BY <1>1 DEF Due
  <1>3. workers \in Seq(Targets)
    BY DEF IInv, TypeOK
  <1>4. \A i \in DOMAIN workers : workers[i] \in Targets
    BY <1>3
  <1>5. ASSUME NEW t \in Targets, Alive(t)
        PROVE  \E i \in DOMAIN workers : workers[i] = t
    BY <1>5, ManagerIsThere DEF Alive, HasManager, IInv, ListInv, Listed
  <1>6. Feeding' = Feeding
    BY <1>1, FeedingKept DEF SameFeeders, Live
  <1> QED
    BY <1>1, <1>2, <1>4, <1>5, <1>6, OnIsAlive, FreeIsNotBusy DEF Control!SwitchAllOff

LEMMA ApiMaps ==
    ASSUME IInv, Api
    PROVE  [Control!Next]_(Control!vars)
  <1>1. ASSUME NEW t \in Targets, NEW url \in Urls, ToggleOn(t, url)
        PROVE  Control!Next
    BY <1>1, SwitchOnMaps DEF Control!Next
  <1>2. CASE ScanOn
    <2>1. UNCHANGED <<stopping, procs>> /\ ocr' = TRUE /\ LoopFree
      BY <1>2 DEF ScanOn
    <2>2. Feeding' = Feeding /\ Due' = Due
      BY <2>1, FeedingKept DEF SameFeeders, Live, Due
    <2>3. Control!OcrOn
      BY <2>1, <2>2, FreeIsNotBusy DEF Control!OcrOn
    <2> QED
      BY <2>3 DEF Control!Next
  <1>3. CASE ScanOff
    BY <1>3, SwitchAllOffMaps DEF Control!Next
  <1>4. ASSUME NEW c \in CameraIds, ToggleCamera(c)
        PROVE  Control!Next
    <2>1. c \in Targets /\ rows[c].url \in Urls /\ ToggleOn(c, rows[c].url)
      BY <1>4, Types, RowIsThere, IdTypes DEF ToggleCamera, IInv
    <2> QED
      BY <2>1, <1>1
  <1>5. ASSUME NEW v \in Videos, ToggleVideo(v)
        PROVE  Control!Next
    BY <1>1, <1>5, IdTypes DEF ToggleVideo
  <1>6. ASSUME NEW t \in Targets, ToggleKnown(t)
        PROVE  Control!Next
    BY <1>1, <1>6 DEF ToggleKnown, IInv, UrlInv
  <1>7. ASSUME NEW t \in Targets, ToggleOff(t)
        PROVE  Control!Next
    BY <1>7, SwitchOffMaps DEF ToggleOff, Control!Next
  <1>8. ASSUME NEW v \in Videos, DeleteVideo(v)
        PROVE  [Control!Next]_(Control!vars)
    <2>1. LoopFree /\ UNCHANGED <<ocr, procs>> /\ -v \in Targets
      BY <1>8, IdTypes DEF DeleteVideo
    <2>2. CASE Alive(-v)
      <3>1. stopping \in [feeders : Seq(Targets), ocr : BOOLEAN] /\ stopping.ocr = FALSE
        BY <2>1 DEF IInv, TypeOK, LoopFree
      <3>2. stopping' = [stopping EXCEPT !.feeders = <<-v>>]
        BY <1>8, <2>2 DEF DeleteVideo
      <3>3. stopping' = [feeders |-> <<-v>>, ocr |-> FALSE]
        BY <3>1, <3>2
      <3> QED
        BY <2>1, <2>2, <3>3, SwitchOffMaps DEF Control!Next
    <2>3. CASE ~Alive(-v)
      BY <1>8, <2>1, <2>3, QuietSwitches DEF DeleteVideo, SameFeeders, Live
    <2> QED
      BY <2>2, <2>3
  <1>9. ASSUME NEW v \in Videos, VideoDeleted(v)
        PROVE  [Control!Next]_(Control!vars)
    BY <1>9, QuietSwitches DEF VideoDeleted, SameFeeders, Live
  <1> QED
    BY <1>2, <1>3, <1>4, <1>5, <1>6, <1>7, <1>8, <1>9 DEF Api

\* The first of the stops is done.
LEMMA DueDropped ==
    ASSUME IInv, OnceInv, stopping.feeders # <<>>,
           stopping' = [stopping EXCEPT !.feeders = Tail(stopping.feeders)]
    PROVE  Stopping \in Due /\ Due' = Due \ {Stopping} /\ stopping'.ocr = stopping.ocr
  <1> DEFINE s == stopping.feeders
             r == Tail(s)
  <1>1. stopping \in [feeders : Seq(Targets), ocr : BOOLEAN]
    BY DEF IInv, TypeOK
  <1>2. s \in Seq(Targets) /\ stopping'.feeders = r /\ stopping'.ocr = stopping.ocr
    BY <1>1
  <1>3. /\ 1 \in DOMAIN s /\ Stopping = s[1]
        /\ \A i \in DOMAIN r : i + 1 \in DOMAIN s /\ i + 1 # 1 /\ r[i] = s[i + 1]
        /\ \A i \in DOMAIN s : i # 1 => i - 1 \in DOMAIN r /\ r[i - 1] = s[i]
    <2>1. 1 \in DOMAIN s
      BY <1>2
    <2>2. \A i \in DOMAIN r : i + 1 # 1
      BY <1>2
    <2> QED
      BY <2>1, <2>2, FirstStop
  <1>4. Due = {s[i] : i \in DOMAIN s} /\ Due' = {r[i] : i \in DOMAIN r}
    BY <1>2 DEF Due
  <1>5. \A i \in DOMAIN s : s[i] = s[1] => i = 1
    BY <1>3 DEF OnceInv
  <1> HIDE DEF s, r
  <1>6. Due' \subseteq Due \ {Stopping}
    BY <1>3, <1>4, <1>5
  <1>7. Due \ {Stopping} \subseteq Due'
    BY <1>3, <1>4
  <1> QED
    BY <1>2, <1>3, <1>4, <1>6, <1>7

LEMMA StopMaps ==
    ASSUME IInv, OnceInv, StopSteps
    PROVE  [Control!Next]_(Control!vars)
  <1>1. CASE SignalStop
    BY <1>1, QuietSwitches DEF SignalStop, api, SameFeeders, Live
  <1>2. CASE StopJoins \/ StopTerminates
    <2> DEFINE t == Stopping
    <2>1. /\ stopping.feeders # <<>> /\ ocr' = ocr
          /\ stopping' = [stopping EXCEPT !.feeders = Tail(stopping.feeders)]
      BY <1>2 DEF StopJoins, StopTerminates, Dropped
    <2>2. t \in Targets /\ t \in Due /\ Due' = Due \ {t} /\ stopping'.ocr = stopping.ocr
      BY <2>1, FirstStop, DueDropped
    <2> HIDE DEF t
    <2>3. Feeding' = [Feeding EXCEPT ![t] = {}]
      <3>1. CASE StopJoins
        <4>1. procs' = procs /\ ~Alive(t)
          BY <3>1 DEF StopJoins, t
        <4>2. FeedersOf(t) = {}
          BY <2>2, <4>1, OneFeeder
        <4> QED
          BY <2>2, <4>1, <4>2, FeederGone DEF Live
      <3>2. CASE StopTerminates
        <4> DEFINE k == managers[t].pid
                   dead == [NoProc EXCEPT !.at = "killed"]
        <4>1. Alive(t) /\ procs' = [procs EXCEPT ![k] = dead]
          BY <3>2 DEF StopTerminates, t
        <4>2. k \in FeedersOf(t)
          BY <2>2, <4>1, OneFeeder
        <4>3. FeedersOf(t) = {k} /\ k \in Pids
          BY <2>2, <4>2, OneFeeder DEF FeedersOf
        <4>4. dead.at \in Gone
          BY DEF NoProc, Gone
        <4> HIDE DEF k, dead
        <4>5. /\ procs'[k] = dead
              /\ \A p \in Pids \ {k} : procs'[p] = procs[p]
          BY <4>1, <4>3, Types DEF IInv
        <4> QED
          BY <2>2, <4>3, <4>4, <4>5, FeederGone DEF Live
      <3> QED
        BY <1>2, <3>1, <3>2
    <2>4. Control!Stopped(t)
      BY <2>1, <2>2, <2>3 DEF Control!Stopped
    <2> QED
      BY <2>2, <2>4 DEF Control!Next, Control!Stops
  <1>3. CASE StopOcr
    <2>1. /\ stopping = [feeders |-> <<>>, ocr |-> TRUE]
          /\ stopping' = [stopping EXCEPT !.ocr = FALSE]
          /\ ocr' = FALSE /\ procs' = procs
      BY <1>3 DEF StopOcr
    <2>2. Due = {} /\ Due' = {} /\ stopping.ocr /\ stopping'.ocr = FALSE
      BY <2>1 DEF Due
    <2>3. \A p \in Pids : ~Live(p)
      BY <2>1 DEF IInv, StopInv
    <2>4. Control!On = {}
      BY <2>3, OneFeeder, OnIsAlive DEF FeedersOf
    <2>5. Feeding' = Feeding
      BY <2>1, FeedingKept DEF SameFeeders, Live
    <2>6. Control!AllStopped
      BY <2>1, <2>2, <2>4, <2>5 DEF Control!AllStopped
    <2> QED
      BY <2>6 DEF Control!Next, Control!Stops
  <1> QED
    BY <1>1, <1>2, <1>3 DEF StopSteps

\* A step of a feeder changes its own place; at most its end is seen from outside.
LEMMA FeederMaps ==
    ASSUME IInv, NEW p \in Pids, Feeder(p)
    PROVE  [Control!Next]_(Control!vars)
  <1>1. UNCHANGED <<stopping, ocr>>
    BY DEF Feeder, Lookup, Overwrite, Insert, StartRaises, SourceEnds, NoticesStop, RunRaises,
           Close, CloseRaises, Fail, api
  <1>2. procs[p].at \notin Gone
    BY DEF Feeder, Lookup, Overwrite, Insert, StartRaises, SourceEnds, NoticesStop, RunRaises,
           Close, CloseRaises, Fail, Gone
  <1>3. procs \in [Pids -> Proc] /\ procs[p] \in Proc
    BY Types DEF IInv
  <1>4. \/ /\ procs'[p].at \notin Gone
           /\ procs'[p].target = procs[p].target
        \/ procs'[p].at = "exited"
    <2>1. CASE Lookup(p) \/ Insert(p) \/ StartRaises(p) \/ NoticesStop(p) \/ RunRaises(p)
               \/ CloseRaises(p)
      BY <1>3, <2>1 DEF Lookup, Insert, StartRaises, NoticesStop, RunRaises, CloseRaises, Move,
                        Proc, Gone
    <2>2. CASE Overwrite(p)
      <3>1. procs'[p] = [procs[p] EXCEPT !.at = "run"]
        BY <2>2, TouchedKeeps DEF Overwrite
      <3> QED
        BY <1>3, <3>1 DEF Proc, Gone
    <2>3. CASE SourceEnds(p) \/ Close(p) \/ Fail(p)
      BY <1>3, <2>3 DEF SourceEnds, Close, Fail, WriteAndMove, Proc, Gone
    <2> QED
      BY <2>1, <2>2, <2>3 DEF Feeder
  <1>5. ASSUME NEW q \in Pids, q # p
        PROVE  procs'[q].at = procs[q].at /\ procs'[q].target = procs[q].target
    <2>1. CASE Overwrite(p)
      <3>1. procs'[q] = Touched({procs[p].target})[q]
        BY <1>5, <2>1, TouchedKeeps DEF Overwrite
      <3> QED
        BY <3>1, TouchedKeeps
    <2>2. CASE ~Overwrite(p)
      BY <1>3, <1>5, <2>2 DEF Feeder, Lookup, Insert, StartRaises, NoticesStop, RunRaises,
                       CloseRaises, SourceEnds, Close, Fail, WriteAndMove, Move
    <2> QED
      BY <2>1, <2>2
  <1>6. CASE procs'[p].at \notin Gone /\ procs'[p].target = procs[p].target
    <2>1. SameFeeders
      BY <1>2, <1>5, <1>6 DEF SameFeeders, Live
    <2> QED
      BY <1>1, <2>1, QuietSwitches
  <1>7. CASE procs'[p].at = "exited"
    <2> DEFINE t == procs[p].target
    <2>1. t \in Targets /\ p \in FeedersOf(t)
      BY <1>2 DEF IInv, WriterInv, Live, FeedersOf
    <2>2. FeedersOf(t) = {p} /\ Alive(t)
      BY <2>1, OneFeeder
    <2> HIDE DEF t
    <2>3. ~Live(p)'
      BY <1>7 DEF Live, Gone
    <2>4. Feeding' = [Feeding EXCEPT ![t] = {}]
      BY <1>5, <2>1, <2>2, <2>3, FeederGone DEF Live
    <2>5. Control!Ends(t)
      BY <1>1, <2>1, <2>2, <2>4, OnIsAlive DEF Control!Ends, Due
    <2> QED
      BY <2>1, <2>5 DEF Control!Next
  <1> QED
    BY <1>4, <1>6, <1>7

LEMMA AdminMaps ==
    ASSUME IInv, Admin
    PROVE  UNCHANGED Control!vars
  <1>1. UNCHANGED <<stopping, ocr>>
    BY DEF Admin, AddCamera, EditUrl, EditStatus, DeleteCamera, DeleteAll, api
  <1>2. procs' = procs \/ \E ids \in SUBSET CameraIds : procs' = Touched(ids)
    BY DEF Admin, AddCamera, EditUrl, EditStatus, DeleteCamera, DeleteAll
  <1>3. SameFeeders
    BY <1>2, TouchedKeeps DEF SameFeeders, Live
  <1> QED
    BY <1>1, <1>3, QuietSwitches

LEMMA StepMaps ==
    ASSUME IInv, OnceInv, [Next]_vars
    PROVE  [Control!Next]_(Control!vars)
  <1>1. CASE UNCHANGED vars
    BY <1>1, QuietSwitches DEF vars, api, SameFeeders, Live
  <1> QED
    BY <1>1, ApiMaps, StopMaps, FeederMaps, AdminMaps DEF Next

LEMMA InitMaps ==
    ASSUME Init
    PROVE  Control!Init
  <1>1. \A p \in Pids : ~Live(p)
    BY NoProcIsGone DEF Init, Live
  <1>2. Feeding = [t \in Targets |-> {}]
    BY <1>1 DEF Feeding, FeedersOf
  <1>3. Due = {} /\ stopping.ocr = FALSE /\ ocr = FALSE
    BY DEF Init, Due
  <1> QED
    BY <1>2, <1>3 DEF Control!Init

\* The managers are listed once, so "stop all" asks each of them once.
LEMMA OnceStep ==
    ASSUME IInv, OnceInv, [Next]_vars
    PROVE  OnceInv'
  <1>1. CASE stopping' = stopping
    BY <1>1 DEF OnceInv
  <1>2. CASE ScanOff
    BY <1>2 DEF ScanOff, OnceInv, IInv, TypeOK
  <1>3. ASSUME NEW t, stopping'.feeders = <<t>>
        PROVE  OnceInv'
    BY <1>3 DEF OnceInv
  <1>4. CASE StopJoins \/ StopTerminates
    <2> DEFINE s == stopping.feeders
               r == Tail(s)
    <2>1. s # <<>> /\ stopping' = [stopping EXCEPT !.feeders = r]
      BY <1>4 DEF StopJoins, StopTerminates, Dropped
    <2>2. s \in Seq(Targets) /\ stopping'.feeders = r
      BY <2>1 DEF IInv, TypeOK
    <2>3. r \in Seq(Targets) /\ \A i \in DOMAIN r : i + 1 \in DOMAIN s /\ r[i] = s[i + 1]
      BY <2>1, FirstStop
    <2>4. \A i \in DOMAIN r : i \in Nat
      BY <2>3
    <2>5. \A i, j \in DOMAIN s : s[i] = s[j] => i = j
      BY DEF OnceInv
    <2> HIDE DEF s, r
    <2>6. ASSUME NEW i \in DOMAIN r, NEW j \in DOMAIN r, r[i] = r[j]
          PROVE  i = j
      <3>1. i + 1 = j + 1
        BY <2>3, <2>5, <2>6
      <3> QED
        BY <2>4, <3>1
    <2> QED
      BY <2>2, <2>6 DEF OnceInv
  <1>5. CASE StopOcr
    BY <1>5 DEF StopOcr, OnceInv
  <1>6. CASE UNCHANGED vars
    BY <1>1, <1>6 DEF vars, api
  <1>7. CASE Api
    <2>1. ASSUME NEW v \in Videos, DeleteVideo(v)
          PROVE  OnceInv'
      <3>1. stopping' = stopping \/ stopping'.feeders = <<-v>>
        BY <2>1 DEF DeleteVideo, IInv, TypeOK
      <3> QED
        BY <1>1, <1>3, <3>1
    <2>2. ASSUME NEW t \in Targets, ToggleOff(t)
          PROVE  OnceInv'
      BY <1>3, <2>2 DEF ToggleOff
    <2>3. ASSUME NEW v \in Videos, VideoDeleted(v) \/ ToggleVideo(v)
          PROVE  OnceInv'
      BY <1>1, <2>3 DEF VideoDeleted, ToggleVideo, ToggleOn
    <2>4. CASE ScanOn \/ (\E c \in CameraIds : ToggleCamera(c))
               \/ (\E t \in Targets : ToggleKnown(t))
      BY <1>1, <2>4 DEF ScanOn, ToggleCamera, ToggleKnown, ToggleOn
    <2> QED
      BY <1>2, <1>7, <2>1, <2>2, <2>3, <2>4 DEF Api
  <1>8. CASE SignalStop \/ Admin \/ \E p \in Pids : Feeder(p)
    BY <1>1, <1>8 DEF SignalStop, Admin, AddCamera, EditUrl, EditStatus, DeleteCamera, DeleteAll,
          Feeder, Lookup, Overwrite, Insert, StartRaises, SourceEnds, NoticesStop, RunRaises,
          Close, CloseRaises, Fail, api
  <1> QED
    BY <1>2, <1>4, <1>5, <1>6, <1>7, <1>8 DEF Next, StopSteps

\* The endpoints, the managers and the processes are switches: every step of them, of an
\* administrator and of the table is one of FeederControl's or none. A target never has two
\* feeders, none ends but by itself or at its stop, and "stop all" leaves none, for any
\* cameras, videos and number of starts. (Controls has the fairness too, which only the run
\* checks.)
THEOREM StepsOfControl == Spec => Control!Init /\ [][Control!Next]_(Control!vars)
  <1>1. Init => OnceInv /\ Control!Init
    <2> SUFFICES ASSUME Init
                 PROVE  OnceInv /\ Control!Init
      OBVIOUS
    <2>1. stopping.feeders = <<>>
      BY DEF Init
    <2>2. OnceInv
      BY <2>1 DEF OnceInv
    <2> QED
      BY <2>2, InitMaps
  <1>2. IInv /\ OnceInv /\ [Next]_vars => OnceInv'
    BY OnceStep
  <1>3. IInv /\ OnceInv /\ [Next]_vars => [Control!Next]_(Control!vars)
    BY StepMaps
  <1> QED
    BY <1>1, <1>2, <1>3, Invariance, PTL DEF Spec

\* What FeederControl alone says of its readers, for all that implements it.
LEMMA ReadersStay ==
    ASSUME Control!On # {} => ocr, [Control!Next]_(Control!vars)
    PROVE  (Control!On # {} => ocr)'
  <1>1. CASE UNCHANGED Control!vars
    BY <1>1 DEF Control!vars, Control!On
  <1>2. CASE Control!OcrOn \/ \E t \in Targets : Control!SwitchOn(t)
    BY <1>2 DEF Control!OcrOn, Control!SwitchOn
  <1>3. CASE Control!SwitchAllOff \/ \E t \in Targets : Control!SwitchOff(t)
    BY <1>3 DEF Control!SwitchAllOff, Control!SwitchOff, Control!On
  <1>4. ASSUME NEW t \in Targets, Control!Ends(t) \/ Control!Stopped(t)
        PROVE  (Control!On # {} => ocr)'
    <2>1. Feeding' = [Feeding EXCEPT ![t] = {}] /\ ocr' = ocr
      BY <1>4 DEF Control!Ends, Control!Stopped
    <2>2. \A u \in Targets : Feeding'[u] # {} => Feeding[u] # {}
      BY <2>1 DEF Feeding
    <2> QED
      BY <2>1, <2>2 DEF Control!On
  <1>5. CASE Control!AllStopped
    BY <1>5 DEF Control!AllStopped, Control!On
  <1> QED
    BY <1>1, <1>2, <1>3, <1>4, <1>5 DEF Control!Next, Control!Stops

\* Whenever a feeder is alive the OCR workers have been started and not stopped since, so
\* what it collects is read: no order of switches, ends and "stop all" leaves a feeder
\* filling a queue nobody empties. It follows from FeederControl alone.
THEOREM FeedersAreRead == Spec => []((\E p \in Pids : Live(p)) => ocr)
  <1>1. Control!Init => (Control!On # {} => ocr)
    BY DEF Control!Init, Control!On
  <1>2. (Control!On # {} => ocr) /\ [Control!Next]_(Control!vars) => (Control!On # {} => ocr)'
    BY ReadersStay
  <1>3. IInv /\ (Control!On # {} => ocr) => ((\E p \in Pids : Live(p)) => ocr)
    <2> SUFFICES ASSUME IInv, Control!On # {} => ocr, NEW p \in Pids, Live(p)
                 PROVE  ocr
      OBVIOUS
    <2>1. procs[p].target \in Targets /\ p \in FeedersOf(procs[p].target)
      BY DEF IInv, WriterInv, FeedersOf
    <2>2. Alive(procs[p].target)
      BY <2>1, OneFeeder
    <2> QED
      BY <2>1, <2>2, OnIsAlive
  <1> QED
    BY <1>1, <1>2, <1>3, Invariance, StepsOfControl, PTL

===============================================================================
