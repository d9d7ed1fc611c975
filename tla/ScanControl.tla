------------------------------ MODULE ScanControl ------------------------------
(***************************************************************************)
(* Who runs: the scan endpoints of the API server (api/main.py), the       *)
(* CameraFeederProcess managers (pipeline/multiprocessing_workers.py), the *)
(* feeder processes as the managers and the cameras table see them         *)
(* (main.py, CameraEdgeFeeder.ensure_camera_row), and what administrators  *)
(* do to cameras and videos meanwhile (api/routes_cameras.py,              *)
(* api/routes_videos.py).                                                  *)
(*                                                                         *)
(* The scan endpoints are coroutines, but a manager's stop joins the       *)
(* process without awaiting: until it returns, no other coroutine runs.    *)
(* The camera routes run in threads and the feeders in processes: their    *)
(* steps, one per statement on the table, interleave with everything.      *)
(***************************************************************************)
EXTENDS Integers, Sequences

CONSTANTS
    Videos,     \* ids of the uploaded videos, positive
    Streams,    \* stream URLs of cameras
    Path,       \* the file path of each video
    MaxId,      \* bound of the model: camera ids the table gives out
    MaxStarts,  \* bound of the model: processes started
    MaxAdmin    \* bound of the model: changes administrators make

ASSUME ScanAssumption ==
    /\ Videos \subseteq Nat \ {0}
    /\ Streams # {}
    /\ DOMAIN Path = Videos
    /\ MaxId \in Nat \ {0}
    /\ MaxStarts \in Nat
    /\ MaxAdmin \in Nat

CameraIds == 1..MaxId
Targets == CameraIds \cup {-v : v \in Videos}    \* CameraFeederProcess.camera_id
Pids == 1..MaxStarts
Urls == Streams \cup {Path[v] : v \in Videos}

NoRow == [url |-> "none", status |-> "none", by |-> 0]
NoManager == [url |-> "none", pid |-> 0, stop |-> FALSE]
NoProc == [at |-> "unborn", target |-> 0, url |-> "none", self |-> 0,
           raised |-> FALSE, lost |-> FALSE, touched |-> FALSE]

VARIABLES
    rows,      \* the table cameras; by is a ghost, the process that last wrote the status
    nextId,    \* its AUTO_INCREMENT
    videos,    \* the rows of table video_files
    deleting,  \* the videos whose delete request sleeps after stopping the feeder
    workers,   \* app.state.workers, as the targets of the managers
    managers,  \* each manager's URL, process and stop event
    procs,     \* the processes; lost and touched are ghosts
    started,   \* how many processes were started
    ocr,       \* are the OCR workers up?
    stopping,  \* the stops that the event loop is busy with: feeders, and then OCR workers?
    admin      \* how many changes administrators made

table == <<rows, nextId>>
api == <<videos, deleting, workers, ocr, stopping>>
vars == <<table, api, managers, procs, started, admin>>

Init ==
    /\ \E url \in Streams :
          rows = [c \in CameraIds |-> IF c = 1 THEN [url |-> url, status |-> "active", by |-> 0]
                                               ELSE NoRow]
    /\ nextId = 2
    /\ videos = Videos
    /\ deleting = {}
    /\ workers = <<>>
    /\ managers = [t \in Targets |-> NoManager]
    /\ procs = [p \in Pids |-> NoProc]
    /\ started = 0
    /\ ocr = FALSE
    /\ stopping = [feeders |-> <<>>, ocr |-> FALSE]
    /\ admin = 0

Gone == {"unborn", "exited", "killed"}
Live(p) == procs[p].at \notin Gone
Alive(t) == managers[t].pid # 0 /\ Live(managers[t].pid)
HasManager(t) == managers[t] # NoManager

-------------------------------------------------------------------------------
(* The scan endpoints *)

\* Mutant: stop awaits its join in a thread, so other coroutines run meanwhile.
LoopNeverBusy == TRUE

LoopFree == stopping.feeders = <<>> /\ ~stopping.ocr

Enlisted(t) == IF HasManager(t) THEN workers ELSE Append(workers, t)

\* toggle_scan_camera and toggle_scan_video, on: the manager is found or made, with the URL
\* of this moment; the OCR workers and the feeder are started unless they are alive.
ToggleOn(t, url) ==
    /\ LoopFree
    /\ ocr' = TRUE
    /\ workers' = Enlisted(t)
    /\ IF Alive(t)
       THEN UNCHANGED <<managers, procs, started>>
       ELSE /\ started < MaxStarts
            /\ started' = started + 1
            /\ managers' = [managers EXCEPT ![t] = [url |-> url, pid |-> started + 1,
                                                    stop |-> FALSE]]
            /\ procs' = [procs EXCEPT ![started + 1] =
                  [NoProc EXCEPT !.at = "lookup", !.target = t, !.url = url, !.self = t]]
    /\ UNCHANGED <<table, videos, deleting, stopping, admin>>

\* A manager that exists is used as it is, without a look at the table.
ToggleKnown(t) == HasManager(t) /\ ToggleOn(t, managers[t].url)

ToggleCamera(c) == ~HasManager(c) /\ rows[c] # NoRow /\ ToggleOn(c, rows[c].url)

ToggleVideo(v) == ~HasManager(-v) /\ v \in videos /\ ToggleOn(-v, Path[v])

\* toggle_scan, on: only the OCR workers.
ScanOn ==
    /\ LoopFree
    /\ ~ocr
    /\ ocr' = TRUE
    /\ UNCHANGED <<table, videos, deleting, workers, stopping, managers, procs, started, admin>>

\* toggle_scan_camera and toggle_scan_video, off.
ToggleOff(t) ==
    /\ LoopFree
    /\ Alive(t)
    /\ stopping' = [feeders |-> <<t>>, ocr |-> FALSE]
    /\ UNCHANGED <<table, videos, deleting, workers, ocr, managers, procs, started, admin>>

\* toggle_scan, off: "Stop all workers".
ScanOff ==
    /\ LoopFree
    /\ stopping' = [feeders |-> workers, ocr |-> TRUE]
    /\ UNCHANGED <<table, videos, deleting, workers, ocr, managers, procs, started, admin>>

\* delete_video_route: the feeder is stopped if it is alive, and after half a second, in
\* which other coroutines run, file and row go.
DeleteVideo(v) ==
    /\ LoopFree
    /\ v \in videos \ deleting
    /\ deleting' = deleting \cup {v}
    /\ stopping' = IF Alive(-v) THEN [stopping EXCEPT !.feeders = <<-v>>] ELSE stopping
    /\ UNCHANGED <<table, videos, workers, ocr, managers, procs, started, admin>>

VideoDeleted(v) ==
    /\ LoopFree
    /\ v \in deleting
    /\ videos' = videos \ {v}
    /\ deleting' = deleting \ {v}
    /\ UNCHANGED <<table, workers, ocr, stopping, managers, procs, started, admin>>

-------------------------------------------------------------------------------
(* CameraFeederProcess.stop, called from the event loop *)

Stopping == Head(stopping.feeders)

\* The manager drops its process, and the next stop begins.
Dropped ==
    /\ managers' = [managers EXCEPT ![Stopping].pid = 0]
    /\ stopping' = [stopping EXCEPT !.feeders = Tail(@)]

SignalStop ==
    /\ stopping.feeders # <<>>
    /\ ~managers[Stopping].stop
    /\ managers' = [managers EXCEPT ![Stopping].stop = TRUE]
    /\ UNCHANGED <<table, api, procs, started, admin>>

\* Mutant: stop drops the process without a join.
StopForgets ==
    /\ stopping.feeders # <<>>
    /\ managers[Stopping].stop
    /\ Dropped
    /\ UNCHANGED <<table, videos, deleting, workers, ocr, procs, started, admin>>

\* join returns in time, or there was nothing to join.
StopJoins ==
    /\ stopping.feeders # <<>>
    /\ managers[Stopping].stop
    /\ ~Alive(Stopping)
    /\ Dropped
    /\ UNCHANGED <<table, videos, deleting, workers, ocr, procs, started, admin>>

\* Mutant: join has no timeout.
StopNeverTerminates == FALSE /\ UNCHANGED vars

\* After 5 seconds the process is terminated; what it had still to write stays unwritten.
StopTerminates ==
    /\ stopping.feeders # <<>>
    /\ managers[Stopping].stop
    /\ Alive(Stopping)
    /\ procs' = [procs EXCEPT ![managers[Stopping].pid] = [NoProc EXCEPT !.at = "killed"]]
    /\ Dropped
    /\ UNCHANGED <<table, videos, deleting, workers, ocr, started, admin>>

\* The OCR workers' managers do the same; what a worker loses by it is OcrWorkers' subject.
StopOcr ==
    /\ stopping = [feeders |-> <<>>, ocr |-> TRUE]
    /\ ocr' = FALSE
    /\ stopping' = [stopping EXCEPT !.ocr = FALSE]
    /\ UNCHANGED <<table, videos, deleting, workers, managers, procs, started, admin>>

StopSteps == SignalStop \/ StopJoins \/ StopTerminates \/ StopOcr

-------------------------------------------------------------------------------
(* A feeder process *)

Move(p, at) == procs' = [procs EXCEPT ![p].at = at]

\* ensure_camera_row reads the row of the manager's id.
Lookup(p) ==
    /\ procs[p].at = "lookup"
    /\ LET row == IF procs[p].target \in CameraIds THEN rows[procs[p].target] ELSE NoRow
           next == IF row = NoRow THEN "insert"
                   ELSE IF row.url = procs[p].url THEN "run" ELSE "update"
       IN procs' = [procs EXCEPT ![p].at = next, ![p].touched = FALSE]
    /\ UNCHANGED <<table, api, managers, started, admin>>

\* The feeders that report under one of these ids lose their row, or find it changed.
Touched(ids) == [p \in Pids |-> [procs[p] EXCEPT
                    !.touched = @ \/ (Live(p) /\ procs[p].self \in ids)]]

\* The row has another URL: the process's own goes into the table, if the row is still there.
\* It may by then be the row of another feeder, since delete_all_cameras has ids reused.
Overwrite(p) ==
    /\ procs[p].at = "update"
    /\ LET c == procs[p].target IN
       rows' = IF rows[c] = NoRow THEN rows ELSE [rows EXCEPT ![c].url = procs[p].url]
    /\ procs' = [Touched({procs[p].target}) EXCEPT ![p] = [procs[p] EXCEPT !.at = "run"]]
    /\ UNCHANGED <<nextId, api, managers, started, admin>>

\* Mutant: the feeder goes on reporting under the manager's id.
InsertKeepsId(p) ==
    /\ procs[p].at = "insert"
    /\ nextId <= MaxId
    /\ rows' = [rows EXCEPT ![nextId] = [url |-> procs[p].url, status |-> "active", by |-> 0]]
    /\ nextId' = nextId + 1
    /\ procs' = [procs EXCEPT ![p].at = "run", ![p].touched = FALSE]
    /\ UNCHANGED <<api, managers, started, admin>>

\* There is no row: one is inserted, and the feeder reports under its id.
Insert(p) ==
    /\ procs[p].at = "insert"
    /\ nextId <= MaxId
    /\ rows' = [rows EXCEPT ![nextId] = [url |-> procs[p].url, status |-> "active", by |-> 0]]
    /\ nextId' = nextId + 1
    /\ procs' = [procs EXCEPT ![p].at = "run", ![p].self = nextId, ![p].touched = FALSE]
    /\ UNCHANGED <<api, managers, started, admin>>

\* Loading a model or a statement on the table raises, before run_edge_feeder's try block.
StartRaises(p) ==
    /\ procs[p].at \in {"lookup", "update", "insert"}
    /\ procs' = [procs EXCEPT ![p].at = "failing", ![p].raised = TRUE]
    /\ UNCHANGED <<table, api, managers, started, admin>>

\* update_camera_status, of the manager's id whatever id the feeder reports under, and on to
\* the next statement; the callers swallow its exceptions, so the write may be lost.
WriteAndMove(p, status, at) ==
    LET c == procs[p].target
        written == c \in CameraIds /\ rows[c] # NoRow
    IN \E lost \in {FALSE, written} :
          /\ rows' = IF written /\ ~lost
                     THEN [rows EXCEPT ![c].status = status, ![c].by = p] ELSE rows
          /\ procs' = [procs EXCEPT ![p].at = at, ![p].lost = lost]

\* The loop of run_edge_feeder sees the end of its source, ...
SourceEnds(p) ==
    /\ procs[p].at = "run"
    /\ WriteAndMove(p, "inactive", "closing")
    /\ UNCHANGED <<nextId, api, managers, started, admin>>

\* ... or the stop event, ...
NoticesStop(p) ==
    /\ procs[p].at = "run"
    /\ managers[procs[p].target].stop
    /\ Move(p, "closing")
    /\ UNCHANGED <<table, api, managers, started, admin>>

\* ... or raises.
RunRaises(p) ==
    /\ procs[p].at = "run"
    /\ procs' = [procs EXCEPT ![p].at = "closing", ![p].raised = TRUE]
    /\ UNCHANGED <<table, api, managers, started, admin>>

\* The finally block flushes the tracks and reports; an exception of the run goes on to the
\* wrapper. The process is gone when its queues' threads are done too.
Close(p) ==
    /\ procs[p].at = "closing"
    /\ WriteAndMove(p, "inactive", IF procs[p].raised THEN "failing" ELSE "exited")
    /\ UNCHANGED <<nextId, api, managers, started, admin>>

\* Flushing the tracks or releasing the source raises: the report is skipped.
CloseRaises(p) ==
    /\ procs[p].at = "closing"
    /\ procs' = [procs EXCEPT ![p].at = "failing", ![p].raised = TRUE]
    /\ UNCHANGED <<table, api, managers, started, admin>>

\* Mutant: the exception reaches the wrapper and nothing is reported.
FailUnreported(p) ==
    /\ procs[p].at = "failing"
    /\ Move(p, "exited")
    /\ UNCHANGED <<table, api, managers, started, admin>>

\* _run_wrapper reports the exception.
Fail(p) ==
    /\ procs[p].at = "failing"
    /\ WriteAndMove(p, "error", "exited")
    /\ UNCHANGED <<nextId, api, managers, started, admin>>

Feeder(p) ==
    \/ Lookup(p) \/ Overwrite(p) \/ Insert(p) \/ StartRaises(p)
    \/ SourceEnds(p) \/ NoticesStop(p) \/ RunRaises(p)
    \/ Close(p) \/ CloseRaises(p) \/ Fail(p)

-------------------------------------------------------------------------------
(* The camera routes: administrators change the table, in threads of their own *)

AddCamera(url) ==
    /\ admin < MaxAdmin
    /\ nextId <= MaxId
    /\ rows' = [rows EXCEPT ![nextId] = [url |-> url, status |-> "active", by |-> 0]]
    /\ nextId' = nextId + 1
    /\ admin' = admin + 1
    /\ UNCHANGED <<api, managers, procs, started>>

EditUrl(c, url) ==
    /\ admin < MaxAdmin
    /\ rows[c] # NoRow
    /\ rows' = [rows EXCEPT ![c].url = url]
    /\ procs' = Touched({c})
    /\ admin' = admin + 1
    /\ UNCHANGED <<nextId, api, managers, started>>

EditStatus(c) ==
    /\ admin < MaxAdmin
    /\ rows[c] # NoRow
    /\ rows' = [rows EXCEPT ![c].status = "active", ![c].by = 0]
    /\ admin' = admin + 1
    /\ UNCHANGED <<nextId, api, managers, procs, started>>

DeleteCamera(c) ==
    /\ admin < MaxAdmin
    /\ rows[c] # NoRow
    /\ rows' = [rows EXCEPT ![c] = NoRow]
    /\ procs' = Touched({c})
    /\ admin' = admin + 1
    /\ UNCHANGED <<nextId, api, managers, started>>

\* delete_all_cameras sets the AUTO_INCREMENT back, so the ids are given out again.
DeleteAll ==
    /\ admin < MaxAdmin
    /\ rows' = [c \in CameraIds |-> NoRow]
    /\ nextId' = 1
    /\ procs' = Touched(CameraIds)
    /\ admin' = admin + 1
    /\ UNCHANGED <<api, managers, started>>

-------------------------------------------------------------------------------

Api ==
    \/ ScanOn \/ ScanOff
    \/ \E c \in CameraIds : ToggleCamera(c)
    \/ \E v \in Videos : ToggleVideo(v) \/ DeleteVideo(v) \/ VideoDeleted(v)
    \/ \E t \in Targets : ToggleKnown(t) \/ ToggleOff(t)

Admin ==
    \/ \E url \in Streams : AddCamera(url) \/ \E c \in CameraIds : EditUrl(c, url)
    \/ \E c \in CameraIds : EditStatus(c) \/ DeleteCamera(c)
    \/ DeleteAll

Next ==
    \/ Api
    \/ StopSteps
    \/ \E p \in Pids : Feeder(p)
    \/ Admin

\* A join has a timeout, so a stop goes on by itself; nothing makes a feeder go on.
Spec == Init /\ [][Next]_vars /\ WF_vars(StopSteps)

-------------------------------------------------------------------------------
(* Properties *)

Places == {"lookup", "update", "insert", "run", "closing", "failing"} \cup Gone

\* The values have their types, and app.state.workers lists each manager once.
TypeOK ==
    /\ DOMAIN rows = CameraIds
    /\ \A c \in CameraIds : rows[c] = NoRow \/ rows[c] \in
          [url : Urls, status : {"active", "inactive", "error"}, by : Pids \cup {0}]
    /\ nextId \in 1..(MaxId + 1)
    /\ deleting \subseteq videos /\ videos \subseteq Videos
    /\ workers \in Seq(Targets)
    /\ \A i, j \in DOMAIN workers : workers[i] = workers[j] => i = j
    /\ DOMAIN managers = Targets
    /\ \A t \in Targets : managers[t] \in
          [url : Urls \cup {"none"}, pid : Pids \cup {0}, stop : BOOLEAN]
    /\ procs \in [Pids -> [at : Places, target : Targets \cup {0}, url : Urls \cup {"none"},
          self : Targets \cup {0}, raised : BOOLEAN, lost : BOOLEAN, touched : BOOLEAN]]
    /\ started \in 0..MaxStarts
    /\ ocr \in BOOLEAN
    /\ stopping \in [feeders : Seq(Targets), ocr : BOOLEAN]
    /\ admin \in 0..MaxAdmin

\* No feeder runs out of the API's sight: a process that is alive is the one that its
\* manager holds, and the manager is in the list that "stop all" goes through. A process
\* dropped while alive could be neither stopped nor shown, and a second one would be
\* started beside it on the same camera.
EveryFeederIsManaged ==
    \A p \in Pids : Live(p) =>
       /\ managers[procs[p].target].pid = p
       /\ \E i \in DOMAIN workers : workers[i] = procs[p].target

\* When "stop all" comes to its end no feeder is alive and no OCR worker is up, whatever was
\* asked for while the stops waited for their joins.
StopAllStopsAll ==
    [][stopping.ocr /\ ~stopping.ocr' => ~ocr' /\ \A p \in Pids : procs'[p].at \in Gone]_vars

\* A status that a feeder was the last to write tells how that feeder ended: "error" if it
\* raised, "inactive" if not, though both may have been written on the way out. A feeder
\* that lost its last report to the database is excepted.
StatusTellsExit ==
    \A c \in CameraIds : rows[c].by # 0 =>
       LET p == procs[rows[c].by]
       IN p.at = "exited" /\ ~p.lost => rows[c].status = IF p.raised THEN "error" ELSE "inactive"

\* A feeder reads its source under the id of a row that is in the table with the URL it
\* reads, unless an administrator or another feeder has changed that row since: detections
\* have a foreign key on that row.
OwnRow ==
    \A p \in Pids : procs[p].at = "run" /\ ~procs[p].touched =>
       /\ procs[p].self \in CameraIds
       /\ rows[procs[p].self].url = procs[p].url

\* The processes that scan a target, whether a manager knows them or not.
FeedersOf(t) == {p \in Pids : Live(p) /\ procs[p].target = t}

Feeding == [t \in Targets |-> FeedersOf(t)]

Due == {stopping.feeders[i] : i \in DOMAIN stopping.feeders}

Control == INSTANCE FeederControl WITH
    Feeders <- Pids, feeders <- Feeding, due <- Due, all <- stopping.ocr

\* The endpoints, managers and processes together are switches that work: at most one feeder
\* per target, one for each that is switched on, none killed that was not asked to stop,
\* none left after "stop all", and every stop ends, so that the event loop comes free again
\* although feeders hang.
Controls == Control!Spec

===============================================================================
