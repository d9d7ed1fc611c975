------------------------------ MODULE EdgeFeeder ------------------------------
(***************************************************************************)
(* One camera feeder process: the frame loop run_edge_feeder (main.py),    *)
(* the TrackManager it fills (detection/track_manager.py) and the triage   *)
(* into the fast and the heavy OCR queue, _push_to_queue                   *)
(* (pipeline/detection_pipeline.py).                                       *)
(*                                                                         *)
(* A crop is abstracted to its sharpness, the variance of its Laplacian,   *)
(* which the code computes twice: to call the crop blurry and, for the     *)
(* best crop of a finalized track, to choose the queue.                    *)
(***************************************************************************)
EXTENDS Integers, Sequences, FiniteSets

CONSTANTS
    Vehicles,        \* the vehicles whose plates the camera sees
    Addresses,       \* the values id(box) can take
    HasTracker,      \* does the detector number the tracks (YOLO) or never (the default)?
    Scores,          \* the sharpness a crop can have
    Threshold,       \* sharpness_threshold, also the blur score of the triage
    StaleAfter,      \* stale_after_frames
    MaxCrops,        \* max_crops
    SampleInterval,  \* feeder.sample_interval
    QueueMax,        \* maxsize of an OCR queue
    MaxFrame,        \* bound of the model: frames the source delivers
    MaxBoxes         \* bound of the model: plates in one frame

ASSUME FeederAssumption ==
    /\ HasTracker \in BOOLEAN
    /\ Scores \subseteq Nat
    /\ Threshold \in Nat \ {0}
    /\ StaleAfter \in Nat
    /\ MaxCrops \in Nat \ {0}
    /\ SampleInterval \in Nat \ {0}
    /\ QueueMax \in Nat \ {0}
    /\ MaxFrame \in Nat
    /\ MaxBoxes \in Nat

NoAddress == "no address"
Ids == Vehicles \cup Addresses
Queues == {"fast", "heavy"}

VARIABLES
    pc,         \* where the feeder is
    frame,      \* frame_idx
    tracks,     \* TrackManager._tracks; no entry is total = 0
    pending,    \* the finalized tracks the current for loop has still to push
    queue,      \* the two multiprocessing queues
    stopEvent,  \* CameraFeederProcess._stop_event
    oldBoxes,   \* addresses of the boxes of the frame before, still referenced
    boxes,      \* addresses of the boxes of this frame
    box,        \* the loop variable, which outlives its loop
    accepted,   \* ghost: how often TrackManager.update was called
    gone        \* ghost: the detections that a worker took, or that were dropped or killed

heap == <<oldBoxes, boxes, box>>
vars == <<pc, frame, tracks, pending, queue, stopEvent, heap, accepted, gone>>

-------------------------------------------------------------------------------
(* TrackManager *)

NoTrack == [total |-> 0, blurry |-> 0, crops |-> 0, best |-> 0, last |-> 0,
            dets |-> {}, vehicles |-> {}]

Tracks == [total : Nat, blurry : Nat, crops : Nat, best : Nat, last : Nat,
           dets : SUBSET Nat, vehicles : SUBSET Vehicles]

IsSharp(score) == score >= Threshold

\* TrackManager.update on the track's record. Two ghosts: dets numbers the detections it
\* aggregates, vehicles says of whom.
Updated(t, veh, score) ==
    [total    |-> t.total + 1,
     blurry   |-> IF IsSharp(score) THEN t.blurry ELSE t.blurry + 1,
     crops    |-> IF IsSharp(score) /\ t.crops < MaxCrops THEN t.crops + 1 ELSE t.crops,
     best     |-> IF score > t.best THEN score ELSE t.best,
     last     |-> frame,
     dets     |-> t.dets \cup {accepted + 1},
     vehicles |-> t.vehicles \cup {veh}]

Live(ts) == {i \in Ids : ts[i].total > 0}

\* Mutant: a track without a sharp crop never goes stale.
StaleOnlyWithCrops(now) ==
    {i \in Live(tracks) : now - tracks[i].last > StaleAfter /\ tracks[i].crops > 0}

Stale(now) == {i \in Live(tracks) : now - tracks[i].last > StaleAfter}

Keep(ts, S) == [i \in Ids |-> IF i \in S THEN ts[i] ELSE NoTrack]

\* finalize_stale (S the stale ids) and flush_all (S every id).
Finalize(S) ==
    /\ pending' = Keep(tracks, S)
    /\ tracks' = Keep(tracks, Ids \ S)

Detections(ts) == UNION {ts[i].dets : i \in Ids}

-------------------------------------------------------------------------------
(* The frame loop *)

Init ==
    /\ pc = "read"
    /\ frame = 0
    /\ tracks = [i \in Ids |-> NoTrack]
    /\ pending = [i \in Ids |-> NoTrack]
    /\ queue = [q \in Queues |-> <<>>]
    /\ stopEvent = FALSE
    /\ oldBoxes = {}
    /\ boxes = {}
    /\ box = NoAddress
    /\ accepted = 0
    /\ gone = {}

\* The top of the loop: nothing left to push, and the event not seen set.
AtTop == pc = "read" /\ Live(pending) = {}

\* A frame that sample_interval skips: only finalize_stale runs.
SkipFrame ==
    /\ AtTop
    /\ ~stopEvent
    /\ frame < MaxFrame
    /\ frame' = frame + 1
    /\ frame' % SampleInterval # 0
    /\ Finalize(Stale(frame'))
    /\ UNCHANGED <<pc, queue, stopEvent, heap, accepted, gone>>

\* A frame for the detector. While it builds the new list, the old one and the loop
\* variable still hold their boxes.
ReadFrame ==
    /\ AtTop
    /\ ~stopEvent
    /\ frame < MaxFrame
    /\ frame' = frame + 1
    /\ frame' % SampleInterval = 0
    /\ pc' = "boxes"
    /\ oldBoxes' = boxes \cup {box}
    /\ boxes' = {}
    /\ UNCHANGED <<tracks, pending, queue, stopEvent, box, accepted, gone>>

\* The id the loop files a box under: the detector's track_id, or id(box).
TrackIds(veh, addr) == IF HasTracker THEN {veh, addr} ELSE {addr}

\* One box that passes the size filter.
Detect(veh, addr, score) ==
    /\ pc = "boxes"
    /\ Cardinality(boxes) < MaxBoxes
    /\ addr \notin oldBoxes \cup boxes
    /\ boxes' = boxes \cup {addr}
    /\ box' = addr
    /\ \E id \in TrackIds(veh, addr) :
          tracks' = [tracks EXCEPT ![id] = Updated(@, veh, score)]
    /\ accepted' = accepted + 1
    /\ UNCHANGED <<pc, frame, pending, queue, stopEvent, oldBoxes, gone>>

EndFrame ==
    /\ pc = "boxes"
    /\ Finalize(Stale(frame))
    /\ pc' = "read"
    /\ UNCHANGED <<frame, queue, stopEvent, heap, accepted, gone>>

\* Mutant: flush_all forgets to clear the tracks it returns.
FlushKeepsTracks ==
    /\ AtTop \/ pc = "boxes"
    /\ pending' = tracks
    /\ pc' = "flush"
    /\ UNCHANGED <<tracks, frame, queue, stopEvent, heap, accepted, gone>>

\* The finally block: on the stop event, at the end of the source, or when
\* read_frame, the detector or a crop raises.
Flush ==
    /\ AtTop \/ pc = "boxes"
    /\ Finalize(Ids)
    /\ pc' = "flush"
    /\ UNCHANGED <<frame, queue, stopEvent, heap, accepted, gone>>

Release ==
    /\ pc = "flush"
    /\ Live(pending) = {}
    /\ pc' = "done"
    /\ UNCHANGED <<frame, tracks, pending, queue, stopEvent, heap, accepted, gone>>

-------------------------------------------------------------------------------
(* _push_to_queue *)

\* Mutant: the triage compares with 0.0, the score of a track without a best crop.
RouteAnyBest(t) == IF t.best > 0 THEN "fast" ELSE "heavy"

\* blur_score is 0.0 without a best crop, which is what best is then.
Route(t) == IF t.best > Threshold THEN "fast" ELSE "heavy"

Pushing == pc \in {"read", "flush"}

\* Mutant: a queue without maxsize.
PutUnbounded(id) ==
    LET q == Route(pending[id]) IN
    /\ Pushing
    /\ id \in Live(pending)
    /\ Len(queue[q]) <= QueueMax
    /\ queue' = [queue EXCEPT ![q] = Append(@, pending[id])]
    /\ pending' = [pending EXCEPT ![id] = NoTrack]
    /\ UNCHANGED <<pc, frame, tracks, stopEvent, heap, accepted, gone>>

Put(id) ==
    LET q == Route(pending[id]) IN
    /\ Pushing
    /\ id \in Live(pending)
    /\ Len(queue[q]) < QueueMax
    /\ queue' = [queue EXCEPT ![q] = Append(@, pending[id])]
    /\ pending' = [pending EXCEPT ![id] = NoTrack]
    /\ UNCHANGED <<pc, frame, tracks, stopEvent, heap, accepted, gone>>

\* Mutant: put without a timeout, which waits for room.
PutWaits(id) == FALSE /\ UNCHANGED vars /\ id \in Ids

\* put(timeout=5.0) raises Full: the track is logged and forgotten.
PutTimesOut(id) ==
    LET q == Route(pending[id]) IN
    /\ Pushing
    /\ id \in Live(pending)
    /\ Len(queue[q]) = QueueMax
    /\ pending' = [pending EXCEPT ![id] = NoTrack]
    /\ gone' = gone \cup pending[id].dets
    /\ UNCHANGED <<pc, frame, tracks, queue, stopEvent, heap, accepted>>

-------------------------------------------------------------------------------
(* The parent process and the OCR workers *)

\* CameraFeederProcess.stop: the event, then join for 5 seconds, then terminate.
RequestStop ==
    /\ ~stopEvent
    /\ stopEvent' = TRUE
    /\ UNCHANGED <<pc, frame, tracks, pending, queue, heap, accepted, gone>>

Terminate ==
    /\ stopEvent
    /\ pc \notin {"done", "killed"}
    /\ pc' = "killed"
    /\ tracks' = [i \in Ids |-> NoTrack]
    /\ pending' = [i \in Ids |-> NoTrack]
    /\ gone' = gone \cup Detections(tracks) \cup Detections(pending)
    /\ UNCHANGED <<frame, queue, stopEvent, heap, accepted>>

\* A worker's queue.get.
Take(q) ==
    /\ queue[q] # <<>>
    /\ queue' = [queue EXCEPT ![q] = Tail(@)]
    /\ gone' = gone \cup Head(queue[q]).dets
    /\ UNCHANGED <<pc, frame, tracks, pending, stopEvent, heap, accepted>>

Feeder ==
    \/ SkipFrame
    \/ ReadFrame
    \/ \E veh \in Vehicles, addr \in Addresses, score \in Scores : Detect(veh, addr, score)
    \/ EndFrame
    \/ Flush
    \/ Release
    \/ \E id \in Ids : Put(id) \/ PutTimesOut(id)

Next ==
    \/ Feeder
    \/ RequestStop
    \/ Terminate
    \/ \E q \in Queues : Take(q)

\* The feeder runs as long as it can; nobody promises that a worker takes anything,
\* that a stop is asked for or that a hung process is killed.
Spec == Init /\ [][Next]_vars /\ WF_vars(Feeder)

-------------------------------------------------------------------------------
(* Properties *)

\* The type of every variable, and the bounds of the code: no queue above its maxsize.
TypeOK ==
    /\ pc \in {"read", "boxes", "flush", "done", "killed"}
    /\ frame \in 0..MaxFrame
    /\ tracks \in [Ids -> Tracks]
    /\ pending \in [Ids -> Tracks]
    /\ queue \in [Queues -> Seq(Tracks)]
    /\ \A q \in Queues : Len(queue[q]) <= QueueMax
    /\ stopEvent \in BOOLEAN
    /\ oldBoxes \subseteq Addresses \cup {NoAddress}
    /\ boxes \subseteq Addresses
    /\ box \in Addresses \cup {NoAddress}
    /\ accepted \in Nat
    /\ gone \subseteq 1..accepted

Queued(q) == {queue[q][k] : k \in 1..Len(queue[q])}

\* A track queued for the fast workers carries a crop to read: the triage of
\* _push_to_queue and is_sharp agree, although each computes the sharpness for itself.
FastTracksCarryCrops == \A t \in Queued("fast") : t.crops > 0

\* Workflow.txt of the same triage: "Blurry plates route to 3 Heavy Workers [...] to balance
\* max FPS with maximum accuracy on bad crops": a worker that reads nothing but the
\* track's sharp crops has something to read in a track of the heavy queue.
BlurryTracksAreRead == \A t \in Queued("heavy") : t.crops > 0

\* Between two frames no track is overdue, so what stays in TrackManager is what was
\* seen lately: at the top of the loop every live track was seen at most StaleAfter
\* frames ago.
NoOverdueTrack ==
    pc = "read" => \A i \in Live(tracks) : frame - tracks[i].last <= StaleAfter

\* Every detection that update() accepted is in exactly one place: a live track, a track
\* about to be pushed, one queued track, or gone (taken, dropped, killed). No step of
\* the loop, of the flush or of a full queue loses one silently or counts it twice.
Places ==
    {<<"live", i>> : i \in Ids} \cup {<<"pending", i>> : i \in Ids}
        \cup {<<q, k>> : q \in Queues, k \in 1..QueueMax} \cup {<<"gone", 0>>}

At(place) ==
    CASE place[1] = "live"    -> tracks[place[2]].dets
      [] place[1] = "pending" -> pending[place[2]].dets
      [] place[1] = "gone"    -> gone
      [] OTHER -> IF place[2] <= Len(queue[place[1]]) THEN queue[place[1]][place[2]].dets
                                                      ELSE {}

EveryDetectionInOnePlace ==
    \A d \in 1..accepted : \E here \in Places :
        /\ d \in At(here)
        /\ \A there \in Places \ {here} : d \notin At(there)

\* A track never bridges a longer gap than the loop allows: a detection joins an open
\* track at most StaleAfter + 1 frames after the last one.
NoLongGap ==
    [][\A i \in Live(tracks) :
          tracks[i].total < tracks'[i].total
             => tracks'[i].last - tracks[i].last <= StaleAfter + 1]_vars

\* A stop request ends the feeder even if no OCR worker ever takes a track again: a
\* full queue delays a push, it never blocks the loop.
StopEndsFeeder == stopEvent ~> pc \in {"done", "killed"}

\* detection_pipeline.py, of the same loop: without a tracking detector "assign a unique
\* ID per detection": no track aggregates the plates of two vehicles.
OneVehiclePerTrack ==
    \A i \in Ids : Cardinality(tracks[i].vehicles) <= 1

===============================================================================
